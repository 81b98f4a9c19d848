------------------------------- MODULE Populate -------------------------------
(***************************************************************************)
(* Populating a database, with the programs that share it over one port of *)
(* its server: populate_database_updatable, started again when it ended or *)
(* was killed; a routine client, which starts once populate has written    *)
(* the file of addresses, downloads a record and uploads it; and the       *)
(* coordinator's message with the root key.                                *)
(*                                                                         *)
(* The records' values are pairs of a type and the process they come from. *)
(***************************************************************************)
EXTENDS Transport

CONSTANTS
    MaxPopulates,  \* bound: times populate_database_updatable is run
    Routines,      \* routine clients
    Coordinator,
    Records        \* a sequence: the records of this database

\* The runs of populate, one after the other.
Populates == 1..MaxPopulates

ASSUME PopulateAssumption ==
    /\ MaxPopulates \in Nat
    /\ Clients = Populates \cup Routines \cup {Coordinator}
    /\ Populates \cap Routines = {}
    /\ Coordinator \notin Populates \cup Routines
\* A database has records; a routine client works on the first.
ASSUME RecordsAssumption == Records \in Seq(ToSet(Records)) /\ Len(Records) > 0

Types == <<"root_version", "ctxt_version", "wrap", "header", "data">>
Key(type, r) == <<type, r>>
AllKeys == {Key(type, r) : type \in ToSet(Types), r \in ToSet(Records)}

VARIABLES
    db,                \* Redis; it outlives the server process
    savebuf,
    current_root_key,
    output,            \* Output.txt has been written
    run                \* of the latest populate: "none", "clean", "disturbed"
                       \* by an end of the server, or "finished" without one

data == <<db, savebuf, current_root_key>>
vars == <<transport, data, output, run>>

\* What Redis and savebuf can hold besides: nothing, an empty string, and a
\* string whose end did not arrive.
Missing == <<"missing">>
Empty == <<"empty">>
Cut == <<"cut">>
NoRoot == <<"no root">>
RootKey == <<"root_version", Coordinator>>

Init ==
    /\ TransportInit
    /\ db = [k \in AllKeys |-> Missing]
    /\ savebuf = Empty /\ current_root_key = NoRoot
    /\ output = FALSE /\ run = "none"
-----------------------------------------------------------------------------
(***************************************************************************)
(* The programs: the requests each of them makes, one after the other.     *)
(***************************************************************************)
KeysOf(type) == [i \in DOMAIN Records |-> Key(type, Records[i])]

\* Faulty: the data first, then the buffer they are to be taken from.
PopulateSwapped(p) ==
    [n \in 1 .. 2 * Len(Types) |->
        LET type == Types[(n + 1) \div 2] IN
        IF n % 2 = 0 THEN [op |-> "SAVEDATA", arr |-> <<<<type, p>>>>]
                     ELSE [op |-> "POPULATE", arr |-> KeysOf(type)]]
populate(p) ==
    [n \in 1 .. 2 * Len(Types) |->
        LET type == Types[(n + 1) \div 2] IN
        IF n % 2 = 1 THEN [op |-> "SAVEDATA", arr |-> <<<<type, p>>>>]
                     ELSE [op |-> "POPULATE", arr |-> KeysOf(type)]]

\* Faulty: the root key before the payload.
SetallRootFirst(c, r) ==
    [op |-> "SETALL",
     arr |-> <<<<Key("root_version", r), RootKey>>,
               <<Key("wrap", r), <<"wrap", c>>>>,
               <<Key("header", r), <<"header", c>>>>,
               <<Key("data", r), <<"data", c>>>>>>]
setall(c, r) ==
    [op |-> "SETALL",
     arr |-> <<<<Key("wrap", r), <<"wrap", c>>>>,
               <<Key("header", r), <<"header", c>>>>,
               <<Key("data", r), <<"data", c>>>>,
               <<Key("root_version", r), RootKey>>>>]

getall(r) ==
    [op |-> "GETALL",
     arr |-> <<Key("wrap", r), Key("header", r), Key("data", r), Key("root_version", r)>>]

\* A routine client works on the first record of the file only.
Program(c) ==
    CASE c \in Populates -> populate(c)
      [] c \in Routines -> <<getall(Records[1]), setall(c, Records[1])>>
      [] c = Coordinator -> <<[op |-> "ROOTKEY", arr |-> <<RootKey>>]>>

Request(c) == Program(c)[at[c]]
\* The arguments and the null character that ends the message.
Size(c) == Len(Request(c).arr) + 1
\* Requests that can be longer than 50000 bytes, and replies.
Long(c) == Request(c).op \in {"SAVEDATA", "POPULATE", "SETALL"}
LongReply(c) == Request(c).op = "GETALL"

\* populate is started when nothing else works on the records, and the other
\* programs when it has written the addresses and is not under way.
Idle(c) == pc[c] \in {"idle", "ended"}
MayStart(c) ==
    CASE c \in Populates ->
             /\ \A other \in Populates \cup Routines : Idle(other)
             /\ \A earlier \in 1 .. c - 1 : pc[earlier] = "ended"
      [] OTHER -> output /\ \A p \in Populates : Idle(p)
Start(c) ==
    /\ pc[c] = "idle"
    /\ MayStart(c)
    /\ pc' = [pc EXCEPT ![c] = "connect"]
    /\ run' = IF c \in Populates THEN "clean" ELSE run
    /\ UNCHANGED <<at, tries, sent, reply, up, restarts, thread, data, output>>

\* The replies are not looked at, but for the values of getall: if there are
\* too few, it goes on with what is behind their array, or crashes.
AtLast(c) == at[c] = Len(Program(c))
Following(c) == IF AtLast(c) THEN "ended" ELSE "connect"
Receive(c) ==
    /\ \/ Answered(c) /\ Proceed(c, Following(c))
       \/ CutOff(c) /\ Proceed(c, Following(c))
       \/ CutOff(c) /\ LongReply(c) /\ Proceed(c, "ended")
    /\ output' = (output \/ (c \in Populates /\ AtLast(c)))
    /\ run' = IF c \in Populates /\ AtLast(c) /\ run = "clean" THEN "finished" ELSE run
    /\ UNCHANGED data

Travel(c) ==
    /\ \/ Connect(c) \/ ConnectFails(c)
       \/ pc[c] = "send" /\ Send(c, Size(c), Long(c))
       \/ SendFails(c)
    /\ UNCHANGED <<data, output, run>>
Client(c) == Start(c) \/ Travel(c) \/ Receive(c)
Kill(c) == c # Coordinator /\ Killed(c) /\ UNCHANGED <<data, output, run>>
-----------------------------------------------------------------------------
(***************************************************************************)
(* The server's commands.  Of a request that did not arrive whole the last *)
(* argument may be cut.                                                    *)
(***************************************************************************)
From == connfd[1]
Asked == Program(From)[connfd[2]]
Arrived ==
    LET n == sent[From] IN
    IF Complete(Len(Asked.arr) + 1) THEN {Asked.arr}
    ELSE {SubSeq(Asked.arr, 1, n), SubSeq(Asked.arr, 1, n - 1) \o <<Cut>>}

Command(op) ==
    /\ connfd # None
    /\ Asked.op = op
    /\ sent[From] > 0
    /\ Serving(Len(Asked.arr) + 1)

Savedata ==
    /\ Command("SAVEDATA")
    /\ \E arr \in Arrived : savebuf' = arr[1]
    /\ Handled
    /\ UNCHANGED <<db, current_root_key>>
PopulateKeys ==
    /\ Command("POPULATE")
    /\ \E arr \in Arrived :
          db' = [k \in AllKeys |-> IF k \in ToSet(arr) THEN savebuf ELSE db[k]]
    /\ Handled
    /\ UNCHANGED <<savebuf, current_root_key>>
Getall ==
    /\ Command("GETALL")
    /\ Handled
    /\ UNCHANGED data

\* A pair whose value was cut may have lost the value and then counts for
\* nothing; the root key's pair says whether the others are stored.
Pairs(arr) == {i \in DOMAIN arr : arr[i] # Cut}
RootMatches(arr) ==
    \E i \in Pairs(arr) : /\ arr[i][1][1] = "root_version"
                          /\ arr[i][2] = current_root_key
Stored(arr) ==
    [k \in AllKeys |->
        IF k = Key("ctxt_version", Records[1]) THEN <<"ctxt_version", From>>
        ELSE IF \E i \in Pairs(arr) : arr[i][1] = k
               THEN arr[CHOOSE i \in Pairs(arr) : arr[i][1] = k][2]
        ELSE db[k]]
\* get_value returns a null pointer for an empty value too.
NoVersion == db[Key("ctxt_version", Records[1])] \in {Missing, Empty}
Setall ==
    /\ Command("SETALL")
    /\ \E arr \in Arrived :
          /\ RootMatches(arr) => ~NoVersion
          /\ db' = IF RootMatches(arr) THEN Stored(arr) ELSE db
    /\ Handled
    /\ UNCHANGED <<savebuf, current_root_key>>
Rootkey ==
    /\ Command("ROOTKEY")
    /\ current_root_key' = Asked.arr[1]
    /\ Handled
    /\ UNCHANGED <<db, savebuf>>

\* No byte arrived: the first word is read from behind an empty array, which
\* crashes or is not a command.
EmptyMessage ==
    /\ connfd # None /\ result = "none"
    /\ sent[From] = 0 /\ Gone(connfd)
Ignore == EmptyMessage /\ Unrecognised /\ UNCHANGED data

Answer ==
    /\ connfd # None
    /\ \/ Asked.op = "GETALL" /\ ReplyPart
       \/ Reply
    /\ UNCHANGED data

\* The process ends: with the empty message, with an upload to a record that
\* has no version (atoi of a null pointer), or with SIGPIPE.
MissingVersion ==
    /\ Command("SETALL")
    /\ \E arr \in Arrived : RootMatches(arr)
    /\ NoVersion
Crash ==
    /\ \/ (EmptyMessage \/ MissingVersion) /\ ServerEnds
       \/ ReplyKills
    /\ run' = IF run = "clean" THEN "disturbed" ELSE run
    /\ UNCHANGED <<data, output>>
Restart ==
    /\ ServerStarts
    /\ savebuf' = Empty /\ current_root_key' = NoRoot
    /\ UNCHANGED <<db, output, run>>

Serve ==
    \/ /\ \/ Accept /\ UNCHANGED data
          \/ Savedata \/ PopulateKeys \/ Getall \/ Setall \/ Rootkey
          \/ Ignore \/ Answer
       /\ UNCHANGED <<output, run>>
    \/ Crash

Next ==
    \/ \E c \in Clients : Client(c) \/ Kill(c)
    \/ Serve \/ Restart
Spec ==
    /\ Init /\ [][Next]_vars
    /\ \A c \in Clients : WF_vars(Client(c))
    /\ WF_vars(Serve)
-----------------------------------------------------------------------------
(***************************************************************************)
(* Properties.                                                             *)
(***************************************************************************)
Values == ToSet(Types) \X Clients

\* Every variable has its type.
TypeOK ==
    /\ TransportTypeOK
    /\ db \in [AllKeys -> Values \cup {Missing, Empty}]
    /\ savebuf \in Values \cup {Empty, Cut}
    /\ current_root_key \in {NoRoot, RootKey}
    /\ output \in BOOLEAN
    /\ run \in {"none", "clean", "disturbed", "finished"}

\* savebuf is one buffer for all (simple_server.c:843, :858), and a POPULATE
\* stores what the latest SAVEDATA left there.  Wherever populate was killed,
\* with requests cut or still in the queue: a key never gets the value of
\* another type or one that was cut; it can get an empty one, but only after
\* the server was started again.
KeysHoldTheirOwnType ==
    \A k \in AllKeys :
        \/ db[k] = Missing
        \/ db[k] \in Values /\ db[k][1] = k[1]
        \/ db[k] = Empty /\ restarts > 0

\* When populate has ended without an end of the server, each record is that
\* of one process, as its wrap, header and payload have to be -- whatever
\* earlier runs left in the database or in the queue -- and it has a version
\* (simple_server.c:627), also after uploads.
RecordsAreWhole ==
    run = "finished" =>
        \A r \in ToSet(Records) :
            /\ \A type \in ToSet(Types) : db[Key(type, r)] \in Values
            /\ \A type \in {"header", "data"} :
                   db[Key(type, r)][2] = db[Key("wrap", r)][2]

\* An upload whose client ends while it sends it changes nothing, or all.
UploadsAreWhole ==
    [][\A c \in Routines : connfd # None /\ connfd[1] = c =>
          \/ db' = db
          \/ \A type \in {"ctxt_version", "wrap", "header", "data"} :
                db'[Key(type, Records[1])] = <<type, c>>]_vars
=============================================================================
