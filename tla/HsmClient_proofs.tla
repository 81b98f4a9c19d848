-------------------------- MODULE HsmClient_proofs --------------------------
(***************************************************************************)
(* Proofs about HsmClient, for any limit on the sessions of the HSM and    *)
(* any number of records of a naive program.                               *)
(***************************************************************************)
EXTENDS HsmClient, TLAPS

\* What start-up counts is bounded at every point: each loop goes round once
\* more when its counter is past its limit.
Counters ==
    /\ pc = "initialize" => initcount = 0
    /\ pc \in {"initialize_again", "open"} => initcount <= 11
    /\ pc # "ended" => initcount <= 21
    /\ pc # "ended" => fails <= 10

\* A fetch comes first in its operation, and is repeated a number of times.
FetchFirst ==
    /\ \A n \in 2..Len(todo) : todo[n] # "fetch"
    /\ (pc # "ended" /\ todo # << >> /\ Head(todo) = "fetch") =>
           program \in Naive /\ tries < Fetches[program]

\* Before a session is asked for, none is open; it is asked for with the
\* library initialised; and only a failed reset leaves the main loop without
\* a session that is logged in.
Sessions ==
    /\ pc \in {"initialize", "initialize_again", "open",
               "reset_initialize", "reset_open"} => opened = 0
    /\ pc \in {"open", "open_again", "reset_open"} => library
    /\ (pc = "working" /\ ~reset_failed) =>
           library /\ session = "valid" /\ logged_in
    /\ opened <= 1 + initcount

\* The loop that gives up after ten failures is that of populate.
PopulateGivesUp ==
    \A n \in 1..Len(todo) : todo[n] = "wrap_populate" => program = "populate"

IInv == TypeOK /\ Counters /\ FetchFirst /\ PopulateGivesUp /\ Sessions
-----------------------------------------------------------------------------
\* The operations are lists of stages, in which a fetch comes first if at all,
\* and only in those of the naive programs.
LEMMA OperationLists ==
    ASSUME NEW p \in Programs, NEW list \in Operations[p]
    PROVE  /\ list \in Seq(Stages)
           /\ \A n \in 2..Len(list) : list[n] # "fetch"
           /\ list # << >> /\ Head(list) = "fetch" => p \in Naive
           /\ \A n \in 1..Len(list) : list[n] = "wrap_populate" => p = "populate"
<1>1. CASE p \notin Naive
  <2>1. \/ list = <<"unwrap", "unwrap_update", "wrap", "unwrap">>
        \/ list = <<"unwrap">> \/ list = <<"wrap">> \/ list = <<"wrap_populate">>
    BY <1>1 DEF Operations, Programs, Naive
  <2>2. \A n \in 1..Len(list) : list[n] \in Stages \ {"fetch"}
    BY <2>1 DEF Stages
  <2>3. /\ <<"unwrap", "unwrap_update", "wrap", "unwrap">> \in Seq(Stages)
        /\ <<"unwrap">> \in Seq(Stages) /\ <<"wrap">> \in Seq(Stages)
        /\ <<"wrap_populate">> \in Seq(Stages)
    BY DEF Stages
  <2>4. \A n \in 1..Len(list) : list[n] = "wrap_populate" => p = "populate"
    <3>1. CASE p = "populate"
      BY <3>1
    <3>2. CASE p # "populate"
      <4>1. \/ list = <<"unwrap", "unwrap_update", "wrap", "unwrap">>
            \/ list = <<"unwrap">> \/ list = <<"wrap">>
        BY <1>1, <3>2 DEF Operations, Programs, Naive
      <4> QED
        BY <4>1
    <3> QED
      BY <3>1, <3>2
  <2> QED
    BY <2>1, <2>2, <2>3, <2>4
<1>2. CASE p \in Naive
  <2>1. \/ list = <<"fetch", "unwrap", "wrap", "upload">>
        \/ list = <<"fetch", "unwrap">> \/ list = <<"wrap", "upload">>
    BY <1>2 DEF Operations, Programs, Naive
  <2>2. /\ <<"fetch", "unwrap", "wrap", "upload">> \in Seq(Stages)
        /\ <<"fetch", "unwrap">> \in Seq(Stages)
        /\ <<"wrap", "upload">> \in Seq(Stages)
    BY DEF Stages
  <2>3. \A n \in 2..Len(list) : list[n] # "fetch"
    BY <2>1
  <2>4. \A n \in 1..Len(list) : list[n] # "wrap_populate"
    BY <2>1
  <2> QED
    BY <1>2, <2>1, <2>2, <2>3, <2>4
<1> QED
  BY <1>1, <1>2

\* The rest of a list of stages is a list of stages without a fetch, if the
\* fetch came first.
LEMMA TailOfStages ==
    ASSUME NEW list \in Seq(Stages), list # << >>,
           \A n \in 2..Len(list) : list[n] # "fetch"
    PROVE  /\ Tail(list) \in Seq(Stages)
           /\ \A n \in 1..Len(Tail(list)) : Tail(list)[n] # "fetch"
           /\ Tail(list) # << >> => Head(Tail(list)) # "fetch"
<1>1. Tail(list) \in Seq(Stages) /\ Len(Tail(list)) = Len(list) - 1
  OBVIOUS
<1>2. \A n \in 1..Len(Tail(list)) : Tail(list)[n] # "fetch"
  <2>1. ASSUME NEW n \in 1..Len(Tail(list))
        PROVE  Tail(list)[n] # "fetch"
    <3>1. Tail(list)[n] = list[n + 1] /\ n + 1 \in 2..Len(list)
      BY <1>1, <2>1
    <3> QED
      BY <3>1
  <2> QED
    BY <2>1
<1>3. Tail(list) # << >> => Head(Tail(list)) = Tail(list)[1] /\ 1 \in 1..Len(Tail(list))
  BY <1>1
<1> QED
  BY <1>1, <1>2, <1>3

LEMMA InitInv == Init => IInv
<1> SUFFICES ASSUME Init PROVE IInv
  OBVIOUS
<1>1. todo = << >> /\ Len(<< >>) = 0 /\ << >> \in Seq(Stages)
  BY DEF Init
<1>2. TypeOK
  <2>1. program \in Programs /\ pc \in Points /\ todo \in Seq(Stages)
    BY <1>1 DEF Init, Points
  <2>2. initcount \in 0..22 /\ fails \in 0..11
    BY DEF Init
  <2>3. library \in BOOLEAN /\ session \in {"none", "valid", "stale"}
    BY DEF Init
  <2>4. opened \in 0..MaxSessions
    BY HsmAssumption DEF Init
  <2>5. logged_in \in BOOLEAN /\ link \in BOOLEAN /\ reset_failed \in BOOLEAN
    BY DEF Init
  <2>6. setup \in 0..NumKeys /\ rec \in 1..NumKeys /\ tries \in 0..66
    BY HsmAssumption DEF Init
  <2>7. fits \in BOOLEAN /\ stored \subseteq 1..NumKeys
    BY DEF Init
  <2> QED
    BY <2>1, <2>2, <2>3, <2>4, <2>5, <2>6, <2>7 DEF TypeOK
<1>3. Counters /\ Sessions
  BY DEF Init, Counters, Sessions
<1>4. FetchFirst
  BY <1>1 DEF FetchFirst
<1>5. PopulateGivesUp
  BY <1>1 DEF PopulateGivesUp
<1> QED
  BY <1>2, <1>3, <1>4, <1>5 DEF IInv

-----------------------------------------------------------------------------
\* What the calls that open the session do to the process, whatever the HSM
\* answers: where it goes next, and with what in hand.
LEMMA InitializeAgainEffect ==
    ASSUME IInv, InitializeAgain
    PROVE  /\ pc = "initialize_again" /\ library' \in BOOLEAN
           /\ UNCHANGED <<atWork, session, opened, logged_in, link>>
           /\ initcount' = initcount + 1
           /\ \/ pc' = "ended"
              \/ initcount <= 10 /\ pc' = "open" /\ library'
              \/ initcount <= 10 /\ pc' = "initialize_again"
<1>1. PICK succeeds \in BOOLEAN :
          /\ pkcs11_initialize(succeeds)
          /\ Goto("initialize_again",
                  CASE initcount > 10 -> "ended"
                    [] initcount <= 10 /\ succeeds -> "open"
                    [] OTHER -> "initialize_again")
  BY Zenon DEF InitializeAgain
<1>2. initcount \in Nat
  BY DEF IInv, TypeOK
<1>3. CASE initcount > 10
  BY <1>1, <1>3 DEF InitializeAgain, pkcs11_initialize, Goto
<1>4. CASE initcount <= 10 /\ succeeds
  BY <1>1, <1>2, <1>4 DEF InitializeAgain, pkcs11_initialize, Goto
<1>5. CASE initcount <= 10 /\ ~succeeds
  BY <1>1, <1>2, <1>5 DEF InitializeAgain, pkcs11_initialize, Goto
<1> QED
  BY <1>2, <1>3, <1>4, <1>5

LEMMA OpenSessionEffect ==
    ASSUME IInv, NEW handle \in {"none", "valid", "stale"}, NEW outcome,
           pkcs11_open_session(handle, outcome)
    PROVE  /\ outcome \in Outcome /\ UNCHANGED <<library, link>>
           /\ session' \in {"none", "valid", "stale"} /\ logged_in' \in BOOLEAN
           /\ opened' \in 0..MaxSessions
           /\ opened' \in {opened, opened + 1}
           /\ outcome = "ok" => session' = "valid" /\ logged_in'
<1> USE HsmAssumption DEF pkcs11_open_session, Outcome
<1>1. opened \in 0..MaxSessions
  BY DEF IInv, TypeOK
<1>2. CASE outcome = "no_session"
  BY <1>1, <1>2
<1>3. CASE outcome # "no_session"
  <2>1. opened # MaxSessions /\ opened' = opened + 1
    BY <1>3
  <2>2. opened' \in 0..MaxSessions
    BY <1>1, <2>1
  <2>3. session' = "valid" /\ logged_in' = (outcome = "ok")
    BY <1>3
  <2> QED
    BY <2>1, <2>2, <2>3
<1> QED
  BY <1>2, <1>3

LEMMA OpenEffect ==
    ASSUME IInv, Open
    PROVE  /\ pc = "open" /\ UNCHANGED <<atWork, initcount, library, link>>
           /\ session' \in {"none", "valid", "stale"} /\ logged_in' \in BOOLEAN
           /\ opened' \in 0..MaxSessions /\ opened' \in {opened, opened + 1}
           /\ \/ pc' = "working" /\ session' = "valid" /\ logged_in'
              \/ pc' = "open_again"
<1>1. PICK outcome \in Outcome :
          /\ pkcs11_open_session(session, outcome)
          /\ Goto("open", IF outcome = "ok" THEN "working" ELSE "open_again")
  BY Zenon DEF Open
<1>2. session \in {"none", "valid", "stale"}
  BY DEF IInv, TypeOK
<1> QED
  BY <1>1, <1>2, OpenSessionEffect DEF Open, Goto

LEMMA OpenAgainEffect ==
    ASSUME IInv, OpenAgain
    PROVE  /\ pc = "open_again" /\ UNCHANGED <<atWork, library, link>>
           /\ session' \in {"none", "valid", "stale"} /\ logged_in' \in BOOLEAN
           /\ opened' \in 0..MaxSessions /\ opened' \in {opened, opened + 1}
           /\ initcount' = initcount + 1
           /\ \/ pc' = "ended"
              \/ initcount <= 20 /\ pc' = "working" /\ session' = "valid" /\ logged_in'
              \/ initcount <= 20 /\ pc' = "open_again"
<1>1. PICK outcome \in Outcome :
          /\ pkcs11_open_session("none", outcome)
          /\ Goto("open_again",
                  CASE initcount > 20 -> "ended"
                    [] initcount <= 20 /\ outcome = "ok" -> "working"
                    [] OTHER -> "open_again")
  BY Zenon DEF OpenAgain
<1>2. initcount \in Nat /\ initcount' = initcount + 1 /\ UNCHANGED atWork
  <2>1. initcount \in Nat
    BY DEF IInv, TypeOK
  <2> QED
    BY <2>1 DEF OpenAgain
<1>3. pc = "open_again"
  BY <1>1 DEF Goto
<1>4. \/ pc' = "ended"
      \/ initcount <= 20 /\ pc' = "working" /\ outcome = "ok"
      \/ initcount <= 20 /\ pc' = "open_again"
  <2>1. CASE initcount > 20
    BY <1>1, <2>1 DEF Goto
  <2>2. CASE initcount <= 20 /\ outcome = "ok"
    BY <1>1, <1>2, <2>2 DEF Goto
  <2>3. CASE initcount <= 20 /\ outcome # "ok"
    BY <1>1, <1>2, <2>3 DEF Goto
  <2> QED
    BY <1>2, <2>1, <2>2, <2>3
<1>5. /\ session' \in {"none", "valid", "stale"} /\ logged_in' \in BOOLEAN
      /\ opened' \in 0..MaxSessions /\ opened' \in {opened, opened + 1}
      /\ outcome = "ok" => session' = "valid" /\ logged_in'
      /\ UNCHANGED <<library, link>>
  BY <1>1, OpenSessionEffect
<1> QED
  BY <1>2, <1>3, <1>4, <1>5

LEMMA ResetInitializeEffect ==
    ASSUME IInv, ResetInitialize
    PROVE  /\ pc = "reset_initialize" /\ library' \in BOOLEAN
           /\ UNCHANGED <<duringReset, session, opened, logged_in, link>>
           /\ reset_failed' \in BOOLEAN
           /\ \/ pc' = "reset_open" /\ library'
              \/ pc' = "working" /\ reset_failed'
<1>1. PICK succeeds \in BOOLEAN :
          /\ pkcs11_initialize(succeeds)
          /\ Goto("reset_initialize", IF succeeds THEN "reset_open" ELSE "working")
          /\ reset_failed' = (reset_failed \/ ~succeeds)
  BY Zenon DEF ResetInitialize
<1>2. CASE succeeds
  BY <1>1, <1>2 DEF ResetInitialize, pkcs11_initialize, Goto
<1>3. CASE ~succeeds
  BY <1>1, <1>3 DEF ResetInitialize, pkcs11_initialize, Goto
<1> QED
  BY <1>2, <1>3

LEMMA ResetOpenEffect ==
    ASSUME IInv, ResetOpen
    PROVE  /\ pc = "reset_open" /\ pc' = "working"
           /\ UNCHANGED <<duringReset, library, link>>
           /\ session' \in {"none", "valid", "stale"} /\ logged_in' \in BOOLEAN
           /\ opened' \in 0..MaxSessions /\ opened' \in {opened, opened + 1}
           /\ reset_failed' \in BOOLEAN
           /\ reset_failed' \/ (session' = "valid" /\ logged_in')
<1>1. PICK outcome \in Outcome :
          /\ pkcs11_open_session(session, outcome)
          /\ reset_failed' = (reset_failed \/ outcome # "ok")
  BY Zenon DEF ResetOpen
<1>2. session \in {"none", "valid", "stale"}
  BY DEF IInv, TypeOK
<1>3. pc = "reset_open" /\ pc' = "working" /\ UNCHANGED duringReset
  BY DEF ResetOpen, Goto
<1>4. reset_failed' \in BOOLEAN /\ (reset_failed' \/ outcome = "ok")
  BY <1>1
<1>5. /\ session' \in {"none", "valid", "stale"} /\ logged_in' \in BOOLEAN
      /\ opened' \in 0..MaxSessions /\ opened' \in {opened, opened + 1}
      /\ outcome = "ok" => session' = "valid" /\ logged_in'
      /\ UNCHANGED <<library, link>>
  BY <1>1, <1>2, OpenSessionEffect
<1>6. reset_failed' \/ (session' = "valid" /\ logged_in')
  BY <1>4, <1>5, Zenon
<1> QED
  BY <1>3, <1>4, <1>5, <1>6

\* The calls of the loops that repeat: on to the next stage, the same again,
\* the download again, a reset, or exit.
LEMMA CallEffect ==
    ASSUME IInv, Wrap \/ Unwrap \/ UnwrapUpdate
    PROVE  /\ pc = "working" /\ todo # << >> /\ Head(todo) # "fetch"
           /\ pc' \in {"working", "reset", "ended"}
           /\ todo' \in {todo, Tail(todo), <<"unwrap">>}
           /\ UNCHANGED <<calls, fails>>
<1>1. CASE Wrap
  BY <1>1 DEF Wrap, Stage, Continue, Exit, Stay
<1>2. CASE Unwrap
  BY <1>2 DEF Unwrap, Stage, Continue, Exit, Stay
<1>3. CASE UnwrapUpdate
  BY <1>3 DEF UnwrapUpdate, Stage, Continue, Exit
<1> QED
  BY <1>1, <1>2, <1>3

\* The list of stages after a call is one of stages, with a fetch nowhere.
LEMMA CallStages ==
    ASSUME IInv, Wrap \/ Unwrap \/ UnwrapUpdate
    PROVE  todo' \in Seq(Stages) /\ FetchFirst'
<1>1. todo \in Seq(Stages) /\ todo # << >> /\ Head(todo) # "fetch"
  BY CallEffect DEF IInv, TypeOK
<1>2. CASE todo' = todo
  BY <1>1, <1>2 DEF IInv, FetchFirst
<1>3. CASE todo' = Tail(todo)
  <2>1. /\ todo' \in Seq(Stages)
        /\ \A n \in 1..Len(todo') : todo'[n] # "fetch"
        /\ todo' # << >> => Head(todo') # "fetch"
    BY <1>1, <1>3, TailOfStages DEF IInv, FetchFirst
  <2> QED
    BY <2>1 DEF FetchFirst
<1>4. CASE todo' = <<"unwrap">>
  <2>1. <<"unwrap">> \in Seq(Stages) /\ Len(<<"unwrap">>) = 1 /\ Head(<<"unwrap">>) = "unwrap"
    BY DEF Stages
  <2> QED
    BY <1>4, <2>1 DEF FetchFirst
<1> QED
  BY <1>2, <1>3, <1>4, CallEffect

\* A fetch: on with what came, once more while the program has fetches left,
\* the record anew, or the end of the program.
LEMMA FetchEffect ==
    ASSUME IInv, Fetch
    PROVE  /\ pc = "working" /\ todo # << >> /\ Head(todo) = "fetch"
           /\ tries < Fetches[program] /\ Fetches[program] \in {11, 66}
           /\ tries' \in {tries, tries + 1} /\ fits' \in BOOLEAN
           /\ UNCHANGED <<exchange, stored>>
           /\ \/ pc' = "working" /\ todo' \in {Tail(todo), <<"wrap", "upload">>}
              \/ pc' = "working" /\ todo' = todo /\ tries' < Fetches[program]
              \/ pc' = "ended" /\ todo' = todo
<1>1. /\ pc = "working" /\ todo # << >> /\ Head(todo) = "fetch"
      /\ UNCHANGED <<exchange, stored>>
  BY DEF Fetch, Stage
<1>2. tries < Fetches[program] /\ Fetches[program] \in {11, 66}
  BY <1>1 DEF IInv, FetchFirst, Fetches, Naive
<1>3. \/ Continue \/ Exit \/ (Stay /\ tries' < Fetches[program])
      \/ todo' = <<"wrap", "upload">> /\ UNCHANGED pc
  <2>1. PICK found \in Found :
          \/ found \in {"record", "garbage"} /\ Continue
          \/ found = "nothing" /\ tries' < Fetches[program] /\ Stay
          \/ /\ found = "nothing" /\ tries' = Fetches[program]
             /\ program = "naive_updates"
             /\ todo' = <<"wrap", "upload">> /\ UNCHANGED pc
          \/ /\ \/ found = "crash"
                \/ /\ found = "nothing" /\ tries' = Fetches[program]
                   /\ program = "naive_routine"
             /\ Exit
    BY Zenon DEF Fetch
  <2> QED
    BY <2>1, Zenon
<1>4. tries' \in {tries, tries + 1} /\ fits' \in BOOLEAN
  BY DEF Fetch
<1> QED
  BY <1>1, <1>2, <1>3, <1>4 DEF Continue, Exit, Stay

\* The list of stages after a fetch.
LEMMA FetchStages ==
    ASSUME IInv, Fetch
    PROVE  todo' \in Seq(Stages) /\ FetchFirst'
<1>1. todo \in Seq(Stages) /\ todo # << >> /\ UNCHANGED program
  BY FetchEffect DEF IInv, TypeOK, exchange
<1>2. CASE pc' = "working" /\ todo' = todo /\ tries' < Fetches[program]
  BY <1>1, <1>2, FetchEffect DEF IInv, FetchFirst
<1>3. CASE pc' = "ended" /\ todo' = todo
  BY <1>1, <1>3 DEF IInv, FetchFirst
<1>4. CASE todo' = Tail(todo)
  <2>1. /\ todo' \in Seq(Stages)
        /\ \A n \in 1..Len(todo') : todo'[n] # "fetch"
        /\ todo' # << >> => Head(todo') # "fetch"
    BY <1>1, <1>4, TailOfStages DEF IInv, FetchFirst
  <2> QED
    BY <2>1 DEF FetchFirst
<1>5. CASE todo' = <<"wrap", "upload">>
  <2>1. /\ <<"wrap", "upload">> \in Seq(Stages) /\ Len(<<"wrap", "upload">>) = 2
        /\ Head(<<"wrap", "upload">>) = "wrap" /\ <<"wrap", "upload">>[2] = "upload"
    BY DEF Stages
  <2> QED
    BY <1>5, <2>1 DEF FetchFirst
<1> QED
  BY <1>2, <1>3, <1>4, <1>5, FetchEffect

\* A call of populate: the loop goes on, or the program has ended.
LEMMA WrapPopulateEffect ==
    ASSUME IInv, WrapPopulate
    PROVE  /\ pc = "working" /\ fails' \in 0..11
           /\ UNCHANGED <<program, initcount, todo, reset_failed, naive>>
           /\ \/ pc' = "ended" /\ pkcs11_finalize_session
              \/ pc' = "ended" /\ UNCHANGED hsm
              \/ pc' = "working" /\ fails' <= 10 /\ UNCHANGED hsm
<1>1. PICK rv \in Answers :
          /\ fails' = IF rv \in {OK, NoSuchKey} THEN fails ELSE fails + 1
          /\ IF rv = OK
               THEN pc' = "ended" /\ pkcs11_finalize_session
               ELSE /\ pc' = IF rv = NoSuchKey \/ fails' > 10 THEN "ended" ELSE pc
                    /\ UNCHANGED hsm
  BY Zenon DEF WrapPopulate
<1>2. /\ pc = "working" /\ fails \in 0..10
      /\ UNCHANGED <<program, initcount, todo, reset_failed, naive>>
  BY DEF WrapPopulate, Stage, IInv, TypeOK, Counters
<1>3. fails' \in 0..11
  BY <1>1, <1>2
<1>4. CASE rv = OK
  BY <1>1, <1>2, <1>3, <1>4
<1>5. CASE rv # OK
  BY <1>1, <1>2, <1>3, <1>5
<1> QED
  BY <1>4, <1>5
-----------------------------------------------------------------------------
\* Every step keeps the account of the sessions.
LEMMA SessionsStep ==
    ASSUME IInv, [Next]_vars
    PROVE  Sessions'
<1> USE HsmAssumption
     DEF IInv, TypeOK, Points, Sessions, Goto
<1>1. CASE Initialize
  BY <1>1 DEF Initialize, pkcs11_initialize, atWork
<1>2. CASE InitializeAgain
  BY <1>2, InitializeAgainEffect DEF atWork
<1>3. CASE Open
  BY <1>3, OpenEffect DEF atWork
<1>4. CASE OpenAgain
  BY <1>4, OpenAgainEffect DEF atWork
<1>5. CASE SetUp
  BY <1>5 DEF SetUp, Between, hsm
<1>6. CASE Begin
  BY <1>6 DEF Begin, Between, hsm
<1>7. CASE End
  BY <1>7 DEF End, Between, pkcs11_finalize_session
<1>8. CASE Wrap
  BY <1>8, CallEffect DEF calls, hsm
<1>9. CASE Unwrap
  BY <1>9, CallEffect DEF calls, hsm
<1>10. CASE UnwrapUpdate
  BY <1>10, CallEffect DEF calls, hsm
<1>11. CASE WrapPopulate
  <2>1. initcount' = initcount /\ opened' \in {0, opened}
    BY <1>11, WrapPopulateEffect DEF pkcs11_finalize_session, hsm
  <2>2. opened' <= 1 + initcount'
    BY <2>1
  <2>3. CASE pc' = "ended"
    BY <2>2, <2>3
  <2>4. CASE pc' = "working"
    BY <1>11, <2>2, <2>4, WrapPopulateEffect DEF hsm
  <2> QED
    BY <1>11, <2>3, <2>4, WrapPopulateEffect
<1>12. CASE ResetFinalize
  BY <1>12 DEF ResetFinalize, pkcs11_finalize_session, duringReset
<1>13. CASE ResetInitialize
  BY <1>13, ResetInitializeEffect DEF duringReset
<1>14. CASE ResetOpen
  BY <1>14, ResetOpenEffect DEF duringReset
<1>15. CASE Upload
  BY <1>15 DEF Upload, Stage, Continue, exchange, hsm
<1>16. CASE UploadCrashes
  BY <1>16 DEF UploadCrashes, Stage, Exit, exchange, hsm
<1>17. CASE Fetch
  BY <1>17, FetchEffect DEF exchange, hsm
<1>18. CASE LoseLink
  BY <1>18 DEF LoseLink, Working
<1>19. CASE UNCHANGED vars
  BY <1>19 DEF vars, hsm
<1> QED
  BY <1>1, <1>2, <1>3, <1>4, <1>5, <1>6, <1>7, <1>8, <1>9, <1>10,
     <1>11, <1>12, <1>13, <1>14, <1>15, <1>16, <1>17, <1>18, <1>19
     DEF Next, Process, StartUp, Main, Call, Reset, Exchange

\* Every step keeps the counters below their limits.
LEMMA CountersStep ==
    ASSUME IInv, [Next]_vars
    PROVE  Counters'
<1> USE HsmAssumption
     DEF IInv, TypeOK, Points, Counters, Goto
<1>1. CASE Initialize
  BY <1>1 DEF Initialize, pkcs11_initialize, atWork
<1>2. CASE InitializeAgain
  BY <1>2, InitializeAgainEffect DEF atWork
<1>3. CASE Open
  BY <1>3, OpenEffect DEF atWork
<1>4. CASE OpenAgain
  BY <1>4, OpenAgainEffect DEF atWork
<1>5. CASE SetUp
  BY <1>5 DEF SetUp, Between, hsm
<1>6. CASE Begin
  BY <1>6 DEF Begin, Between, hsm
<1>7. CASE End
  BY <1>7 DEF End, Between, pkcs11_finalize_session
<1>8. CASE Wrap
  BY <1>8, CallEffect DEF calls, hsm
<1>9. CASE Unwrap
  BY <1>9, CallEffect DEF calls, hsm
<1>10. CASE UnwrapUpdate
  BY <1>10, CallEffect DEF calls, hsm
<1>11. CASE WrapPopulate
  BY <1>11, WrapPopulateEffect DEF pkcs11_finalize_session, hsm
<1>12. CASE ResetFinalize
  BY <1>12 DEF ResetFinalize, pkcs11_finalize_session, duringReset
<1>13. CASE ResetInitialize
  BY <1>13, ResetInitializeEffect DEF duringReset
<1>14. CASE ResetOpen
  BY <1>14, ResetOpenEffect DEF duringReset
<1>15. CASE Upload
  BY <1>15 DEF Upload, Stage, Continue, exchange, hsm
<1>16. CASE UploadCrashes
  BY <1>16 DEF UploadCrashes, Stage, Exit, exchange, hsm
<1>17. CASE Fetch
  BY <1>17, FetchEffect DEF exchange, hsm
<1>18. CASE LoseLink
  BY <1>18 DEF LoseLink, Working
<1>19. CASE UNCHANGED vars
  BY <1>19 DEF vars, hsm
<1> QED
  BY <1>1, <1>2, <1>3, <1>4, <1>5, <1>6, <1>7, <1>8, <1>9, <1>10,
     <1>11, <1>12, <1>13, <1>14, <1>15, <1>16, <1>17, <1>18, <1>19
     DEF Next, Process, StartUp, Main, Call, Reset, Exchange

\* Every step keeps the fetches first and bounded.
LEMMA FetchFirstStep ==
    ASSUME IInv, [Next]_vars
    PROVE  FetchFirst'
<1> USE HsmAssumption
     DEF IInv, TypeOK, Points, FetchFirst, Goto
<1>1. CASE Initialize
  BY <1>1 DEF Initialize, pkcs11_initialize, atWork, naive
<1>2. CASE InitializeAgain
  BY <1>2, InitializeAgainEffect DEF atWork, naive
<1>3. CASE Open
  BY <1>3, OpenEffect DEF atWork, naive
<1>4. CASE OpenAgain
  BY <1>4, OpenAgainEffect DEF atWork, naive
<1>5. CASE SetUp
  BY <1>5 DEF SetUp, Between, hsm, naive
<1>6. CASE Begin
  BY <1>6, OperationLists DEF Begin, Between, hsm, Naive, Fetches, Programs, Operations, naive
<1>7. CASE End
  BY <1>7 DEF End, Between, pkcs11_finalize_session, naive
<1>8. CASE Wrap
  BY <1>8, CallStages
<1>9. CASE Unwrap
  BY <1>9, CallStages
<1>10. CASE UnwrapUpdate
  BY <1>10, CallStages
<1>11. CASE WrapPopulate
  BY <1>11, WrapPopulateEffect DEF pkcs11_finalize_session, hsm, naive
<1>12. CASE ResetFinalize
  BY <1>12 DEF ResetFinalize, pkcs11_finalize_session, duringReset, naive
<1>13. CASE ResetInitialize
  BY <1>13, ResetInitializeEffect DEF duringReset, naive
<1>14. CASE ResetOpen
  BY <1>14, ResetOpenEffect DEF duringReset, naive
<1>15. CASE Upload
  BY <1>15, TailOfStages DEF Upload, Stage, Continue, exchange, hsm, naive
<1>16. CASE UploadCrashes
  BY <1>16 DEF UploadCrashes, Stage, Exit, exchange, hsm, naive
<1>17. CASE Fetch
  BY <1>17, FetchStages
<1>18. CASE LoseLink
  BY <1>18 DEF LoseLink, Working, naive
<1>19. CASE UNCHANGED vars
  BY <1>19 DEF vars, hsm, naive
<1> QED
  BY <1>1, <1>2, <1>3, <1>4, <1>5, <1>6, <1>7, <1>8, <1>9, <1>10,
     <1>11, <1>12, <1>13, <1>14, <1>15, <1>16, <1>17, <1>18, <1>19
     DEF Next, Process, StartUp, Main, Call, Reset, Exchange

-----------------------------------------------------------------------------
\* TypeOK in three parts: main, the session, and the records.
Control ==
    /\ program \in Programs /\ pc \in Points /\ todo \in Seq(Stages)
    /\ initcount \in 0..22 /\ fails \in 0..11
Session ==
    /\ library \in BOOLEAN /\ session \in {"none", "valid", "stale"}
    /\ opened \in 0..MaxSessions
    /\ logged_in \in BOOLEAN /\ link \in BOOLEAN /\ reset_failed \in BOOLEAN
Records ==
    /\ setup \in 0..NumKeys /\ rec \in 1..NumKeys /\ tries \in 0..66
    /\ fits \in BOOLEAN /\ stored \subseteq 1..NumKeys

\* The handles of a session that was closed.
LEMMA FinalizeType ==
    ASSUME IInv, pkcs11_finalize_session, UNCHANGED reset_failed
    PROVE  Session'
<1>1. library' \in BOOLEAN /\ session' \in {"none", "valid", "stale"}
  BY DEF pkcs11_finalize_session
<1>2. opened' \in 0..MaxSessions
  BY HsmAssumption DEF pkcs11_finalize_session
<1>3. link' \in BOOLEAN /\ logged_in' \in BOOLEAN
  BY DEF pkcs11_finalize_session
<1>4. reset_failed' \in BOOLEAN
  BY DEF IInv, TypeOK
<1> QED
  BY <1>1, <1>2, <1>3, <1>4 DEF Session

\* Every step keeps every variable in its type.
LEMMA TypeStep ==
    ASSUME IInv, [Next]_vars
    PROVE  Control' /\ Session' /\ Records'
<1> USE HsmAssumption
     DEF IInv, TypeOK, Points, Stages, Counters, Goto
<1>1. CASE Initialize
  <2>1. Control'
    BY <1>1 DEF Initialize, pkcs11_initialize, atWork, Control
  <2>2. Session'
    BY <1>1 DEF Initialize, pkcs11_initialize, atWork, Session
  <2>3. Records'
    BY <1>1 DEF Initialize, pkcs11_initialize, atWork, naive, Records
  <2> QED
    BY <2>1, <2>2, <2>3
<1>2. CASE InitializeAgain
  <2>1. Control'
    <3>1. initcount \in 0..11 /\ initcount' = initcount + 1
      BY <1>2, InitializeAgainEffect
    <3>2. initcount' \in 0..22
      BY <3>1
    <3> QED
      BY <1>2, <3>2, InitializeAgainEffect DEF atWork, Control
  <2>2. Session'
    BY <1>2, InitializeAgainEffect DEF atWork, Session
  <2>3. Records'
    BY <1>2, InitializeAgainEffect DEF atWork, naive, Records
  <2> QED
    BY <2>1, <2>2, <2>3
<1>3. CASE Open
  <2>1. Control'
    BY <1>3, OpenEffect DEF atWork, Control
  <2>2. Session'
    BY <1>3, OpenEffect DEF atWork, Session
  <2>3. Records'
    BY <1>3, OpenEffect DEF atWork, naive, Records
  <2> QED
    BY <2>1, <2>2, <2>3
<1>4. CASE OpenAgain
  <2>1. Control'
    <3>1. initcount \in 0..21 /\ initcount' = initcount + 1
      BY <1>4, OpenAgainEffect
    <3>2. initcount' \in 0..22
      BY <3>1
    <3> QED
      BY <1>4, <3>2, OpenAgainEffect DEF atWork, Control
  <2>2. Session'
    BY <1>4, OpenAgainEffect DEF atWork, Session
  <2>3. Records'
    BY <1>4, OpenAgainEffect DEF atWork, naive, Records
  <2> QED
    BY <2>1, <2>2, <2>3
<1>5. CASE SetUp
  <2>1. Control'
    BY <1>5 DEF SetUp, Between, hsm, Control
  <2>2. Session'
    BY <1>5 DEF SetUp, Between, hsm, Session
  <2>3. Records'
    BY <1>5 DEF SetUp, Between, hsm, naive, Records
  <2> QED
    BY <2>1, <2>2, <2>3
<1>6. CASE Begin
  <2>1. Control'
    BY <1>6, OperationLists DEF Begin, Between, hsm, Control
  <2>2. Session'
    BY <1>6 DEF Begin, Between, hsm, Session
  <2>3. Records'
    BY <1>6 DEF Begin, Between, hsm, naive, Records
  <2> QED
    BY <2>1, <2>2, <2>3
<1>7. CASE End
  <2>1. Control'
    BY <1>7 DEF End, Between, Control
  <2>2. Session'
    BY <1>7, FinalizeType DEF End, Between, Session
  <2>3. Records'
    BY <1>7 DEF End, Between, naive, Records
  <2> QED
    BY <2>1, <2>2, <2>3
<1>8. CASE Wrap
  <2>1. Control'
    BY <1>8, CallEffect, CallStages DEF calls, hsm, Control
  <2>2. Session'
    BY <1>8, CallEffect DEF calls, hsm, Session
  <2>3. Records'
    BY <1>8, CallEffect DEF calls, hsm, naive, Records
  <2> QED
    BY <2>1, <2>2, <2>3
<1>9. CASE Unwrap
  <2>1. Control'
    BY <1>9, CallEffect, CallStages DEF calls, hsm, Control
  <2>2. Session'
    BY <1>9, CallEffect DEF calls, hsm, Session
  <2>3. Records'
    BY <1>9, CallEffect DEF calls, hsm, naive, Records
  <2> QED
    BY <2>1, <2>2, <2>3
<1>10. CASE UnwrapUpdate
  <2>1. Control'
    BY <1>10, CallEffect, CallStages DEF calls, hsm, Control
  <2>2. Session'
    BY <1>10, CallEffect DEF calls, hsm, Session
  <2>3. Records'
    BY <1>10, CallEffect DEF calls, hsm, naive, Records
  <2> QED
    BY <2>1, <2>2, <2>3
<1>11. CASE WrapPopulate
  <2>1. Control'
    BY <1>11, WrapPopulateEffect DEF hsm, Control
  <2>2. Session'
    BY <1>11, WrapPopulateEffect, FinalizeType DEF hsm, Session
  <2>3. Records'
    BY <1>11, WrapPopulateEffect DEF hsm, naive, Records
  <2> QED
    BY <2>1, <2>2, <2>3
<1>12. CASE ResetFinalize
  <2>1. Control'
    BY <1>12 DEF ResetFinalize, duringReset, Control
  <2>2. Session'
    BY <1>12, FinalizeType DEF ResetFinalize, duringReset, Session
  <2>3. Records'
    BY <1>12 DEF ResetFinalize, duringReset, naive, Records
  <2> QED
    BY <2>1, <2>2, <2>3
<1>13. CASE ResetInitialize
  <2>1. Control'
    BY <1>13, ResetInitializeEffect DEF duringReset, Control
  <2>2. Session'
    BY <1>13, ResetInitializeEffect DEF duringReset, Session
  <2>3. Records'
    BY <1>13, ResetInitializeEffect DEF duringReset, naive, Records
  <2> QED
    BY <2>1, <2>2, <2>3
<1>14. CASE ResetOpen
  <2>1. Control'
    BY <1>14, ResetOpenEffect DEF duringReset, Control
  <2>2. Session'
    BY <1>14, ResetOpenEffect DEF duringReset, Session
  <2>3. Records'
    BY <1>14, ResetOpenEffect DEF duringReset, naive, Records
  <2> QED
    BY <2>1, <2>2, <2>3
<1>15. CASE Upload
  <2>1. Control'
    BY <1>15, TailOfStages DEF Upload, Stage, Continue, exchange, hsm, Control
  <2>2. Session'
    BY <1>15 DEF Upload, Stage, Continue, exchange, hsm, Session
  <2>3. Records'
    BY <1>15 DEF Upload, Stage, Continue, exchange, hsm, naive, Records
  <2> QED
    BY <2>1, <2>2, <2>3
<1>16. CASE UploadCrashes
  <2>1. Control'
    BY <1>16 DEF UploadCrashes, Stage, Exit, exchange, hsm, Control
  <2>2. Session'
    BY <1>16 DEF UploadCrashes, Stage, Exit, exchange, hsm, Session
  <2>3. Records'
    BY <1>16 DEF UploadCrashes, Stage, Exit, exchange, hsm, naive, Records
  <2> QED
    BY <2>1, <2>2, <2>3
<1>17. CASE Fetch
  <2>1. Control'
    <3>1. pc' \in Points /\ UNCHANGED <<program, initcount, fails>>
      BY <1>17, FetchEffect DEF exchange
    <3> QED
      BY <1>17, <3>1, FetchStages DEF Control
  <2>2. Session'
    BY <1>17, FetchEffect DEF exchange, hsm, Session
  <2>3. Records'
    <3>1. tries' \in 0..66
      <4>1. /\ tries \in 0..66 /\ tries < Fetches[program]
            /\ Fetches[program] \in {11, 66} /\ tries' \in {tries, tries + 1}
        BY <1>17, FetchEffect
      <4> QED
        BY <4>1
    <3>2. fits' \in BOOLEAN /\ UNCHANGED <<setup, rec>> /\ UNCHANGED stored
      BY <1>17, FetchEffect DEF exchange
    <3> QED
      BY <3>1, <3>2 DEF Records
  <2> QED
    BY <2>1, <2>2, <2>3
<1>18. CASE LoseLink
  <2>1. Control'
    BY <1>18 DEF LoseLink, Working, Control
  <2>2. Session'
    BY <1>18 DEF LoseLink, Working, Session
  <2>3. Records'
    BY <1>18 DEF LoseLink, Working, naive, Records
  <2> QED
    BY <2>1, <2>2, <2>3
<1>19. CASE UNCHANGED vars
  <2>1. Control'
    BY <1>19 DEF vars, hsm, Control
  <2>2. Session'
    BY <1>19 DEF vars, hsm, Session
  <2>3. Records'
    BY <1>19 DEF vars, hsm, naive, Records
  <2> QED
    BY <2>1, <2>2, <2>3
<1> QED
  BY <1>1, <1>2, <1>3, <1>4, <1>5, <1>6, <1>7, <1>8, <1>9, <1>10,
     <1>11, <1>12, <1>13, <1>14, <1>15, <1>16, <1>17, <1>18, <1>19
     DEF Next, Process, StartUp, Main, Call, Reset, Exchange

\* Every step leaves the list of stages, goes on in it, or begins another;
\* only an operation of populate has its stage.
LEMMA PopulateStep ==
    ASSUME IInv, [Next]_vars
    PROVE  PopulateGivesUp'
<1>1. todo \in Seq(Stages) /\ program \in Programs
  BY DEF IInv, TypeOK
<1>2. UNCHANGED program
  BY DEF Next, Process, StartUp, Main, Call, Reset, Exchange, vars,
         Initialize, InitializeAgain, Open, OpenAgain, atWork, SetUp, Begin,
         End, Wrap, Unwrap, UnwrapUpdate, calls, WrapPopulate, ResetFinalize,
         ResetInitialize, ResetOpen, duringReset, Upload, UploadCrashes,
         Fetch, exchange, LoseLink
<1>3. CASE UNCHANGED todo
  BY <1>2, <1>3 DEF IInv, PopulateGivesUp
<1>4. CASE todo # << >> /\ todo' = Tail(todo)
  <2>1. ASSUME NEW n \in 1..Len(Tail(todo))
        PROVE  Tail(todo)[n] = todo[n + 1] /\ n + 1 \in 1..Len(todo)
    BY <1>1, <1>4, <2>1
  <2> QED
    BY <1>2, <1>4, <2>1 DEF IInv, PopulateGivesUp
<1>5. CASE todo' = <<"unwrap">> \/ todo' = <<"wrap", "upload">>
  BY <1>5 DEF PopulateGivesUp
<1>6. CASE todo' \in Operations[program]
  BY <1>1, <1>2, <1>6, OperationLists DEF PopulateGivesUp
<1>7. \/ UNCHANGED todo
      \/ todo # << >> /\ todo' = Tail(todo)
      \/ todo' = <<"unwrap">> \/ todo' = <<"wrap", "upload">>
      \/ todo' \in Operations[program]
  <2>1. CASE Wrap \/ Unwrap \/ UnwrapUpdate
    BY <2>1, CallEffect
  <2>2. CASE Fetch
    BY <2>2, FetchEffect
  <2>3. CASE Upload
    BY <2>3 DEF Upload, Stage, Continue
  <2>4. CASE SetUp \/ Begin
    BY <2>4 DEF SetUp, Begin
  <2>5. CASE StartUp \/ End \/ WrapPopulate \/ Reset \/ UploadCrashes
             \/ LoseLink \/ UNCHANGED vars
    BY <2>5 DEF StartUp, Initialize, InitializeAgain, Open, OpenAgain, atWork,
           End, WrapPopulate, Reset, ResetFinalize, ResetInitialize,
           ResetOpen, duringReset, UploadCrashes, Exit, LoseLink, vars
  <2> QED
    BY <2>1, <2>2, <2>3, <2>4, <2>5 DEF Next, Process, Main, Call, Exchange
<1> QED
  BY <1>3, <1>4, <1>5, <1>6, <1>7

\* Every step keeps the invariant.
LEMMA NextInv == IInv /\ [Next]_vars => IInv'
<1> SUFFICES ASSUME IInv, [Next]_vars PROVE IInv'
  OBVIOUS
<1>1. TypeOK'
  BY TypeStep DEF Control, Session, Records, TypeOK
<1> QED
  BY <1>1, SessionsStep, CountersStep, FetchFirstStep, PopulateStep DEF IInv

LEMMA Invariance == Spec => []IInv
BY InitInv, NextInv, PTL DEF Spec
-----------------------------------------------------------------------------
\* Every variable of a client keeps its type; in particular start-up, the
\* repeated wrap of populate and the fetches of the naive programs
\* (getall in download_and_decrypt) are bounded by their counters.
THEOREM ClientTypeCorrect == Spec => []TypeOK
<1>1. IInv => TypeOK
  BY DEF IInv
<1> QED
  BY <1>1, Invariance, PTL

\* The sessions a process has open at the HSM never exceed one and its
\* attempts at start-up (pkcs11_open_session leaves a session open whose login
\* failed; pkcs11_finalize_session in reset_connection closes them all).
THEOREM SessionsStayAccountedFor == Spec => []SessionsAccountedFor
<1>1. IInv => SessionsAccountedFor
  BY DEF IInv, Sessions, SessionsAccountedFor
<1> QED
  BY <1>1, Invariance, PTL

\* An unwrap loop (updatable_download_and_decrypt) that repeats for ever on
\* an answer that is not 7 comes only of a failed reset_connection.
THEOREM UnwrapStaysRepairable == Spec => []UnwrapIsRepairable
<1>1. ASSUME IInv, Stage("unwrap") \/ Stage("unwrap_update"), fits, ~reset_failed
      PROVE  Answers \cap {OK, Lost} # {}
  <2>1. library /\ session = "valid" /\ logged_in
    BY <1>1 DEF IInv, Sessions, Stage
  <2>2. OK \in Answers \/ Lost \in Answers
    <3>1. CASE link
      <4>1. Answers = {OK, Other}
        BY <1>1, <2>1, <3>1 DEF Answers
      <4> QED
        BY <4>1
    <3>2. CASE ~link
      <4>1. Answers = {Lost}
        BY <2>1, <3>2 DEF Answers
      <4> QED
        BY <4>1
    <3> QED
      BY <3>1, <3>2
  <2> QED
    BY <2>2
<1>2. IInv => UnwrapIsRepairable
  BY <1>1, Zenon DEF UnwrapIsRepairable
<1> QED
  BY <1>2, Invariance, PTL

\* A worker, a client or a naive program that exits in an HSM call
\* (hsm_aes_encrypt, hsm_aes_decrypt) does so only after a reset failed.
THEOREM ExitOnlyAfterFailedReset == Spec => ExitsOnlyAfterFailedReset
<1>1. ASSUME IInv, Call, program # "populate", pc' = "ended", ~reset_failed
      PROVE  FALSE
  <2>1. CASE WrapPopulate
    <3>1. Stage("wrap_populate")
      BY <2>1 DEF WrapPopulate
    <3> QED
      BY <1>1, <3>1 DEF IInv, TypeOK, Stage, PopulateGivesUp
  <2>2. CASE Wrap \/ Unwrap \/ UnwrapUpdate
    <3>1. pc = "working" /\ NoSuchKey \in Answers
      BY <1>1, <2>2 DEF Wrap, Unwrap, UnwrapUpdate, Stage, Continue, Stay
    <3>2. library /\ session = "valid" /\ logged_in
      BY <1>1, <3>1 DEF IInv, Sessions
    <3>3. Answers \subseteq {OK, Lost, Other}
      BY <3>2 DEF Answers
    <3> QED
      BY <3>1, <3>3 DEF OK, Lost, Other, NoSuchKey
  <2> QED
    BY <1>1, <2>1, <2>2 DEF Call
<1>2. IInv /\ [Next]_vars =>
         [Call /\ program # "populate" /\ pc' = "ended" => reset_failed]_vars
  BY <1>1
<1> QED
  BY <1>2, Invariance, PTL DEF Spec, ExitsOnlyAfterFailedReset
=============================================================================
