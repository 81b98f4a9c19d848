------------------------------ MODULE HsmClient ------------------------------
(***************************************************************************)
(* A client process and its HSM session: common/pkcs11.c, the start-up of  *)
(* the programs, reset_connection, and the loops of actions.c that repeat  *)
(* an HSM call until it succeeds.  What the loops do with an error differs *)
(* from one to the next: an unwrap opens the session again on error 7, a   *)
(* wrap never does, an update gives up on any other error, and populate    *)
(* after ten.  Between the loops stand the exchanges with the database     *)
(* server; those of the naive programs are in the model, with what the     *)
(* server makes of their uploads.                                          *)
(***************************************************************************)
EXTENDS Integers, Sequences

CONSTANTS
    MaxSessions,   \* sessions the HSM lets one application open
    NumKeys        \* num_of_db_keys, the records of a naive program

ASSUME HsmAssumption == MaxSessions \in Nat \ {0} /\ NumKeys \in Nat \ {0}

(***************************************************************************)
(* The operations of each program as the stages they go through: fetch and *)
(* upload are exchanges with the server, the others loops over an HSM call.*)
(***************************************************************************)
Operations ==
    [worker        |-> {<<"unwrap", "unwrap_update", "wrap", "unwrap">>},
     routine       |-> {<<"unwrap">>, <<"wrap">>},
     populate      |-> {<<"wrap_populate">>},
     naive_updates |-> {<<"fetch", "unwrap", "wrap", "upload">>},
     naive_routine |-> {<<"fetch", "unwrap">>, <<"wrap", "upload">>}]
Programs == DOMAIN Operations
Naive == {"naive_updates", "naive_routine"}

VARIABLES
    program,
    pc,            \* where main is
    todo,          \* the stages left of the operation under way
    initcount,     \* attempts at start-up after the first
    fails,         \* failed calls in the loop of populate
    library,       \* C_Initialize has been called
    session,       \* the process's handle: "none", "valid" or "stale"
    opened,        \* sessions the process has open at the HSM
    logged_in,
    link,          \* the HSM is reachable from the open session
    reset_failed,  \* a reset ended without a session that is logged in
    setup,         \* records that a naive program has set up
    rec,           \* the record it works on
    tries,         \* its fetches of that record
    fits,          \* the wrap it unwraps is one that was wrapped
    stored,        \* its records in the database
    current_root_key

hsm == <<library, session, opened, logged_in, link>>
naive == <<setup, rec, tries, fits, stored, current_root_key>>
vars == <<program, pc, todo, initcount, fails, hsm, reset_failed, naive>>

(***************************************************************************)
(* PKCS#11 (external): what an Init call and the calls after it can answer.*)
(* 7 is CKR_ARGUMENTS_BAD, 130 CKR_OBJECT_HANDLE_INVALID: without a login  *)
(* the key is not visible.                                                 *)
(***************************************************************************)
OK == 0
Lost == 7
NoSuchKey == 130
Other == 179

Answers ==
    IF ~library \/ session # "valid" THEN {Other}
    ELSE IF ~link THEN {Lost}
    ELSE IF ~logged_in THEN {NoSuchKey}
    ELSE IF fits THEN {OK, Other}
    ELSE {Other}
Working == library /\ session = "valid" /\ link /\ logged_in

\* The root key a naive upload names: the text of the handle in base64, once
\* by encrypt_and_upload and once by setall.
Handle == <<"8126470">>
B64(text) == <<"b64">> \o text
NoRoot == << >>
ServerAccepts == B64(B64(Handle)) = current_root_key

Init ==
    /\ program \in Programs
    /\ pc = "initialize"
    /\ todo = << >>
    /\ initcount = 0 /\ fails = 0
    /\ library = FALSE /\ session = "none" /\ opened = 0
    /\ logged_in = FALSE /\ link = TRUE
    /\ reset_failed = FALSE
    /\ setup = 0 /\ rec = 1 /\ tries = 0 /\ fits = TRUE /\ stored = {}
    /\ current_root_key \in {NoRoot, B64(Handle)}

Goto(from, to) == pc = from /\ pc' = to
-----------------------------------------------------------------------------
(***************************************************************************)
(* common/pkcs11.c.                                                        *)
(***************************************************************************)
pkcs11_initialize(succeeds) ==
    /\ library' = succeeds
    /\ UNCHANGED <<session, opened, logged_in, link>>

\* C_OpenSession and C_Login: a session whose login fails stays open.
pkcs11_open_session(handle, outcome) ==
    /\ outcome \in {"no_session", "no_login", "ok"}
    /\ opened = MaxSessions => outcome = "no_session"
    /\ session' = IF outcome = "no_session" THEN handle ELSE "valid"
    /\ opened' = IF outcome = "no_session" THEN opened ELSE opened + 1
    /\ logged_in' = (outcome = "ok")
    /\ UNCHANGED <<library, link>>

\* Faulty: the session is closed for the process only.
FinalizeHandleOnly ==
    /\ library' = FALSE /\ session' = "stale"
    /\ logged_in' = FALSE /\ link' = TRUE
    /\ UNCHANGED opened
pkcs11_finalize_session ==
    /\ library' = FALSE /\ session' = "stale" /\ opened' = 0
    /\ logged_in' = FALSE /\ link' = TRUE

\* The HSM (external) drops the session.
LoseLink ==
    /\ Working
    /\ link' = FALSE
    /\ UNCHANGED <<program, pc, todo, initcount, fails, library, session,
                   opened, logged_in, reset_failed, naive>>
-----------------------------------------------------------------------------
(***************************************************************************)
(* Start-up.  The loops give up when there were too many attempts before   *)
(* this one, also if this one succeeds; they share their counter.          *)
(***************************************************************************)
atWork == <<program, todo, fails, reset_failed, naive>>
Outcome == {"no_session", "no_login", "ok"}

Initialize ==
    /\ \E succeeds \in BOOLEAN :
          /\ pkcs11_initialize(succeeds)
          /\ Goto("initialize", IF succeeds THEN "open" ELSE "initialize_again")
    /\ UNCHANGED <<atWork, initcount>>
InitializeAgain ==
    /\ \E succeeds \in BOOLEAN :
          /\ pkcs11_initialize(succeeds)
          /\ Goto("initialize_again",
                  CASE initcount > 10 -> "ended"
                    [] initcount <= 10 /\ succeeds -> "open"
                    [] OTHER -> "initialize_again")
    /\ initcount' = initcount + 1
    /\ UNCHANGED atWork

\* Faulty: a session whose login failed is taken for one to work with.
OpenIgnoresLogin ==
    /\ \E outcome \in Outcome :
          /\ pkcs11_open_session(session, outcome)
          /\ Goto("open", IF outcome = "no_session" THEN "open_again" ELSE "working")
    /\ UNCHANGED <<atWork, initcount>>
Open ==
    /\ \E outcome \in Outcome :
          /\ pkcs11_open_session(session, outcome)
          /\ Goto("open", IF outcome = "ok" THEN "working" ELSE "open_again")
    /\ UNCHANGED <<atWork, initcount>>
OpenAgain ==
    /\ \E outcome \in Outcome :
          /\ pkcs11_open_session("none", outcome)
          /\ Goto("open_again",
                  CASE initcount > 20 -> "ended"
                    [] initcount <= 20 /\ outcome = "ok" -> "working"
                    [] OTHER -> "open_again")
    /\ initcount' = initcount + 1
    /\ UNCHANGED atWork
-----------------------------------------------------------------------------
(***************************************************************************)
(* main: one operation after the other.  A naive program sets up its       *)
(* records first, and ends after its time; populate wraps one key.         *)
(***************************************************************************)
Between == pc = "working" /\ todo = << >>

SetUp ==
    /\ Between
    /\ program \in Naive /\ setup < NumKeys
    /\ setup' = setup + 1
    /\ rec' = setup + 1
    /\ todo' = <<"wrap", "upload">>
    /\ UNCHANGED <<program, pc, initcount, fails, hsm, reset_failed,
                   tries, fits, stored, current_root_key>>
Begin ==
    /\ Between
    /\ program \in Naive => setup = NumKeys
    /\ todo' \in Operations[program]
    /\ rec' \in IF program \in Naive THEN 1..NumKeys ELSE {rec}
    /\ tries' = 0
    /\ fits' = TRUE
    /\ UNCHANGED <<program, pc, initcount, fails, hsm, reset_failed,
                   setup, stored, current_root_key>>
End ==
    /\ Between
    /\ program \in Naive /\ setup = NumKeys
    /\ Goto("working", "ended")
    /\ pkcs11_finalize_session
    /\ UNCHANGED <<program, todo, initcount, fails, reset_failed, naive>>

Stage(s) == pc = "working" /\ todo # << >> /\ Head(todo) = s
Continue == todo' = Tail(todo) /\ UNCHANGED pc
Stay == UNCHANGED <<pc, todo>>
\* exit(0) in hsm_aes_encrypt and hsm_aes_decrypt, "Experiment failed".
Exit == pc' = "ended" /\ UNCHANGED todo

calls == <<program, initcount, hsm, reset_failed, naive>>

\* encrypt_and_upload, updatable_encrypt_and_upload and the second half of
\* updatable_update_dek_and_ciphertext: repeated whatever the error.
Wrap ==
    /\ Stage("wrap")
    /\ \E rv \in Answers : \/ rv = OK /\ Continue
                           \/ rv = NoSuchKey /\ Exit
                           \/ rv \in {Lost, Other} /\ Stay
    /\ UNCHANGED <<calls, fails>>

\* download_and_decrypt and updatable_download_and_decrypt.
\* (Faulty: error 7 is repeated like the others.)
UnwrapNoReset ==
    /\ Stage("unwrap")
    /\ \E rv \in Answers : \/ rv = OK /\ Continue
                           \/ rv = NoSuchKey /\ Exit
                           \/ rv \in {Lost, Other} /\ Stay
    /\ UNCHANGED <<calls, fails>>
Unwrap ==
    /\ Stage("unwrap")
    /\ \E rv \in Answers : \/ rv = OK /\ Continue
                           \/ rv = NoSuchKey /\ Exit
                           \/ rv = Lost /\ pc' = "reset" /\ UNCHANGED todo
                           \/ rv = Other /\ Stay
    /\ UNCHANGED <<calls, fails>>

\* The first half of updatable_update_dek_and_ciphertext returns on an error;
\* the worker does not look at that, and downloads the record again.
UnwrapUpdate ==
    /\ Stage("unwrap_update")
    /\ \E rv \in Answers : \/ rv = OK /\ Continue
                           \/ rv = NoSuchKey /\ Exit
                           \/ rv = Lost /\ pc' = "reset" /\ UNCHANGED todo
                           \/ rv = Other /\ todo' = <<"unwrap">> /\ UNCHANGED pc
    /\ UNCHANGED <<calls, fails>>

\* Faulty: populate does not count its failures up to ten.
WrapPopulateForEver ==
    /\ Stage("wrap_populate")
    /\ \E rv \in Answers :
          /\ fails' = IF rv \in {OK, NoSuchKey} THEN fails ELSE fails + 1
          /\ IF rv = OK
               THEN pc' = "ended" /\ pkcs11_finalize_session
               ELSE /\ pc' = IF rv = NoSuchKey THEN "ended" ELSE pc
                    /\ UNCHANGED hsm
    /\ UNCHANGED <<program, initcount, todo, reset_failed, naive>>
\* populate_database_updatable: after ten failures it exits, with nothing
\* stored; else it stores the records (Populate) and ends.
WrapPopulate ==
    /\ Stage("wrap_populate")
    /\ \E rv \in Answers :
          /\ fails' = IF rv \in {OK, NoSuchKey} THEN fails ELSE fails + 1
          /\ IF rv = OK
               THEN pc' = "ended" /\ pkcs11_finalize_session
               ELSE /\ pc' = IF rv = NoSuchKey \/ fails' > 10 THEN "ended" ELSE pc
                    /\ UNCHANGED hsm
    /\ UNCHANGED <<program, initcount, todo, reset_failed, naive>>
-----------------------------------------------------------------------------
(***************************************************************************)
(* reset_connection.  Its callers ignore what it returns and repeat the    *)
(* HSM call.                                                               *)
(***************************************************************************)
duringReset == <<program, todo, initcount, fails, naive>>

ResetFinalize ==
    /\ Goto("reset", "reset_initialize")
    /\ pkcs11_finalize_session
    /\ UNCHANGED <<duringReset, reset_failed>>
ResetInitialize ==
    /\ \E succeeds \in BOOLEAN :
          /\ pkcs11_initialize(succeeds)
          /\ Goto("reset_initialize", IF succeeds THEN "reset_open" ELSE "working")
          /\ reset_failed' = (reset_failed \/ ~succeeds)
    /\ UNCHANGED duringReset
\* Faulty: the reset ends before the session is open again.
ResetNoOpen ==
    /\ Goto("reset_open", "working")
    /\ UNCHANGED <<duringReset, hsm, reset_failed>>
ResetOpen ==
    /\ Goto("reset_open", "working")
    /\ \E outcome \in Outcome :
          /\ pkcs11_open_session(session, outcome)
          /\ reset_failed' = (reset_failed \/ outcome # "ok")
    /\ UNCHANGED duringReset
-----------------------------------------------------------------------------
(***************************************************************************)
(* The exchanges of the naive programs.  encrypt_and_upload passes arrays  *)
(* of three to setall as if they were four long: it crashes, or sends a    *)
(* fourth pair of whatever is behind them.                                 *)
(***************************************************************************)
exchange == <<program, initcount, fails, hsm, reset_failed, setup, rec, current_root_key>>

UploadCrashes ==
    /\ Stage("upload")
    /\ Exit
    /\ UNCHANGED <<exchange, tries, fits, stored>>
\* The server refuses what does not name its root key; setall does not look
\* at the reply.
Upload ==
    /\ Stage("upload")
    /\ Continue
    /\ stored' = IF ServerAccepts THEN stored \cup {rec} ELSE stored
    /\ UNCHANGED <<exchange, tries, fits>>

\* download_and_decrypt fetches eleven times; update_dek_key calls it six
\* times, and main then uploads the record anew.  The routine program exits.
Fetches == [naive_updates |-> 66, naive_routine |-> 11]
\* The reply for keys that are not there has no values, and getall decodes
\* what is behind an empty array: it crashes, finds something, or nothing.
Found == IF rec \in stored THEN {"record"} ELSE {"crash", "garbage", "nothing"}
Fetch ==
    /\ Stage("fetch")
    /\ \E found \in Found :
          /\ tries' = IF found = "nothing" THEN tries + 1 ELSE tries
          /\ fits' = (fits /\ found # "garbage")
          /\ \/ found \in {"record", "garbage"} /\ Continue
             \/ found = "nothing" /\ tries' < Fetches[program] /\ Stay
             \/ /\ found = "nothing" /\ tries' = Fetches[program]
                /\ program = "naive_updates"
                /\ todo' = <<"wrap", "upload">> /\ UNCHANGED pc
             \/ /\ \/ found = "crash"
                   \/ /\ found = "nothing" /\ tries' = Fetches[program]
                      /\ program = "naive_routine"
                /\ Exit
    /\ UNCHANGED <<exchange, stored>>
-----------------------------------------------------------------------------
StartUp == Initialize \/ InitializeAgain \/ Open \/ OpenAgain
Main == SetUp \/ Begin \/ End
Call == Wrap \/ Unwrap \/ UnwrapUpdate \/ WrapPopulate
Reset == ResetFinalize \/ ResetInitialize \/ ResetOpen
Exchange == Upload \/ UploadCrashes \/ Fetch
Process == StartUp \/ Main \/ Call \/ Reset \/ Exchange

Next == Process \/ LoseLink
Spec == Init /\ [][Next]_vars /\ WF_vars(Process)
-----------------------------------------------------------------------------
(***************************************************************************)
(* Properties.                                                             *)
(***************************************************************************)
Points == {"initialize", "initialize_again", "open", "open_again", "working",
           "reset", "reset_initialize", "reset_open", "ended"}
Stages == {"unwrap", "unwrap_update", "wrap", "wrap_populate", "fetch", "upload"}

\* Every variable has its type.
TypeOK ==
    /\ program \in Programs /\ pc \in Points /\ todo \in Seq(Stages)
    /\ initcount \in 0..22 /\ fails \in 0..11
    /\ library \in BOOLEAN /\ session \in {"none", "valid", "stale"}
    /\ opened \in 0..MaxSessions
    /\ logged_in \in BOOLEAN /\ link \in BOOLEAN /\ reset_failed \in BOOLEAN
    /\ setup \in 0..NumKeys /\ rec \in 1..NumKeys /\ tries \in 0..66
    /\ fits \in BOOLEAN /\ stored \subseteq 1..NumKeys

\* Sessions do not pile up at the HSM, whose number of sessions is limited: a
\* process has one, and start-up leaves at most one more behind for every
\* attempt whose login failed; resets leave none.
SessionsAccountedFor == opened <= 1 + initcount

\* An unwrap that can never be answered with success or with error 7 -- it
\* would sleep and repeat for ever, never resetting again -- comes only of a
\* reset that failed to open the session (reset_connection's ignored result).
UnwrapIsRepairable ==
    (Stage("unwrap") \/ Stage("unwrap_update")) /\ fits
        => reset_failed \/ Answers \cap {OK, Lost} # {}

\* "Experiment failed" and exit(0) in hsm_aes_encrypt and hsm_aes_decrypt: in
\* mid-operation this too comes only of a reset, one whose login failed.
ExitsOnlyAfterFailedReset ==
    [][Call /\ program # "populate" /\ pc' = "ended" => reset_failed]_vars

\* A worker or client that meets a lost session in an unwrap gets a working
\* one again, if its reset does not fail.
LostSessionIsReopened ==
    ((Stage("unwrap") \/ Stage("unwrap_update")) /\ ~link)
        ~> (Working \/ reset_failed)

\* "Setup Database with num_of_db_keys number of keys and encrypted messages"
\* (ciphertext_updates_naive.c:230, routine_operations_naive.c:213).
SetupStoresMessages ==
    Between /\ program \in Naive /\ setup = NumKeys => stored = 1..NumKeys
=============================================================================
