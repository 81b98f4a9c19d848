--------------------------- MODULE KeyRotation_proofs --------------------------
(***************************************************************************)
(* Proofs about KeyRotation, for any number of clients, workers, records,  *)
(* rounds and uploads.                                                     *)
(***************************************************************************)
EXTENDS KeyRotation, TLAPS

FieldNames == {"wrap", "header", "data", "root_version", "ctxt_version"}

Functions ==
    /\ DOMAIN serving = Threads /\ DOMAIN phase = Threads
    /\ DOMAIN snap = Threads /\ DOMAIN step = Threads
    /\ DOMAIN got = Threads /\ DOMAIN todo = Workers

RecordsFit ==
    /\ DOMAIN store = Records
    /\ \A r \in Records :
          /\ DOMAIN store[r] = FieldNames
          /\ store[r].ctxt_version \in Nat
          /\ store[r].wrap.gen = store[r].header

\* Whatever waits in the server carries a wrap for the header it brings.
RequestFits(q, p) ==
    \/ q.cmd \in {"GETALL", "ROOTKEY"} /\ p \in {"received", "answered"}
    \/ /\ q.cmd = "SETALL" /\ p \in {"received", "vetted", "answered"}
       /\ q.wrap.gen = q.header
    \/ /\ q.cmd = "UP_UPDATE" /\ p \in {"received", "taken", "answered"}
       /\ q.wrap.gen = q.delta.new
RequestsFit == \A m \in Threads : phase[m] = "idle" \/ RequestFits(serving[m], phase[m])

UploadsFit ==
    \A c \in Clients : step[c] = "wrapped" => got[c].wrap.gen = got[c].header

Fitting == Functions /\ RecordsFit /\ RequestsFit /\ UploadsFit
-----------------------------------------------------------------------------
LEMMA Machines ==
    /\ Clients \subseteq Threads /\ Workers \subseteq Threads /\ K \in Threads
    /\ \A c \in Clients : c \notin Workers /\ c # K
    /\ K \notin Workers
BY MachineAssumption DEF K

LEMMA InitFitting == KRInit => Fitting
<1> SUFFICES ASSUME KRInit PROVE Fitting
  OBVIOUS
<1>1. Functions
  BY DEF KRInit, Init, Functions
<1>2. RecordsFit
  BY DEF KRInit, Init, RecordsFit, Populated, FieldNames
<1>3. RequestsFit
  BY DEF KRInit, Init, RequestsFit
<1>4. UploadsFit
  BY Machines DEF KRInit, UploadsFit
<1> QED
  BY <1>1, <1>2, <1>3, <1>4 DEF Fitting

\* A request that is sent, a reply that is taken, and a step without either.
LEMMA SendFits ==
    ASSUME Fitting, NEW m \in Threads, NEW from, NEW to, NEW q,
           Send(m, from, to, q), RequestFits(q, "received"),
           to # "wrapped", DOMAIN got' = Threads,
           \A c \in Threads : c # m => got'[c] = got[c],
           UNCHANGED todo
    PROVE  Fitting'
<1> USE DEF Send, GoTo, Receive, Fitting
<1>1. Functions'
  BY DEF Functions
<1>2. RecordsFit'
  BY DEF RecordsFit
<1>3. RequestsFit'
  BY DEF RequestsFit, Functions
<1>4. UploadsFit'
  BY Machines DEF UploadsFit, Functions
<1> QED
  BY <1>1, <1>2, <1>3, <1>4

LEMMA AwaitFits ==
    ASSUME Fitting, NEW m \in Threads, NEW from, NEW to,
           Await(m, from, to),
           to # "wrapped", DOMAIN got' = Threads,
           \A c \in Threads : c # m => got'[c] = got[c],
           UNCHANGED todo
    PROVE  Fitting'
<1> USE DEF Await, GoTo, Reply, Fitting
<1>1. Functions'
  BY DEF Functions
<1>2. RecordsFit'
  BY DEF RecordsFit
<1>3. RequestsFit'
  BY DEF RequestsFit, Functions
<1>4. UploadsFit'
  BY Machines DEF UploadsFit, Functions
<1> QED
  BY <1>1, <1>2, <1>3, <1>4

LEMMA LocalFits ==
    ASSUME Fitting, UNCHANGED vars, DOMAIN step' = Threads,
           DOMAIN got' = Threads, DOMAIN todo' = Workers,
           UploadsFit'
    PROVE  Fitting'
BY DEF Fitting, Functions, RecordsFit, RequestsFit, vars

\* A command of the server replaces wrap and header together, or neither.
LEMMA ServeFits == ASSUME Fitting, NEW m \in Threads, Serve(m) PROVE Fitting'
<1> USE DEF Fitting, Serve, machines
<1> DEFINE q == serving[m]
<1>1. Functions'
  BY DEF Functions, Download, Vet, Upload, Take, Update, Conflict, SwitchRoot, Answer
<1>2. UploadsFit'
  BY DEF UploadsFit
<1>3. RequestsFit'
  BY DEF RequestsFit, RequestFits, Functions, Download, Vet, Upload, Take, Update,
         Conflict, SwitchRoot, Answer
<1>4. RecordsFit'
  <2>1. CASE Upload(m)
    <3>1. q.wrap.gen = q.header
      BY <2>1 DEF Upload, RequestsFit, RequestFits
    <3>2. store' = [store EXCEPT ![q.rec] = Uploaded(q, @)]
      BY <2>1 DEF Upload
    <3> QED
      BY <3>1, <3>2 DEF RecordsFit, Uploaded, FieldNames
  <2>2. CASE Update(m)
    <3>1. q.wrap.gen = q.delta.new
      BY <2>2 DEF Update, RequestsFit, RequestFits
    <3>2. store' = [store EXCEPT ![q.rec] = Updated(q, @)]
      BY <2>2 DEF Update
    <3> QED
      BY <3>1, <3>2 DEF RecordsFit, Updated, FieldNames, ReEncryptedHeader
  <2>3. CASE Download(m) \/ Vet(m) \/ Take(m) \/ Conflict(m) \/ SwitchRoot(m)
    <3>1. UNCHANGED store
      BY <2>3 DEF Download, Vet, Take, Conflict, SwitchRoot
    <3> QED
      BY <3>1 DEF RecordsFit
  <2> QED
    BY <2>1, <2>2, <2>3
<1> QED
  BY <1>1, <1>2, <1>3, <1>4

LEMMA ClientFits == ASSUME Fitting, NEW c \in Clients, Client(c) PROVE Fitting'
<1>0. c \in Threads /\ Functions /\ UploadsFit
  BY Machines DEF Fitting
<1>1. CASE ClientBoot(c) \/ ClientLoop(c) \/ ClientDecrypt(c)
  <2> USE <1>1 DEF ClientBoot, ClientLoop, ClientDecrypt, GoTo
  <2>1. UploadsFit'
    BY <1>0, Machines DEF UploadsFit, Functions
  <2> QED
    BY <1>0, <2>1, LocalFits DEF Functions
<1>2. CASE ClientDownload(c)
  <2> DEFINE q == Getall(Uses[c], WholeRecord)
  <2>1. RequestFits(q, "received")
    BY DEF RequestFits, Getall
  <2> QED
    BY <1>0, <1>2, <2>1, SendFits DEF ClientDownload, Functions
<1>3. CASE ClientReceive(c)
  BY <1>0, <1>3, AwaitFits DEF ClientReceive, Keep, Functions
<1>4. ASSUME NEW m \in Messages, ClientEncrypt(c, m) PROVE Fitting'
  <2> USE <1>4 DEF ClientEncrypt, GoTo
  <2>1. UploadsFit'
    BY <1>0, Machines DEF UploadsFit, Functions
  <2> QED
    BY <1>0, <2>1, LocalFits DEF Functions
<1>5. CASE ClientUpload(c)
  <2> DEFINE q == [cmd |-> "SETALL", rec |-> Uses[c], wrap |-> got[c].wrap,
                   header |-> got[c].header, data |-> got[c].data,
                   root_version |-> got[c].root_version]
  <2>1. Send(c, "wrapped", "uploading", q)
    BY <1>5 DEF ClientUpload
  <2>2. got[c].wrap.gen = got[c].header
    BY <1>0, <2>1 DEF Send, GoTo, UploadsFit
  <2>3. RequestFits(q, "received")
    BY <2>2 DEF RequestFits
  <2> QED
    BY <1>0, <1>5, <2>1, <2>3, SendFits DEF ClientUpload, Functions
<1>6. CASE ClientUploaded(c)
  BY <1>0, <1>6, AwaitFits DEF ClientUploaded, Functions
<1> QED
  BY <1>1, <1>2, <1>3, <1>4, <1>5, <1>6 DEF Client

LEMMA WorkerFits == ASSUME Fitting, NEW w \in Workers, Worker(w) PROVE Fitting'
<1>0. w \in Threads /\ w \notin Clients /\ Functions /\ UploadsFit
  BY Machines DEF Fitting
<1>1. ASSUME NEW from, NEW to, to # "wrapped", WorkerDownload(w, from, to) PROVE Fitting'
  <2> DEFINE q == Getall(Head(todo[w]), WholeRecord)
  <2>1. RequestFits(q, "received")
    BY DEF RequestFits, Getall
  <2> QED
    BY <1>0, <1>1, <2>1, SendFits DEF WorkerDownload, Functions
<1>2. ASSUME NEW from, NEW to, to # "wrapped", WorkerReceive(w, from, to) PROVE Fitting'
  BY <1>0, <1>2, AwaitFits DEF WorkerReceive, Keep, Functions
<1>3. CASE DecryptBefore(w) \/ UpdateGivesUp(w) \/ CompareAfter(w) \/ WorkerDone(w)
  <2> USE <1>3 DEF DecryptBefore, UpdateGivesUp, CompareAfter, WorkerDone, GoTo
  <2>1. UploadsFit'
    BY <1>0, Machines DEF UploadsFit, Functions
  <2> QED
    BY <1>0, <2>1, LocalFits DEF Functions
<1>4. CASE UpdateDownload(w)
  <2> DEFINE q == Getall(Head(todo[w]), WrapAndHeader)
  <2>1. RequestFits(q, "received")
    BY DEF RequestFits, Getall
  <2> QED
    BY <1>0, <1>4, <2>1, SendFits DEF UpdateDownload, Functions
<1>5. CASE UpdateSend(w)
  <2> DEFINE q == [cmd |-> "UP_UPDATE", rec |-> Head(todo[w]),
                   wrap |-> [root |-> got[w].root_version, gen |-> fresh],
                   delta |-> ReKeyGen(got[w].header, fresh)]
  <2>1. Send(w, "have_header", "updating", q)
    BY <1>5 DEF UpdateSend
  <2>2. RequestFits(q, "received")
    BY DEF RequestFits, ReKeyGen
  <2> QED
    BY <1>0, <1>5, <2>1, <2>2, SendFits DEF UpdateSend, Functions
<1>6. CASE UpdateReply(w)
  BY <1>0, <1>6, AwaitFits DEF UpdateReply, Functions
<1> QED
  BY <1>1, <1>2, <1>3, <1>4, <1>5, <1>6 DEF Worker

LEMMA CoordinateFits == ASSUME Fitting, Coordinate PROVE Fitting'
<1>0. K \in Threads /\ Functions /\ UploadsFit
  BY Machines DEF Fitting
<1>1. CASE SendDbRoot
  <2>1. PICK root \in {RootOf[round], StrayRoot} :
          Send(K, "db_root", "awaiting_db", [cmd |-> "ROOTKEY", root |-> root])
    BY <1>1 DEF SendDbRoot
  <2> DEFINE q == [cmd |-> "ROOTKEY", root |-> root]
  <2>2. RequestFits(q, "received")
    BY DEF RequestFits
  <2> QED
    BY <1>0, <1>1, <2>1, <2>2, SendFits DEF SendDbRoot, others, working, Functions
<1>2. CASE DbRootDone
  BY <1>0, <1>2, AwaitFits DEF DbRootDone, others, working, Functions
<1>3. CASE TellRoot \/ TellStart \/ TellStop \/ TellEnd
  <2> USE <1>3 DEF TellRoot, TellStart, TellStop, TellEnd, others, working
  <2>1. \A c \in Clients : step'[c] = step[c]
    BY <1>0, Machines DEF Tell, GoTo, Functions
  <2>2. DOMAIN step' = Threads
    BY <1>0 DEF Tell, GoTo, Functions
  <2>3. UploadsFit'
    BY <1>0, <2>1 DEF UploadsFit
  <2> QED
    BY <1>0, <2>2, <2>3, LocalFits DEF Functions
<1>4. CASE StartWorkers \/ Join
  <2> USE <1>4 DEF StartWorkers, Join, others, working
  <2>1. \A c \in Clients : step'[c] = step[c]
    BY <1>0, Machines
  <2>2. UploadsFit'
    BY <1>0, <2>1 DEF UploadsFit
  <2>3. DOMAIN todo' = Workers
    BY <1>0, RoundAssumption DEF Functions
  <2> QED
    BY <1>0, <2>2, <2>3, LocalFits DEF Functions
<1> QED
  BY <1>1, <1>2, <1>3, <1>4 DEF Coordinate

LEMMA NextFitting == Fitting /\ [KRNext]_allvars => Fitting'
<1> SUFFICES ASSUME Fitting, [KRNext]_allvars PROVE Fitting'
  OBVIOUS
<1>1. CASE UNCHANGED allvars
  BY <1>1 DEF allvars, vars, machines, Fitting, Functions, RecordsFit,
              RequestsFit, UploadsFit
<1> QED
  BY <1>1, ClientFits, WorkerFits, CoordinateFits, ServeFits DEF KRNext

LEMMA AlwaysFitting == KRSpec => []Fitting
BY InitFitting, NextFitting, PTL DEF KRSpec

\* For any number of machines: in whatever order uploads, updates and rounds
\* race, the DEK in the wrap of a record opens its header (setall_values and
\* up_update of the server, updatable_encrypt_and_upload and
\* updatable_update_dek_and_ciphertext of the machines).
THEOREM WrapAlwaysFitsHeader == KRSpec => []WrapFitsHeader
<1>1. Fitting => WrapFitsHeader
  BY DEF Fitting, RecordsFit, WrapFitsHeader
<1> QED
  BY <1>1, AlwaysFitting, PTL
-----------------------------------------------------------------------------
(***************************************************************************)
(* That a generation is drawn once.  Whatever a machine offers to the      *)
(* server is no generation that a record has, or had when the workers were *)
(* started, and no other machine offers it.                                *)
(***************************************************************************)
\* A step of a machine leaves what belongs to the others alone.
OthersUnchanged(c) ==
    \A m \in Threads : m # c =>
        UNCHANGED <<step[m], got[m], snap[m], serving[m], phase[m]>>

LEMMA ClientAside ==
    ASSUME Functions, NEW c \in Clients, Client(c)
    PROVE  UNCHANGED <<store, todo, round, before, at_start, refused>> /\ OthersUnchanged(c)
<1>0. c \in Threads
  BY Machines
<1>1. CASE ClientBoot(c) \/ ClientLoop(c) \/ ClientDecrypt(c)
             \/ \E m \in Messages : ClientEncrypt(c, m)
  BY <1>0, <1>1 DEF Functions, ClientBoot, ClientLoop, ClientDecrypt, ClientEncrypt,
                    GoTo, vars, rounds, history, OthersUnchanged
<1>2. CASE ClientDownload(c) \/ ClientUpload(c)
  BY <1>0, <1>2 DEF Functions, ClientDownload, ClientUpload, Send, Receive, GoTo, rounds, history,
                    OthersUnchanged
<1>3. CASE ClientReceive(c) \/ ClientUploaded(c)
  BY <1>0, <1>3 DEF Functions, ClientReceive, ClientUploaded, Keep, Await, Reply, GoTo,
                    rounds, history, OthersUnchanged
<1> QED
  BY <1>1, <1>2, <1>3 DEF Client

LEMMA WorkerAside ==
    ASSUME Functions, NEW w \in Workers, Worker(w)
    PROVE  /\ UNCHANGED <<store, round, uploads, at_start>> /\ OthersUnchanged(w)
           /\ refused \subseteq refused'
           /\ \A v \in Workers : v # w => todo'[v] = todo[v]
           /\ before' = before \/ \E x : before' = [before EXCEPT ![w] = x]
<1>0. w \in Threads
  BY Machines
<1> USE DEF Functions, OthersUnchanged
<1>1. CASE DecryptBefore(w) \/ UpdateGivesUp(w) \/ CompareAfter(w) \/ WorkerDone(w)
  BY <1>0, <1>1 DEF DecryptBefore, UpdateGivesUp, CompareAfter, WorkerDone, GoTo, vars, rounds,
                    history
<1>2. ASSUME NEW from, NEW to, WorkerDownload(w, from, to)
      PROVE  /\ UNCHANGED <<store, rounds, uploads, todo, before>> /\ OthersUnchanged(w)
  BY <1>0, <1>2 DEF WorkerDownload, Send, Receive, GoTo, rounds, history
<1>3. ASSUME NEW from, NEW to, WorkerReceive(w, from, to)
      PROVE  /\ UNCHANGED <<store, rounds, uploads, todo, before>> /\ OthersUnchanged(w)
  BY <1>0, <1>3 DEF WorkerReceive, Keep, Await, Reply, GoTo, rounds, history
<1>4. CASE UpdateDownload(w) \/ UpdateSend(w)
  BY <1>0, <1>4 DEF UpdateDownload, UpdateSend, Send, Receive, GoTo, rounds, history
<1>5. CASE UpdateReply(w)
  BY <1>0, <1>5 DEF UpdateReply, Await, Reply, GoTo, rounds, history
<1> QED
  BY <1>1, <1>2, <1>3, <1>4, <1>5 DEF Worker, rounds, history

\* The generation that the upload or the update of machine m would install.
Offers(m, g) ==
    \/ m \in Clients /\ step[m] = "wrapped" /\ g = got[m].header
    \/ phase[m] \in {"received", "vetted"} /\ serving[m].cmd = "SETALL" /\ g = serving[m].header
    \/ phase[m] \in {"received", "taken"} /\ serving[m].cmd = "UP_UPDATE"
       /\ g = serving[m].delta.new

Silent == \A c \in Clients : step[c] \notin {"downloading", "uploading"} => phase[c] = "idle"

Drawn ==
    /\ fresh \in Nat
    /\ \A r \in Records :
          /\ store[r].header \in Nat /\ store[r].header < fresh
          /\ at_start[r] \in Nat /\ at_start[r] < fresh
    /\ \A m \in Threads : \A g : Offers(m, g) =>
          /\ g \in Nat /\ g < fresh
          /\ \A r \in Records : g # store[r].header /\ g # at_start[r]
          /\ \A n \in Threads : Offers(n, g) => n = m
    /\ Silent

LEMMA InitDrawn == KRInit => Drawn
<1> SUFFICES ASSUME KRInit PROVE Drawn
  OBVIOUS
<1>1. \A m \in Threads : \A g : ~Offers(m, g)
  BY Machines DEF KRInit, Init, Offers
<1>2. Silent
  BY Machines DEF KRInit, Init, Silent
<1>3. fresh = 2 /\ \A r \in Records : store[r].header = 1 /\ at_start[r] = 1
  BY DEF KRInit
<1> QED
  BY <1>1, <1>2, <1>3 DEF Drawn

\* A step that changes no record: machine x offers what is drawn now, if anything.
LEMMA NoRecordChanged ==
    ASSUME Drawn, NEW x \in Threads, UNCHANGED <<store, at_start>>, Silent',
           fresh' = fresh \/ fresh' = fresh + 1,
           \A m \in Threads : \A g :
               Offers(m, g)' => Offers(m, g) \/ (m = x /\ g = fresh /\ fresh' = fresh + 1)
    PROVE  Drawn'
<1>1. fresh' \in Nat /\ fresh < fresh + 1 /\ fresh' >= fresh
  BY DEF Drawn
<1>2. ASSUME NEW r \in Records
      PROVE  /\ store'[r].header \in Nat /\ store'[r].header < fresh'
             /\ at_start'[r] \in Nat /\ at_start'[r] < fresh'
  BY <1>1 DEF Drawn
<1>3. ASSUME NEW m \in Threads, NEW g, Offers(m, g)'
      PROVE  /\ g \in Nat /\ g < fresh'
             /\ \A r \in Records : g # store'[r].header /\ g # at_start'[r]
             /\ \A n \in Threads : Offers(n, g)' => n = m
  <2>1. CASE Offers(m, g)
    <3>1. g \in Nat /\ g < fresh /\ g # fresh
      BY <2>1 DEF Drawn
    <3> QED
      BY <1>1, <2>1, <3>1 DEF Drawn
  <2>2. CASE m = x /\ g = fresh /\ fresh' = fresh + 1
    <3>1. \A n \in Threads : ~Offers(n, g)
      BY <2>2 DEF Drawn
    <3> QED
      BY <1>1, <2>2, <3>1 DEF Drawn
  <2> QED
    BY <1>3, <2>1, <2>2
<1> QED
  BY <1>1, <1>2, <1>3 DEF Drawn

LEMMA ClientDraws == ASSUME Drawn, Functions, NEW c \in Clients, Client(c) PROVE Drawn'
<1>0. c \in Threads
  BY Machines
<1>1. UNCHANGED <<store, at_start>> /\ OthersUnchanged(c)
  BY ClientAside
<1>2. Silent'
  <2>1. step'[c] \notin {"downloading", "uploading"} => phase'[c] = "idle"
    BY <1>0 DEF Drawn, Silent, Functions, Client, ClientBoot, ClientLoop, ClientDownload,
       ClientReceive, ClientDecrypt, ClientEncrypt, ClientUpload, ClientUploaded, Send, Await,
       Receive, Reply, GoTo, vars
  <2> QED
    BY <1>1, <2>1, Machines DEF Drawn, Silent, OthersUnchanged
<1>3. fresh' = fresh \/ fresh' = fresh + 1
  BY DEF Client, ClientBoot, ClientLoop, ClientDownload, ClientReceive, ClientDecrypt,
         ClientEncrypt, ClientUpload, ClientUploaded
<1>4. ASSUME NEW g, Offers(c, g)'
      PROVE  Offers(c, g) \/ (g = fresh /\ fresh' = fresh + 1)
  <2> USE DEF GoTo, Functions
  <2>1. CASE ClientBoot(c) \/ ClientLoop(c) \/ ClientDecrypt(c)
    BY <1>0, <1>4, <2>1 DEF ClientBoot, ClientLoop, ClientDecrypt, vars, Offers
  <2>2. CASE ClientDownload(c)
    BY <1>0, <1>4, <2>2 DEF ClientDownload, Send, Receive, Getall, Offers
  <2>3. CASE ClientReceive(c) \/ ClientUploaded(c)
    BY <1>0, <1>4, <2>3 DEF ClientReceive, ClientUploaded, Await, Reply, Offers
  <2>4. ASSUME NEW m \in Messages, ClientEncrypt(c, m) PROVE g = fresh /\ fresh' = fresh + 1
    <3>1. phase'[c] = "idle" /\ got'[c].header = fresh
      BY <1>0, <2>4 DEF ClientEncrypt, vars, Drawn, Silent
    <3> QED
      BY <1>4, <2>4, <3>1 DEF ClientEncrypt, Offers
  <2>5. CASE ClientUpload(c)
    BY <1>0, <1>4, <2>5 DEF ClientUpload, Send, Receive, Offers
  <2> QED
    BY <2>1, <2>2, <2>3, <2>4, <2>5 DEF Client
<1>5. \A m \in Threads : m # c => \A g : Offers(m, g)' => Offers(m, g)
  BY <1>1 DEF OthersUnchanged, Offers
<1> QED
  BY <1>0, <1>1, <1>2, <1>3, <1>4, <1>5, NoRecordChanged

LEMMA WorkerDraws == ASSUME Drawn, Functions, NEW w \in Workers, Worker(w) PROVE Drawn'
<1>0. w \in Threads /\ w \notin Clients
  BY Machines
<1>1. UNCHANGED <<store, at_start>> /\ OthersUnchanged(w)
  BY WorkerAside
<1>2. Silent'
  BY <1>0, <1>1, Machines DEF Drawn, Silent, OthersUnchanged
<1>3. fresh' = fresh \/ fresh' = fresh + 1
  BY DEF Worker, WorkerDownload, WorkerReceive, DecryptBefore, UpdateDownload, UpdateGivesUp,
         UpdateSend, UpdateReply, CompareAfter, WorkerDone
<1>4. ASSUME NEW g, Offers(w, g)'
      PROVE  Offers(w, g) \/ (g = fresh /\ fresh' = fresh + 1)
  <2> USE DEF GoTo, Functions
  <2>1. CASE DecryptBefore(w) \/ UpdateGivesUp(w) \/ CompareAfter(w) \/ WorkerDone(w)
    BY <1>0, <1>4, <2>1 DEF DecryptBefore, UpdateGivesUp, CompareAfter, WorkerDone, vars, Offers
  <2>2. ASSUME NEW from, NEW to, WorkerDownload(w, from, to) PROVE Offers(w, g)
    BY <1>0, <1>4, <2>2 DEF WorkerDownload, Send, Receive, Getall, Offers
  <2>3. ASSUME NEW from, NEW to, WorkerReceive(w, from, to) PROVE Offers(w, g)
    BY <1>0, <1>4, <2>3 DEF WorkerReceive, Await, Reply, Offers
  <2>4. CASE UpdateDownload(w)
    BY <1>0, <1>4, <2>4 DEF UpdateDownload, Send, Receive, Getall, Offers
  <2>5. CASE UpdateSend(w)
    BY <1>0, <1>4, <2>5 DEF UpdateSend, Send, Receive, ReKeyGen, Offers
  <2>6. CASE UpdateReply(w)
    BY <1>0, <1>4, <2>6 DEF UpdateReply, Await, Reply, Offers
  <2> QED
    BY <2>1, <2>2, <2>3, <2>4, <2>5, <2>6 DEF Worker
<1>5. \A m \in Threads : m # w => \A g : Offers(m, g)' => Offers(m, g)
  BY <1>1 DEF OthersUnchanged, Offers
<1> QED
  BY <1>0, <1>1, <1>2, <1>3, <1>4, <1>5, NoRecordChanged

\* The workers are started upon the generations that the records have then.
LEMMA CoordinateDraws == ASSUME Drawn, Functions, Coordinate PROVE Drawn'
<1>0. K \in Threads /\ K \notin Clients /\ Clients \subseteq Threads
  BY Machines
<1>1. UNCHANGED <<store, got, fresh>>
  BY DEF Coordinate, SendDbRoot, DbRootDone, TellRoot, TellStart, StartWorkers, Join, TellStop,
         TellEnd, others, working, vars, Send, Await, Receive, Reply
<1>2. \A c \in Clients : step'[c] = step[c] /\ phase'[c] = phase[c]
  BY <1>0, Machines DEF Functions, Coordinate, SendDbRoot, DbRootDone, TellRoot, TellStart,
     StartWorkers, Join, TellStop, TellEnd, Tell, Send, Await, Receive, Reply, GoTo, vars
<1>3. Silent'
  BY <1>2 DEF Drawn, Silent
<1>4. \A m \in Threads : \A g : Offers(m, g)' => Offers(m, g)
  <2>1. \A m \in Threads :
           \/ UNCHANGED <<serving[m], phase[m]>>
           \/ phase'[m] = "idle"
           \/ phase'[m] = "received" /\ serving'[m].cmd = "ROOTKEY"
    BY <1>0 DEF Functions, Coordinate, SendDbRoot, DbRootDone, TellRoot, TellStart,
       StartWorkers, Join, TellStop, TellEnd, Send, Await, Receive, Reply, vars
  <2> QED
    BY <1>0, <1>1, <1>2, <2>1 DEF Offers
<1>5. CASE UNCHANGED at_start
  BY <1>0, <1>1, <1>3, <1>4, <1>5, NoRecordChanged DEF Drawn
<1>6. CASE at_start' = [r \in Records |-> store[r].header]
  BY <1>1, <1>3, <1>4, <1>6 DEF Drawn
<1> QED
  BY <1>5, <1>6 DEF Coordinate, SendDbRoot, DbRootDone, TellRoot, TellStart, StartWorkers, Join,
     TellStop, TellEnd, others, working, rounds, history

\* A record that is written gets the generation that was offered for it.
LEMMA ServeOffers ==
    ASSUME Drawn, Fitting, NEW m \in Threads, Serve(m)
    PROVE  \A r \in Records :
              store'[r] = store[r] \/ (Offers(m, store'[r].header) /\ phase'[m] = "answered")
<1> DEFINE q == serving[m]
<1> USE DEF Fitting, RecordsFit, Functions
<1>1. CASE Upload(m)
  <2>1. /\ store' = [store EXCEPT ![q.rec] = Uploaded(q, @)] /\ phase'[m] = "answered"
        /\ phase[m] = "vetted" /\ q.cmd = "SETALL"
    BY <1>1 DEF Upload, Answer, RequestsFit, RequestFits
  <2> QED
    BY <2>1 DEF Uploaded, Offers
<1>2. CASE Update(m)
  <2>1. /\ store' = [store EXCEPT ![q.rec] = Updated(q, @)] /\ phase'[m] = "answered"
        /\ phase[m] = "taken" /\ q.cmd = "UP_UPDATE"
    BY <1>2 DEF Update, Answer, RequestsFit, RequestFits
  <2> QED
    BY <2>1 DEF Updated, ReEncryptedHeader, FieldNames, Offers
<1>3. CASE Download(m) \/ Vet(m) \/ Take(m) \/ Conflict(m) \/ SwitchRoot(m)
  BY <1>3 DEF Download, Vet, Take, Conflict, SwitchRoot
<1> QED
  BY <1>1, <1>2, <1>3 DEF Serve

LEMMA ServeDraws == ASSUME Drawn, Fitting, NEW m \in Threads, Serve(m) PROVE Drawn'
<1> USE DEF Fitting
<1>1. UNCHANGED <<step, got, fresh, at_start, serving>>
  BY DEF Serve, machines, rounds, history, Download, Vet, Upload, Take, Update, Conflict,
         SwitchRoot
<1>2. phase[m] # "idle" /\ \A n \in Threads : n # m => phase'[n] = phase[n]
  BY DEF Functions, Serve, Download, Vet, Upload, Take, Update, Conflict, SwitchRoot, Answer
<1>3. Silent'
  BY <1>1, <1>2, Machines DEF Drawn, Silent
<1>4. \A n \in Threads : \A g : Offers(n, g)' => Offers(n, g)
  <2>1. \/ phase'[m] = "answered"
        \/ phase'[m] = "vetted" /\ phase[m] = "received"
        \/ phase'[m] = "taken" /\ phase[m] = "received"
    BY DEF Functions, Serve, Download, Vet, Upload, Take, Update, Conflict, SwitchRoot, Answer
  <2> QED
    BY <1>1, <1>2, <2>1 DEF Offers
<1>5. CASE UNCHANGED store
  BY <1>1, <1>3, <1>4, <1>5, NoRecordChanged DEF Drawn
<1>6. CASE store' # store
  <2>1. \A r \in Records : store'[r] = store[r] \/ Offers(m, store'[r].header)
    BY ServeOffers
  <2>2. phase'[m] = "answered"
    BY <1>6 DEF Functions, Serve, Download, Vet, Upload, Take, Update, Conflict, SwitchRoot,
                Answer
  <2>3. \A g : ~Offers(m, g)'
    <3>1. m \in Clients => step'[m] # "wrapped"
      BY <1>1, <1>2 DEF Drawn, Silent
    <3> QED
      BY <2>2, <3>1 DEF Offers
  <2>4. \A r \in Records :
           /\ store'[r].header \in Nat /\ store'[r].header < fresh'
           /\ at_start'[r] \in Nat /\ at_start'[r] < fresh'
    BY <1>1, <2>1 DEF Drawn
  <2>5. ASSUME NEW n \in Threads, NEW g, Offers(n, g)'
        PROVE  /\ g \in Nat /\ g < fresh'
               /\ \A r \in Records : g # store'[r].header /\ g # at_start'[r]
               /\ \A k \in Threads : Offers(k, g)' => k = n
    <3>1. n # m /\ Offers(n, g)
      BY <1>4, <2>3, <2>5
    <3>2. \A r \in Records : g # store'[r].header
      BY <2>1, <3>1 DEF Drawn
    <3> QED
      BY <1>1, <1>4, <3>1, <3>2 DEF Drawn
  <2> QED
    BY <1>1, <1>3, <2>4, <2>5 DEF Drawn
<1> QED
  BY <1>5, <1>6
-----------------------------------------------------------------------------
(***************************************************************************)
(* That a round replaces every DEK.  Whoever writes a record gives it a    *)
(* generation that was drawn after the workers were started, or that no    *)
(* record had then; so what a worker downloaded or the server took is      *)
(* either still there, or somebody else has given the record a new DEK.    *)
(***************************************************************************)
AssignedRecords ==
    {r \in Records : \E w \in Workers : \E n \in DOMAIN Assigned[w] : r = Assigned[w][n]}

Replaced(r) == store[r].header # at_start[r] \/ r \in refused
\* The record worker w is at has a new DEK already, or its wrap was refused.
Moved(w) == Replaced(Head(todo[w]))
\* What was read is what wrap and root_version of the record are now.
SameKey(w, v) ==
    /\ v.wrap = store[Head(todo[w])].wrap
    /\ v.root_version = store[Head(todo[w])].root_version
Opening(w) ==
    store[Head(todo[w])].wrap.root = store[Head(todo[w])].root_version

Downloading(w) ==
    /\ serving[w].cmd = "GETALL"
    /\ serving[w].rec = Head(todo[w])
    /\ {"wrap", "root_version"} \subseteq Asked(serving[w])
\* What UP_UPDATE took is what the record is now.
TakenNow(w) == Part(store[Head(todo[w])], Basis) = snap[w]

Progress(w) ==
    /\ step[w] \notin {"idle", "working", "done"} => todo[w] # << >>
    /\ step[w] = "done" => todo[w] = << >>
    /\ step[w] = "awaiting_before" =>
          /\ Downloading(w)
          /\ phase[w] = "answered" => Moved(w) \/ SameKey(w, snap[w])
    /\ step[w] = "unwrapping_before" => Moved(w) \/ SameKey(w, got[w])
    /\ step[w] = "reading_header" => Moved(w) \/ Opening(w)
    /\ step[w] = "awaiting_header" =>
          /\ Downloading(w)
          /\ Moved(w) \/ Opening(w)
          /\ phase[w] = "answered" => Moved(w) \/ SameKey(w, snap[w])
    /\ step[w] = "have_header" => Moved(w) \/ (Opening(w) /\ SameKey(w, got[w]))
    /\ step[w] = "updating" =>
          /\ serving[w].cmd = "UP_UPDATE" /\ serving[w].rec = Head(todo[w])
          /\ phase[w] = "taken" => Moved(w) \/ TakenNow(w)
          /\ phase[w] = "answered" => Moved(w)
    /\ step[w] \in {"updated", "awaiting_after", "unwrapping_after"} => Moved(w)

Listed ==
    \A w \in Workers :
        /\ todo[w] \in Seq(Records)
        /\ \A n \in DOMAIN todo[w] : todo[w][n] \in AssignedRecords

Finished == step[K] = "stop_clients" => \A r \in AssignedRecords : Replaced(r)

\* What is assigned to a worker is done or to be done.
Pending ==
    step[K] = "join" =>
        \A w \in Workers : \A n \in DOMAIN Assigned[w] :
            \/ Replaced(Assigned[w][n])
            \/ \E k \in DOMAIN todo[w] : todo[w][k] = Assigned[w][n]
Resting == step[K] # "join" => \A w \in Workers : step[w] = "idle"

Rotating ==
    /\ Fitting /\ Drawn
    /\ Listed /\ Finished /\ Pending /\ Resting
    /\ \A w \in Workers : Progress(w)

\* A step that writes records only with new generations, in the same round.
StoreRenews ==
    /\ \A r \in Records : store'[r] = store[r] \/ store'[r].header # at_start[r]
    /\ UNCHANGED at_start /\ refused \subseteq refused'

HeadUnchanged(w) ==
    UNCHANGED <<todo[w], step[w], got[w], snap[w], serving[w], phase[w]>>
-----------------------------------------------------------------------------
LEMMA HeadAssigned ==
    ASSUME Listed, NEW w \in Workers, todo[w] # << >>
    PROVE  Head(todo[w]) \in AssignedRecords /\ Head(todo[w]) \in Records
<1>1. todo[w] \in Seq(Records) /\ 1 \in DOMAIN todo[w] /\ Head(todo[w]) = todo[w][1]
  BY DEF Listed
<1> QED
  BY <1>1 DEF Listed, AssignedRecords

LEMMA AssignedAreRecords ==
    \A w \in Workers : \A n \in DOMAIN Assigned[w] :
        Assigned[w][n] \in AssignedRecords /\ Assigned[w][n] \in Records
<1> SUFFICES ASSUME NEW w \in Workers, NEW n \in DOMAIN Assigned[w]
             PROVE  Assigned[w][n] \in AssignedRecords /\ Assigned[w][n] \in Records
  OBVIOUS
<1>1. Assigned[w] \in Seq(Records)
  BY RoundAssumption
<1>2. Assigned[w][n] \in Records
  BY <1>1
<1> QED
  BY <1>2 DEF AssignedRecords

\* A record that has a new DEK keeps having one.
LEMMA StaysReplaced ==
    ASSUME StoreRenews, NEW r \in Records
    PROVE  /\ Replaced(r) => Replaced(r)'
           /\ store'[r] = store[r] \/ Replaced(r)'
BY DEF StoreRenews, Replaced

\* Whatever the server does for others, a worker keeps its progress.
LEMMA KeepProgress ==
    ASSUME Listed, StoreRenews, NEW w \in Workers, Progress(w), HeadUnchanged(w)
    PROVE  Progress(w)'
<1> USE DEF HeadUnchanged
<1>1. CASE step[w] \in {"idle", "working", "done"}
  BY <1>1 DEF Progress
<1>2. CASE step[w] \notin {"idle", "working", "done"}
  <2> DEFINE r == Head(todo[w])
  <2>1. todo[w] # << >> /\ r \in Records
    BY <1>2, HeadAssigned DEF Progress
  <2>2. Moved(w) => Moved(w)'
    BY <2>1, StaysReplaced DEF Moved
  <2>3. Downloading(w)' = Downloading(w)
    BY DEF Downloading
  <2>4. CASE store'[r] = store[r]
    <3>1. /\ Opening(w)' = Opening(w)
          /\ TakenNow(w)' = TakenNow(w)
          /\ SameKey(w, got[w])' = SameKey(w, got[w])
          /\ SameKey(w, snap[w])' = SameKey(w, snap[w])
      BY <2>4 DEF Opening, TakenNow, SameKey
    <3> QED
      BY <2>2, <2>3, <3>1 DEF Progress
  <2>5. CASE Moved(w)'
    BY <2>1, <2>3, <2>5 DEF Progress
  <2> QED
    BY <2>1, <2>4, <2>5, StaysReplaced DEF Moved
<1> QED
  BY <1>1, <1>2

\* The parts that are not about one worker only.
LEMMA KeepCounts ==
    ASSUME Listed, Finished, Pending, StoreRenews,
           UNCHANGED todo, step'[K] = step[K]
    PROVE  Listed' /\ Finished' /\ Pending'
<1>1. Listed'
  BY DEF Listed
<1>2. \A r \in AssignedRecords : r \in Records
  BY DEF AssignedRecords
<1>3. Finished'
  BY <1>2, StaysReplaced DEF Finished
<1>4. Pending'
  BY <1>2, AssignedAreRecords, StaysReplaced DEF Pending
<1> QED
  BY <1>1, <1>3, <1>4

LEMMA InitRotating == KRInit => Rotating
<1> SUFFICES ASSUME KRInit PROVE Rotating
  OBVIOUS
<1>1. \A w \in Workers : step[w] = "idle"
  BY Machines DEF KRInit, K
<1>2. step[K] = "db_root"
  BY Machines DEF KRInit, K
<1>3. \A w \in Workers : todo[w] = << >>
  BY DEF KRInit
<1>4. Listed
  <2>1. << >> \in Seq(Records) /\ DOMAIN << >> = {}
    OBVIOUS
  <2> QED
    BY <1>3, <2>1 DEF Listed
<1>6. Finished
  BY <1>2 DEF Finished
<1>7. Pending /\ Resting
  BY <1>1, <1>2 DEF Pending, Resting
<1>8. \A w \in Workers : Progress(w)
  BY <1>1 DEF Progress
<1> QED
  BY <1>4, <1>6, <1>7, <1>8, InitFitting, InitDrawn DEF Rotating
-----------------------------------------------------------------------------
(***************************************************************************)
(* The server.                                                             *)
(***************************************************************************)
LEMMA ServeRenews ==
    ASSUME Fitting, Drawn, NEW m \in Threads, Serve(m)
    PROVE  StoreRenews
<1>1. UNCHANGED <<at_start, refused>>
  BY DEF Serve, rounds, history
<1>2. \A r \in Records : store'[r] = store[r] \/ store'[r].header # at_start[r]
  BY ServeOffers DEF Drawn
<1> QED
  BY <1>1, <1>2 DEF StoreRenews

\* The server works on the request of worker w itself.
LEMMA ServeProgress ==
    ASSUME Rotating, NEW w \in Workers, Serve(w)
    PROVE  Progress(w)'
<1> DEFINE q == serving[w]
           r == Head(todo[w])
<1> USE DEF Rotating
<1>0. /\ w \in Threads /\ Functions /\ RecordsFit
      /\ UNCHANGED <<step, got, todo, serving>>
  BY Machines DEF Fitting, Serve, machines, Download, Vet, Upload, Take, Update,
                  Conflict, SwitchRoot
<1>1. CASE step[w] \in {"idle", "working", "done"}
  BY <1>0, <1>1 DEF Progress
<1>2. CASE step[w] \notin {"idle", "working", "done"}
  <2>1. todo[w] # << >> /\ r \in AssignedRecords /\ r \in Records
    BY <1>2, HeadAssigned DEF Progress
  <2>2. StoreRenews
    BY <1>0, ServeRenews
  <2>3. store'[r] = store[r] \/ Moved(w)'
    BY <1>0, <2>1, <2>2, StaysReplaced DEF Moved
  <2>4. Moved(w) => Moved(w)'
    BY <1>0, <2>1, <2>2, StaysReplaced DEF Moved
  <2>5. Opening(w) => Moved(w)' \/ Opening(w)'
    BY <1>0, <2>3 DEF Opening
  <2>6. SameKey(w, got[w]) => Moved(w)' \/ SameKey(w, got[w])'
    BY <1>0, <2>3 DEF SameKey
  <2>7. Downloading(w)' = Downloading(w)
    BY <1>0 DEF Downloading
  <2>8. Opening(w) /\ SameKey(w, got[w]) =>
           Moved(w)' \/ (Opening(w)' /\ SameKey(w, got[w])')
    BY <1>0, <2>3 DEF Opening, SameKey
  <2>9. Downloading(w) =>
           (phase'[w] = "answered" => SameKey(w, snap[w])')
    <3> SUFFICES ASSUME Downloading(w), phase'[w] = "answered"
                 PROVE  SameKey(w, snap[w])'
      OBVIOUS
    <3>1. q.cmd = "GETALL"
      BY DEF Downloading
    <3>2. phase[w] \notin {"vetted", "taken"}
      BY <1>0, <3>1 DEF Fitting, RequestsFit, RequestFits
    <3>3. Download(w)
      BY <3>1, <3>2 DEF Serve, Vet, Upload, Take, Update, Conflict, SwitchRoot
    <3>4. snap'[w] = Part(store[r], Asked(q)) /\ store' = store
      BY <1>0, <3>3 DEF Download, Functions, Downloading
    <3>5. snap'[w].wrap = store[r].wrap /\ snap'[w].root_version = store[r].root_version
      BY <3>4 DEF Part, Downloading
    <3> QED
      BY <1>0, <3>4, <3>5 DEF SameKey
  <2>10. step[w] = "updating" =>
           /\ phase'[w] = "taken" => Moved(w)' \/ TakenNow(w)'
           /\ phase'[w] = "answered" => Moved(w)'
    <3> SUFFICES ASSUME step[w] = "updating"
                 PROVE  /\ phase'[w] = "taken" => Moved(w)' \/ TakenNow(w)'
                        /\ phase'[w] = "answered" => Moved(w)'
      OBVIOUS
    <3>1. q.cmd = "UP_UPDATE" /\ q.rec = r
      BY DEF Progress
    <3>2. phase[w] # "vetted"
      BY <1>0, <3>1 DEF Fitting, RequestsFit, RequestFits
    <3>3. Take(w) \/ Update(w) \/ Conflict(w)
      BY <3>1, <3>2 DEF Serve, Download, Vet, Upload, SwitchRoot
    <3>4. CASE Take(w)
      <4>1. phase'[w] = "taken" /\ store' = store /\ snap'[w] = Part(store[r], Basis)
        BY <1>0, <3>1, <3>4 DEF Take, Functions
      <4>2. TakenNow(w)'
        BY <1>0, <4>1 DEF TakenNow
      <4> QED
        BY <4>1, <4>2
    <3>5. CASE Update(w)
      <4>1. phase'[w] = "answered"
        BY <1>0, <3>5 DEF Update, Answer, Functions
      <4>2. store' = [store EXCEPT ![r] = Updated(q, @)] /\ phase[w] = "taken"
        BY <3>1, <3>5 DEF Update
      <4>3. store'[r].header = q.delta.new
        BY <1>0, <2>1, <4>2 DEF RecordsFit, Updated, FieldNames, ReEncryptedHeader
      <4>4. store'[r].header # at_start[r]
        BY <1>0, <2>1, <3>1, <4>2, <4>3 DEF Drawn, Offers
      <4> QED
        BY <1>0, <2>2, <4>1, <4>4 DEF Moved, Replaced, StoreRenews
    <3>6. CASE Conflict(w)
      <4>1. /\ phase'[w] = "answered" /\ phase[w] = "taken"
            /\ Part(store[r], Basis) # snap[w]
        BY <1>0, <3>1, <3>6 DEF Conflict, Answer, Functions
      <4> QED
        BY <2>4, <4>1 DEF Progress, TakenNow
    <3> QED
      BY <3>3, <3>4, <3>5, <3>6
  <2> QED
    BY <1>0, <1>2, <2>1, <2>4, <2>5, <2>6, <2>7, <2>8, <2>9, <2>10 DEF Progress
<1> QED
  BY <1>1, <1>2

LEMMA ServeRotates == ASSUME Rotating, NEW m \in Threads, Serve(m) PROVE Rotating'
<1> USE DEF Rotating
<1>0. Functions /\ UNCHANGED <<step, got, todo, serving>>
  BY DEF Fitting, Serve, machines, Download, Vet, Upload, Take, Update,
         Conflict, SwitchRoot
<1>1. \A w \in Threads : w # m => snap'[w] = snap[w] /\ phase'[w] = phase[w]
  BY <1>0 DEF Functions, Serve, Download, Vet, Upload, Take, Update, Conflict,
              SwitchRoot, Answer
<1>2. StoreRenews
  BY ServeRenews
<1>3. Listed' /\ Finished' /\ Pending'
  BY <1>0, <1>2, KeepCounts
<1>4. Resting'
  BY <1>0 DEF Resting
<1>5. ASSUME NEW w \in Workers PROVE Progress(w)'
  <2>1. CASE w = m
    BY <2>1, ServeProgress
  <2>2. CASE w # m
    <3>1. HeadUnchanged(w)
      BY <1>0, <1>1, <2>2, Machines DEF HeadUnchanged
    <3> QED
      BY <1>2, <3>1, KeepProgress
  <2> QED
    BY <2>1, <2>2
<1> QED
  BY <1>3, <1>4, <1>5, ServeFits, ServeDraws
-----------------------------------------------------------------------------
(***************************************************************************)
(* The machines.                                                           *)
(***************************************************************************)
\* A step of a machine that is neither a worker nor ends or begins the wait
\* for the workers.
LEMMA BesideWorkers ==
    ASSUME Rotating, Fitting', Drawn', UNCHANGED <<store, todo, at_start, refused>>,
           \A w \in Workers : HeadUnchanged(w),
           step'[K] = step[K] \/
               (step[K] # "join" /\ step'[K] \notin {"join", "stop_clients"})
    PROVE  Rotating'
<1> USE DEF Rotating
<1>1. StoreRenews
  BY DEF StoreRenews
<1>2. \A w \in Workers : Progress(w)'
  BY <1>1, KeepProgress
<1>3. Listed'
  BY DEF Listed
<1>4. Finished'
  BY DEF Finished, Replaced
<1>5. Pending'
  BY DEF Pending, Replaced
<1>6. Resting'
  BY DEF Resting, HeadUnchanged
<1> QED
  BY <1>2, <1>3, <1>4, <1>5, <1>6

LEMMA ClientRotates == ASSUME Rotating, NEW c \in Clients, Client(c) PROVE Rotating'
<1>0. c \in Threads /\ c \notin Workers /\ c # K /\ K \in Threads /\ Workers \subseteq Threads
  BY Machines
<1>1. Functions /\ Fitting' /\ Drawn'
  BY ClientFits, ClientDraws DEF Rotating, Fitting
<1>2. UNCHANGED <<store, todo, at_start, refused>> /\ OthersUnchanged(c)
  BY <1>1, ClientAside
<1>3. \A w \in Workers : HeadUnchanged(w)
  BY <1>0, <1>2 DEF HeadUnchanged, OthersUnchanged
<1> QED
  BY <1>0, <1>1, <1>2, <1>3, BesideWorkers DEF OthersUnchanged

\* Of the steps of a worker, only the last of a record changes its list.
LEMMA WorkerRotates ==
    ASSUME Rotating, NEW w \in Workers, Worker(w)
    PROVE  Rotating'
<1> USE DEF Rotating
<1>0. /\ w \in Threads /\ w # K /\ K \in Threads /\ Workers \subseteq Threads
      /\ Functions /\ Fitting' /\ Drawn'
  BY Machines, WorkerFits, WorkerDraws DEF Fitting
<1>1. UNCHANGED <<store, at_start>> /\ refused \subseteq refused'
  BY <1>0, WorkerAside
<1>2. StoreRenews
  BY <1>1 DEF StoreRenews
<1>3. \A m \in Threads : m # w =>
         UNCHANGED <<step[m], got[m], snap[m], serving[m], phase[m]>>
  BY <1>0, WorkerAside DEF OthersUnchanged
<1>4. \A v \in Workers : v # w => todo'[v] = todo[v]
  BY <1>0, WorkerAside
<1>5. \A v \in Workers : v # w => Progress(v)'
  BY <1>0, <1>1, <1>2, <1>3, <1>4, KeepProgress DEF HeadUnchanged
<1>6. step[w] # "idle"
  BY DEF Worker, WorkerDownload, WorkerReceive, DecryptBefore, UpdateDownload, UpdateGivesUp,
         UpdateSend, UpdateReply, CompareAfter, WorkerDone, Send, Await, GoTo
<1>7. step[K] = "join" /\ step'[K] = "join"
  BY <1>0, <1>3, <1>6 DEF Resting
<1>8. Resting' /\ Finished'
  BY <1>7 DEF Resting, Finished
<1>9. todo[w] # << >> => Head(todo[w]) \in AssignedRecords /\ Head(todo[w]) \in Records
  BY HeadAssigned
<1> DEFINE Quiet == UNCHANGED todo /\ Listed' /\ Pending'
<1>10. UNCHANGED todo => Quiet
  BY <1>2, <1>7, AssignedAreRecords, StaysReplaced DEF Listed, Pending
<1>11. ASSUME WorkerDownload(w, "working", "awaiting_before")
       PROVE  UNCHANGED todo /\ Progress(w)'
  <2> USE <1>11 DEF WorkerDownload, Send, Receive, GoTo
  <2>1. step'[w] = "awaiting_before" /\ phase'[w] = "received" /\ UNCHANGED todo
    BY <1>0 DEF Functions
  <2>2. serving'[w] = Getall(Head(todo[w]), WholeRecord)
    BY <1>0 DEF Functions
  <2>3. Downloading(w)'
    BY <2>1, <2>2 DEF Downloading, Getall, Asked, WholeRecord
  <2> QED
    BY <2>1, <2>3 DEF Progress
<1>12. ASSUME WorkerReceive(w, "awaiting_before", "unwrapping_before")
       PROVE  UNCHANGED todo /\ Progress(w)'
  <2> USE <1>12 DEF WorkerReceive, Await, Reply, GoTo, Keep
  <2>1. step'[w] = "unwrapping_before" /\ UNCHANGED todo /\ todo[w] # << >>
    BY <1>0 DEF Functions, Progress
  <2>2. got'[w] = snap[w] /\ (Moved(w) \/ SameKey(w, snap[w]))
    BY <1>0 DEF Functions, Progress
  <2>3. Moved(w)' \/ SameKey(w, got[w])'
    BY <1>1, <2>1, <2>2 DEF Moved, Replaced, SameKey
  <2> QED
    BY <2>1, <2>3 DEF Progress
<1>13. ASSUME DecryptBefore(w) PROVE UNCHANGED todo /\ Progress(w)'
  <2> USE <1>13 DEF DecryptBefore, GoTo
  <2>1. step'[w] = "reading_header" /\ UNCHANGED todo /\ todo[w] # << >>
    BY <1>0 DEF Functions, Progress
  <2>2. Moved(w) \/ Opening(w)
    BY DEF Progress, Unwraps, SameKey, Opening
  <2>3. Moved(w)' \/ Opening(w)'
    BY <1>1, <2>1, <2>2 DEF Moved, Replaced, Opening
  <2> QED
    BY <2>1, <2>3 DEF Progress
<1>14. ASSUME UpdateDownload(w) PROVE UNCHANGED todo /\ Progress(w)'
  <2> USE <1>14 DEF UpdateDownload, Send, Receive, GoTo
  <2>1. /\ step'[w] = "awaiting_header" /\ phase'[w] = "received" /\ UNCHANGED todo
        /\ todo[w] # << >>
    BY <1>0 DEF Functions, Progress
  <2>2. serving'[w] = Getall(Head(todo[w]), WrapAndHeader)
    BY <1>0 DEF Functions
  <2>3. Downloading(w)'
    BY <2>1, <2>2 DEF Downloading, Getall, Asked, WrapAndHeader
  <2>4. Moved(w)' \/ Opening(w)'
    BY <1>1, <2>1 DEF Progress, Moved, Replaced, Opening
  <2> QED
    BY <2>1, <2>3, <2>4 DEF Progress
<1>15. ASSUME WorkerReceive(w, "awaiting_header", "have_header")
       PROVE  UNCHANGED todo /\ Progress(w)'
  <2> USE <1>15 DEF WorkerReceive, Await, Reply, GoTo, Keep
  <2>1. step'[w] = "have_header" /\ UNCHANGED todo /\ todo[w] # << >>
    BY <1>0 DEF Functions, Progress
  <2>2. got'[w] = snap[w] /\ (Moved(w) \/ (Opening(w) /\ SameKey(w, snap[w])))
    BY <1>0 DEF Functions, Progress
  <2>3. Moved(w)' \/ (Opening(w)' /\ SameKey(w, got[w])')
    BY <1>1, <2>1, <2>2 DEF Moved, Replaced, Opening, SameKey
  <2> QED
    BY <2>1, <2>3 DEF Progress
<1>16. ASSUME UpdateGivesUp(w) PROVE UNCHANGED todo /\ Progress(w)'
  <2> USE <1>16 DEF UpdateGivesUp, GoTo
  <2>1. step'[w] = "updated" /\ UNCHANGED todo /\ todo[w] # << >>
    BY <1>0 DEF Functions, Progress
  <2>2. Moved(w)'
    <3>1. CASE Unwraps(w)
      BY <2>1, <3>1 DEF Moved, Replaced
    <3>2. CASE ~Unwraps(w)
      <4>1. Moved(w)
        BY <3>2 DEF Progress, Unwraps, SameKey, Opening
      <4> QED
        BY <1>1, <2>1, <4>1 DEF Moved, Replaced
    <3> QED
      BY <3>1, <3>2
  <2> QED
    BY <2>1, <2>2 DEF Progress
<1>17. ASSUME UpdateSend(w) PROVE UNCHANGED todo /\ Progress(w)'
  <2> USE <1>17 DEF UpdateSend, Send, Receive, GoTo
  <2>1. /\ step'[w] = "updating" /\ phase'[w] = "received" /\ UNCHANGED todo
        /\ todo[w] # << >>
    BY <1>0 DEF Functions, Progress
  <2>2. serving'[w].cmd = "UP_UPDATE" /\ serving'[w].rec = Head(todo[w])
    BY <1>0 DEF Functions
  <2> QED
    BY <2>1, <2>2 DEF Progress
<1>18. ASSUME UpdateReply(w) PROVE UNCHANGED todo /\ Progress(w)'
  <2> USE <1>18 DEF UpdateReply, Await, Reply, GoTo
  <2>1. step'[w] = "updated" /\ UNCHANGED todo /\ todo[w] # << >>
    BY <1>0 DEF Functions, Progress
  <2>2. Moved(w)
    BY DEF Progress
  <2>3. Moved(w)'
    BY <1>1, <2>1, <2>2 DEF Moved, Replaced
  <2> QED
    BY <2>1, <2>3 DEF Progress
<1>19. ASSUME WorkerDownload(w, "updated", "awaiting_after")
       PROVE  UNCHANGED todo /\ Progress(w)'
  <2> USE <1>19 DEF WorkerDownload, Send, Receive, GoTo
  <2>1. step'[w] = "awaiting_after" /\ UNCHANGED todo /\ todo[w] # << >>
    BY <1>0 DEF Functions
  <2>2. Moved(w)'
    BY <1>1, <2>1 DEF Progress, Moved, Replaced
  <2> QED
    BY <2>1, <2>2 DEF Progress
<1>20. ASSUME WorkerReceive(w, "awaiting_after", "unwrapping_after")
       PROVE  UNCHANGED todo /\ Progress(w)'
  <2> USE <1>20 DEF WorkerReceive, Await, Reply, GoTo, Keep
  <2>1. step'[w] = "unwrapping_after" /\ UNCHANGED todo /\ todo[w] # << >>
    BY <1>0 DEF Functions, Progress
  <2>2. Moved(w)'
    BY <1>1, <2>1 DEF Progress, Moved, Replaced
  <2> QED
    BY <2>1, <2>2 DEF Progress
<1>21. ASSUME CompareAfter(w) PROVE Listed' /\ Pending' /\ Progress(w)'
  <2> USE <1>21 DEF CompareAfter, GoTo
  <2>1. /\ step'[w] = "working" /\ todo[w] # << >> /\ Moved(w)
        /\ todo' = [todo EXCEPT ![w] = Tail(@)]
    BY <1>0 DEF Functions, Progress
  <2>2. /\ todo[w] \in Seq(Records) /\ Len(todo[w]) \in Nat \ {0}
        /\ DOMAIN todo[w] = 1 .. Len(todo[w])
    BY <2>1 DEF Listed
  <2>3. /\ Tail(todo[w]) \in Seq(Records)
        /\ DOMAIN Tail(todo[w]) = 1 .. Len(todo[w]) - 1
        /\ \A n \in 1 .. Len(todo[w]) - 1 : Tail(todo[w])[n] = todo[w][n + 1]
        /\ Head(todo[w]) = todo[w][1]
    BY <2>1, <2>2
  <2>4. todo'[w] = Tail(todo[w])
    BY <1>0, <2>1 DEF Functions
  <2>5. \A n \in DOMAIN todo'[w] : n + 1 \in DOMAIN todo[w] /\ todo'[w][n] = todo[w][n + 1]
    <3>1. \A n \in 1 .. Len(todo[w]) - 1 : n + 1 \in 1 .. Len(todo[w])
      BY <2>2
    <3>2. \A n \in DOMAIN todo'[w] : n \in 1 .. Len(todo[w]) - 1
      BY <2>3, <2>4
    <3> QED
      BY <2>2, <2>3, <2>4, <3>1, <3>2
  <2>6. Listed'
    <3> SUFFICES ASSUME NEW v \in Workers
                 PROVE  /\ todo'[v] \in Seq(Records)
                        /\ \A n \in DOMAIN todo'[v] : todo'[v][n] \in AssignedRecords
      BY DEF Listed, AssignedRecords
    <3>1. CASE v = w
      BY <2>3, <2>4, <2>5, <3>1 DEF Listed
    <3>2. CASE v # w
      BY <1>4, <3>2 DEF Listed
    <3> QED
      BY <3>1, <3>2
  <2>7. \A k \in DOMAIN todo[w] : k = 1 \/
           (k - 1 \in DOMAIN todo'[w] /\ todo'[w][k - 1] = todo[w][k])
    <3> SUFFICES ASSUME NEW k \in DOMAIN todo[w], k # 1
                 PROVE  k - 1 \in DOMAIN todo'[w] /\ todo'[w][k - 1] = todo[w][k]
      OBVIOUS
    <3>1. k \in 1 .. Len(todo[w])
      BY <2>2
    <3>2. k - 1 \in 1 .. Len(todo[w]) - 1 /\ (k - 1) + 1 = k
      BY <2>2, <3>1
    <3> QED
      BY <2>3, <2>4, <3>2
  <2>8. Pending'
    <3> SUFFICES ASSUME NEW v \in Workers, NEW n \in DOMAIN Assigned[v]
                 PROVE  \/ Replaced(Assigned[v][n])'
                        \/ \E k \in DOMAIN todo'[v] : todo'[v][k] = Assigned[v][n]
      BY DEF Pending
    <3>1. \/ Replaced(Assigned[v][n])
          \/ \E k \in DOMAIN todo[v] : todo[v][k] = Assigned[v][n]
      BY <1>7 DEF Pending
    <3>2. CASE v # w
      BY <1>2, <1>4, <3>1, <3>2, AssignedAreRecords, StaysReplaced
    <3>3. CASE v = w
      <4> SUFFICES ASSUME NEW k \in DOMAIN todo[w], todo[w][k] = Assigned[v][n]
                   PROVE  \/ Replaced(Assigned[v][n])'
                          \/ \E j \in DOMAIN todo'[w] : todo'[w][j] = Assigned[v][n]
        BY <1>2, <3>1, <3>3, AssignedAreRecords, StaysReplaced
      <4>1. CASE k = 1
        BY <1>2, <2>1, <2>3, <4>1, AssignedAreRecords, StaysReplaced DEF Moved
      <4>2. CASE k # 1
        BY <2>7, <4>2
      <4> QED
        BY <4>1, <4>2
    <3> QED
      BY <3>2, <3>3
  <2>9. Progress(w)'
    BY <2>1 DEF Progress
  <2> QED
    BY <2>6, <2>8, <2>9
<1>22. ASSUME WorkerDone(w) PROVE UNCHANGED todo /\ Progress(w)'
  <2> USE <1>22 DEF WorkerDone, GoTo
  <2>1. step'[w] = "done" /\ UNCHANGED todo /\ todo[w] = << >>
    BY <1>0 DEF Functions
  <2> QED
    BY <2>1 DEF Progress
<1>23. Listed' /\ Pending' /\ Progress(w)'
  BY <1>10, <1>11, <1>12, <1>13, <1>14, <1>15, <1>16, <1>17, <1>18, <1>19, <1>20,
     <1>21, <1>22 DEF Worker
<1> QED
  BY <1>0, <1>5, <1>8, <1>23

LEMMA CoordinateRotates == ASSUME Rotating, Coordinate PROVE Rotating'
<1> USE DEF Rotating
<1>0. /\ K \in Threads /\ K \notin Workers /\ Workers \subseteq Threads
      /\ Functions /\ Fitting' /\ Drawn'
  BY Machines, CoordinateFits, CoordinateDraws DEF Fitting
<1>1. CASE SendDbRoot \/ DbRootDone
  <2>1. UNCHANGED <<store, todo, at_start, refused>>
    BY <1>1 DEF SendDbRoot, DbRootDone, others, working, history, Send, Await, Receive, Reply
  <2>2. \A m \in Threads : m # K =>
           UNCHANGED <<step[m], got[m], snap[m], serving[m], phase[m]>>
    BY <1>0, <1>1 DEF Functions, SendDbRoot, DbRootDone, others, working, Send, Await, Receive,
                      Reply, GoTo
  <2>3. step[K] # "join" /\ step'[K] \notin {"join", "stop_clients"}
    BY <1>0, <1>1 DEF Functions, SendDbRoot, DbRootDone, Send, Await, GoTo
  <2>4. \A w \in Workers : HeadUnchanged(w)
    BY <1>0, <2>1, <2>2 DEF HeadUnchanged
  <2> QED
    BY <1>0, <2>1, <2>3, <2>4, BesideWorkers
<1>2. CASE TellRoot \/ TellStart \/ TellEnd
  <2>1. UNCHANGED <<store, todo, at_start, refused>>
    BY <1>2 DEF TellRoot, TellStart, TellEnd, others, working, history, vars
  <2>2. \A m \in Threads : m # K =>
           UNCHANGED <<step[m], got[m], snap[m], serving[m], phase[m]>>
    BY <1>0, <1>2 DEF Functions, TellRoot, TellStart, TellEnd, others, working, vars, Tell, GoTo
  <2>3. step[K] # "join" /\ step'[K] \notin {"join", "stop_clients"}
    BY <1>0, <1>2 DEF Functions, TellRoot, TellStart, TellEnd, Tell, GoTo
  <2>4. \A w \in Workers : HeadUnchanged(w)
    BY <1>0, <2>1, <2>2 DEF HeadUnchanged
  <2> QED
    BY <1>0, <2>1, <2>3, <2>4, BesideWorkers
<1>3. CASE StartWorkers
  <2> USE <1>3 DEF StartWorkers, others, working, vars, rounds
  <2>1. /\ step'[K] = "join" /\ todo' = Assigned
        /\ \A w \in Workers : step'[w] = "working"
    BY <1>0
  <2>2. Listed'
    BY <2>1, RoundAssumption, AssignedAreRecords DEF Listed, AssignedRecords
  <2>3. Finished'
    BY <2>1 DEF Finished
  <2>4. Pending'
    BY <2>1 DEF Pending
  <2>5. Resting' /\ \A w \in Workers : Progress(w)'
    BY <2>1 DEF Resting, Progress
  <2> QED
    BY <1>0, <2>2, <2>3, <2>4, <2>5
<1>4. CASE Join
  <2> USE <1>4 DEF Join, AllDone, others, working, vars, rounds, history
  <2>1. /\ step[K] = "join" /\ step'[K] = "stop_clients"
        /\ UNCHANGED <<store, todo, at_start, refused>>
        /\ \A w \in Workers : step'[w] = "idle"
    BY <1>0
  <2>2. \A w \in Workers : todo[w] = << >> /\ DOMAIN todo[w] = {}
    <3>1. \A w \in Workers : todo[w] = << >>
      BY DEF Progress
    <3>2. DOMAIN << >> = {}
      OBVIOUS
    <3> QED
      BY <3>1, <3>2
  <2>3. \A r \in AssignedRecords : Replaced(r)
    BY <2>1, <2>2 DEF Pending, AssignedRecords
  <2>4. Finished'
    BY <2>1, <2>3 DEF Finished, Replaced
  <2>5. Listed'
    BY <2>1 DEF Listed
  <2>6. Pending' /\ Resting' /\ \A w \in Workers : Progress(w)'
    BY <2>1, <2>2 DEF Pending, Resting, Progress
  <2> QED
    BY <1>0, <2>4, <2>5, <2>6
<1>5. CASE TellStop
  <2> USE <1>5 DEF TellStop, others, working, history, vars, Tell, GoTo
  <2>1. /\ step[K] = "stop_clients" /\ UNCHANGED <<store, todo, at_start, refused>>
        /\ \A w \in Workers : step'[w] = step[w]
        /\ step'[K] \in {"stop_clients", "db_root", "end_clients"}
    BY <1>0 DEF Functions
  <2>3. Finished'
    BY <2>1 DEF Finished, Replaced
  <2>4. Listed'
    BY <2>1 DEF Listed
  <2>5. Pending' /\ Resting'
    BY <2>1 DEF Pending, Resting
  <2>6. \A w \in Workers : Progress(w)'
    <3>1. \A w \in Workers : step[w] = "idle"
      BY <2>1 DEF Resting
    <3> QED
      BY <2>1, <3>1 DEF Progress
  <2> QED
    BY <1>0, <2>3, <2>4, <2>5, <2>6
<1> QED
  BY <1>1, <1>2, <1>3, <1>4, <1>5 DEF Coordinate

LEMMA NextRotating == Rotating /\ [KRNext]_allvars => Rotating'
<1> SUFFICES ASSUME Rotating, [KRNext]_allvars PROVE Rotating'
  OBVIOUS
<1>1. CASE UNCHANGED allvars
  <2> USE <1>1 DEF allvars, vars, machines, rounds, history
  <2>1. Fitting' /\ Drawn'
    BY NextFitting DEF Rotating, Drawn, Offers, Silent
  <2>2. \A w \in Workers : HeadUnchanged(w)
    BY DEF HeadUnchanged
  <2> QED
    BY <2>1, <2>2, BesideWorkers
<1> QED
  BY <1>1, ClientRotates, WorkerRotates, CoordinateRotates, ServeRotates DEF KRNext

LEMMA AlwaysRotating == KRSpec => []Rotating
BY InitRotating, NextRotating, PTL DEF KRSpec

\* For any number of machines, records and rounds, and whatever uploads race
\* with it: when the coordinator has joined the workers, no record that was
\* assigned to one of them has the DEK that it had when they were started,
\* unless the HSM refused its wrap -- although the workers ignore conflicts
\* (actions.c, line 1079) and give up records whose wrap does not open (1003).
THEOREM RoundAlwaysReplacesEveryDek == KRSpec => []RoundReplacesEveryDek
<1>1. Rotating => RoundReplacesEveryDek
  BY AssignedAreRecords DEF Rotating, Finished, Replaced, RoundReplacesEveryDek
<1> QED
  BY <1>1, AlwaysRotating, PTL
-----------------------------------------------------------------------------
(***************************************************************************)
(* Types, when generations are not bounded: what a machine holds, what     *)
(* waits in the server, and which step of a machine waits for a reply.     *)
(***************************************************************************)
Waiting == {"downloading", "uploading", "awaiting_before", "awaiting_header",
            "updating", "awaiting_after", "awaiting_db"}

Stored == [wrap : Wrap, header : Header, data : Data,
           root_version : Roots, ctxt_version : Nat]
Decryptable(v) == v.data \in Data /\ v.root_version \in Roots

\* The requests that machines send: those of SimpleServer but GET.
MachineRequests ==
    [cmd : {"GETALL"}, rec : Records, keys : {WholeRecord, WrapAndHeader}]
    \cup [cmd : {"SETALL"}, rec : Records, wrap : Wrap, header : Header, data : Data,
          root_version : Roots]
    \cup [cmd : {"UP_UPDATE"}, rec : Records, wrap : Wrap, delta : Delta]
    \cup [cmd : {"ROOTKEY"}, root : Roots]

ClientTyped(c) ==
    /\ key_handle[c] \in Roots \cup {NoRoot}
    /\ step[c] # "booting" => key_handle[c] \in Roots
    /\ step[c] = "wrapped" => got[c] \in Fields
WorkerTyped(w) ==
    /\ before[w] \in Messages \cup {Garbage}
    /\ step[w] = "awaiting_before" =>
          /\ {"data", "root_version"} \subseteq Asked(serving[w])
          /\ phase[w] = "answered" => Decryptable(snap[w])
    /\ step[w] = "unwrapping_before" => Decryptable(got[w])
    /\ step[w] = "awaiting_header" =>
          /\ "header" \in Asked(serving[w])
          /\ phase[w] = "answered" => snap[w].root_version \in Roots /\ snap[w].header \in Gens
    /\ step[w] = "have_header" => got[w].root_version \in Roots /\ got[w].header \in Gens

ThreadTyped(m) ==
    /\ phase[m] = "idle" <=> step[m] \notin Waiting
    /\ phase[m] # "idle" => serving[m] \in MachineRequests

Counters ==
    /\ round \in 1 .. Len(RootOf)
    /\ left \subseteq Clients /\ run_workload \subseteq Clients
    /\ fresh \in Nat /\ uploads \in 0 .. MaxUploads
    /\ at_start \in [Records -> Header] /\ refused \subseteq Records

Typed ==
    /\ Rotating /\ Counters
    /\ DOMAIN before = Workers /\ DOMAIN key_handle = Clients
    /\ before \in [Workers -> Messages \cup {Garbage}]
    /\ todo \in [Workers -> Seq(Records)]
    /\ key_handle \in [Clients -> Roots \cup {NoRoot}]
    /\ store \in [Records -> Stored]
    /\ \A c \in Clients : ClientTyped(c)
    /\ \A w \in Workers : WorkerTyped(w)
    /\ \A m \in Threads : ThreadTyped(m)
-----------------------------------------------------------------------------
LEMMA InitTyped == ASSUME Gens = Nat PROVE KRInit => Typed
<1> SUFFICES ASSUME KRInit PROVE Typed
  OBVIOUS
<1>1. /\ \A w \in Workers : step[w] = "idle"
      /\ \A c \in Clients : step[c] = "booting"
      /\ step[K] = "db_root"
  BY Machines DEF KRInit, K
<1>2. \A m \in Threads : step[m] \notin Waiting
  BY DEF KRInit, Waiting
<1>3. store \in [Records -> Stored]
  <2>1. PICK rho \in Roots, g \in Gens, m \in Messages :
           store = [r \in Records |-> Populated(rho, g, m)]
    BY DEF KRInit, Init
  <2>2. Populated(rho, g, m) \in Stored
    BY DEF Populated, Encrypted, Stored, Wrap, Header, Data
  <2> QED
    BY <2>1, <2>2
<1>4. Counters
  <2>1. at_start = [r \in Records |-> store[r].header] /\ refused = {}
    BY DEF KRInit
  <2>2. at_start \in [Records -> Header]
    BY <1>3, <2>1 DEF Stored
  <2> QED
    BY <2>1, <2>2, RoundAssumption DEF KRInit, Counters
<1>5. << >> \in Seq(Records)
  OBVIOUS
<1>6. /\ before \in [Workers -> Messages \cup {Garbage}]
      /\ todo \in [Workers -> Seq(Records)]
      /\ key_handle \in [Clients -> Roots \cup {NoRoot}]
  BY <1>5 DEF KRInit
<1>7. \A m \in Threads : ThreadTyped(m)
  BY <1>2 DEF KRInit, Init, ThreadTyped
<1>8. /\ \A c \in Clients : ClientTyped(c)
      /\ \A w \in Workers : WorkerTyped(w)
  BY <1>1, <1>6 DEF ClientTyped, WorkerTyped
<1> QED
  BY <1>3, <1>4, <1>6, <1>7, <1>8, InitRotating DEF Typed

LEMMA ServeTypes == ASSUME Gens = Nat, Typed, NEW m \in Threads, Serve(m) PROVE Typed'
<1> USE DEF Typed
<1> DEFINE q == serving[m]
<1>0. /\ Rotating' /\ UNCHANGED <<machines, rounds>> /\ Functions /\ Listed
      /\ RequestsFit
      /\ \A w \in Workers : Progress(w)
      /\ Workers \subseteq Threads /\ Clients \subseteq Threads
  BY ServeRotates, Machines DEF Serve, Rotating, Fitting
<1>1. Counters' /\ UNCHANGED <<before, todo, key_handle, step, got, serving>>
  BY <1>0 DEF Counters, machines, rounds, history, Serve, Download, Vet, Upload, Take, Update,
              Conflict, SwitchRoot
<1>2. phase[m] # "idle" /\ phase'[m] # "idle"
  BY <1>0 DEF Functions, Serve, Download, Vet, Upload, Take, Update, Conflict, SwitchRoot, Answer
<1>3. \A n \in Threads : n # m => UNCHANGED <<phase[n], snap[n]>>
  BY <1>0 DEF Functions, Serve, Download, Vet, Upload, Take, Update, Conflict, SwitchRoot, Answer
<1>4. \A n \in Threads : ThreadTyped(n)'
  BY <1>1, <1>2, <1>3 DEF ThreadTyped
<1>5. \A c \in Clients : ClientTyped(c)'
  BY <1>1 DEF ClientTyped
<1>6. /\ q.cmd = "SETALL" => /\ q.wrap \in Wrap /\ q.header \in Header
                             /\ q.data \in Data /\ q.root_version \in Roots
      /\ q.cmd = "UP_UPDATE" => q.wrap \in Wrap /\ q.delta.new \in Gens
  <2>1. q \in MachineRequests
    BY <1>2 DEF ThreadTyped
  <2> QED
    BY <2>1 DEF MachineRequests, Delta
<1>7. store' \in [Records -> Stored]
  <2>1. CASE Upload(m)
    <3>1. q.cmd = "SETALL" /\ store' = [store EXCEPT ![q.rec] = Uploaded(q, @)]
      BY <1>0, <2>1 DEF Upload, RequestsFit, RequestFits
    <3>2. \A r \in Records : Uploaded(q, store[r]) \in Stored
      BY <1>6, <3>1 DEF Uploaded, Stored
    <3> QED
      BY <3>1, <3>2
  <2>2. CASE Update(m)
    <3>1. q.cmd = "UP_UPDATE" /\ store' = [store EXCEPT ![q.rec] = Updated(q, @)]
      BY <1>0, <2>2 DEF Update, RequestsFit, RequestFits
    <3>2. \A r \in Records : ReEncryptedData(q.delta, store[r].data) \in Data
      BY <1>6, <3>1 DEF ReEncryptedData, Stored, Data
    <3>3. \A r \in Records : Updated(q, store[r]) \in Stored
      <4> SUFFICES ASSUME NEW r \in Records PROVE Updated(q, store[r]) \in Stored
        OBVIOUS
      <4>1. store[r] \in Stored
        OBVIOUS
      <4>2. /\ q.wrap \in Wrap /\ q.delta.new \in Header
            /\ ReEncryptedData(q.delta, store[r].data) \in Data
            /\ store[r].ctxt_version + 1 \in Nat
        BY <1>6, <3>1, <3>2, <4>1 DEF Header, Stored
      <4> QED
        BY <4>1, <4>2 DEF Updated, ReEncryptedHeader, Stored
    <3> QED
      BY <3>1, <3>3
  <2>3. CASE Download(m) \/ Vet(m) \/ Take(m) \/ Conflict(m) \/ SwitchRoot(m)
    BY <2>3 DEF Download, Vet, Take, Conflict, SwitchRoot
  <2> QED
    BY <2>1, <2>2, <2>3 DEF Serve
<1>8. \A w \in Workers : WorkerTyped(w)'
  <2> SUFFICES ASSUME NEW w \in Workers PROVE WorkerTyped(w)'
    OBVIOUS
  <2>1. CASE m # w
    BY <1>0, <1>1, <1>3, <2>1 DEF WorkerTyped
  <2>2. CASE m = w /\ Download(w)
    <3>1. /\ snap'[w] = Part(store[serving[w].rec], Asked(serving[w]))
          /\ serving[w].cmd = "GETALL"
      BY <1>0, <2>2 DEF Download, Functions
    <3>2. step[w] \in {"awaiting_before", "awaiting_header"} =>
             /\ serving[w].rec = Head(todo[w])
             /\ {"wrap", "root_version"} \subseteq Asked(serving[w])
             /\ todo[w] # << >>
      BY <1>0 DEF Progress, Downloading
    <3>3. step[w] \in {"awaiting_before", "awaiting_header"} =>
             store[serving[w].rec] \in Stored
      BY <1>0, <3>2, HeadAssigned
    <3>4. step[w] \in {"awaiting_before", "awaiting_header"} => snap'[w].root_version \in Roots
      BY <3>1, <3>2, <3>3 DEF Part, Stored
    <3>5. step[w] = "awaiting_before" => snap'[w].data \in Data
      BY <3>1, <3>3 DEF WorkerTyped, Part, Stored
    <3>6. step[w] = "awaiting_header" => snap'[w].header \in Gens
      BY <3>1, <3>3 DEF WorkerTyped, Part, Stored, Header
    <3> QED
      BY <1>1, <3>4, <3>5, <3>6 DEF WorkerTyped, Decryptable
  <2>3. CASE m = w /\ ~Download(w)
    <3>1. step[w] \notin {"awaiting_before", "awaiting_header"}
      BY <1>0, <2>3 DEF Serve, Vet, Upload, Take, Update, Conflict, SwitchRoot,
                        Progress, Downloading, RequestsFit, RequestFits
    <3> QED
      BY <1>1, <3>1 DEF WorkerTyped
  <2> QED
    BY <2>1, <2>2, <2>3
<1> QED
  BY <1>0, <1>1, <1>4, <1>5, <1>7, <1>8

LEMMA ClientTypes == ASSUME Gens = Nat, Typed, NEW c \in Clients, Client(c) PROVE Typed'
<1> USE DEF Typed
<1>0. /\ c \in Threads /\ c \notin Workers /\ Workers \subseteq Threads /\ Clients \subseteq Threads
      /\ Functions /\ Rotating'
  BY Machines, ClientRotates DEF Rotating, Fitting
<1>1. UNCHANGED <<store, todo, round, before, at_start, refused>> /\ OthersUnchanged(c)
  BY <1>0, ClientAside
<1>2. \A w \in Workers : WorkerTyped(w)'
  BY <1>0, <1>1 DEF WorkerTyped, OthersUnchanged
<1>3. \A m \in Threads : m # c => ThreadTyped(m)'
  BY <1>1 DEF ThreadTyped, OthersUnchanged
<1>4. /\ UNCHANGED <<left, run_workload>>
      /\ key_handle' = [key_handle EXCEPT ![c] = FirstHandle] \/ UNCHANGED key_handle
  BY DEF Client, ClientBoot, ClientLoop, ClientDownload, ClientReceive, ClientDecrypt,
         ClientEncrypt, ClientUpload, ClientUploaded, rounds
<1>5. key_handle' \in [Clients -> Roots \cup {NoRoot}]
  BY <1>4, RoundAssumption
<1>6. \A d \in Clients : d # c => ClientTyped(d)'
  BY <1>0, <1>1, <1>4 DEF ClientTyped, OthersUnchanged
<1> USE DEF GoTo, Waiting, ThreadTyped, ClientTyped
<1>7. ASSUME ClientBoot(c) \/ ClientLoop(c) \/ ClientDecrypt(c)
      PROVE  UNCHANGED <<fresh, uploads>> /\ ThreadTyped(c)' /\ ClientTyped(c)'
  BY <1>0, <1>7, RoundAssumption DEF ClientBoot, ClientLoop, ClientDecrypt, vars, Functions
<1>8. ASSUME ClientDownload(c)
      PROVE  UNCHANGED <<fresh, uploads>> /\ ThreadTyped(c)' /\ ClientTyped(c)'
  <2>1. serving'[c] = Getall(Uses[c], WholeRecord)
    BY <1>0, <1>8 DEF ClientDownload, Send, Receive, Functions
  <2>2. serving'[c] \in MachineRequests
    BY <2>1, RoundAssumption DEF Getall, MachineRequests
  <2> QED
    BY <1>0, <1>8, <2>2 DEF ClientDownload, Send, Receive, Functions
<1>9. ASSUME ClientReceive(c) \/ ClientUploaded(c)
      PROVE  UNCHANGED <<fresh, uploads>> /\ ThreadTyped(c)' /\ ClientTyped(c)'
  BY <1>0, <1>9 DEF ClientReceive, ClientUploaded, Await, Reply, Functions
<1>10. ASSUME NEW m \in Messages, ClientEncrypt(c, m)
       PROVE  /\ fresh' \in Nat /\ uploads' \in 0 .. MaxUploads
              /\ ThreadTyped(c)' /\ ClientTyped(c)'
  <2> USE <1>10 DEF ClientEncrypt
  <2>1. fresh' \in Nat /\ uploads' \in 0 .. MaxUploads
    BY RoundAssumption DEF Counters
  <2>2. step'[c] = "wrapped" /\ UNCHANGED <<phase, serving, key_handle>> /\ step[c] = "operating"
    BY <1>0 DEF Functions, vars
  <2>3. key_handle[c] \in Roots /\ fresh \in Gens
    BY <2>2 DEF Counters
  <2>4. got'[c] \in Fields
    BY <1>0, <2>3 DEF Functions, Fields, Wrap, Header, Data, Encrypted
  <2> QED
    BY <1>0, <2>1, <2>2, <2>3, <2>4
<1>11. ASSUME ClientUpload(c)
       PROVE  UNCHANGED <<fresh, uploads>> /\ ThreadTyped(c)' /\ ClientTyped(c)'
  <2> USE <1>11 DEF ClientUpload, Send, Receive
  <2>1. /\ step[c] = "wrapped" /\ step'[c] = "uploading" /\ phase'[c] = "received"
        /\ UNCHANGED <<fresh, uploads, key_handle>>
    BY <1>0 DEF Functions
  <2>2. serving'[c] = [cmd |-> "SETALL", rec |-> Uses[c], wrap |-> got[c].wrap,
                       header |-> got[c].header, data |-> got[c].data,
                       root_version |-> got[c].root_version]
    BY <1>0 DEF Functions
  <2>3. serving'[c] \in MachineRequests
    BY <2>1, <2>2, RoundAssumption DEF Fields, MachineRequests
  <2> QED
    BY <1>0, <2>1, <2>3
<1>12. fresh' \in Nat /\ uploads' \in 0 .. MaxUploads /\ ThreadTyped(c)' /\ ClientTyped(c)'
  BY <1>7, <1>8, <1>9, <1>10, <1>11 DEF Client, Counters
<1>13. Counters'
  BY <1>1, <1>4, <1>12 DEF Counters
<1> HIDE DEF ThreadTyped, ClientTyped
<1> QED
  BY <1>0, <1>1, <1>2, <1>3, <1>5, <1>6, <1>12, <1>13

LEMMA WorkerTypes == ASSUME Gens = Nat, Typed, NEW w \in Workers, Worker(w) PROVE Typed'
<1> USE DEF Typed
<1>0. /\ w \in Threads /\ Workers \subseteq Threads /\ Clients \subseteq Threads
      /\ \A c \in Clients : c # w
      /\ Functions /\ Rotating' /\ Progress(w) /\ Listed'
  BY Machines, WorkerRotates DEF Rotating, Fitting
<1>1. /\ UNCHANGED <<store, round, uploads, at_start>> /\ OthersUnchanged(w)
      /\ \A v \in Workers : v # w => todo'[v] = todo[v] /\ before'[v] = before[v]
      /\ DOMAIN before' = Workers
  BY <1>0, WorkerAside
<1>2. UNCHANGED <<key_handle, run_workload, left>>
  BY DEF Worker, WorkerDownload, WorkerReceive, DecryptBefore, UpdateDownload, UpdateGivesUp,
         UpdateSend, UpdateReply, CompareAfter, WorkerDone, rounds
<1>3. \A v \in Workers : v # w => WorkerTyped(v)'
  BY <1>0, <1>1 DEF WorkerTyped, OthersUnchanged
<1>4. \A m \in Threads : m # w => ThreadTyped(m)'
  BY <1>1 DEF ThreadTyped, OthersUnchanged
<1>5. \A c \in Clients : ClientTyped(c)'
  BY <1>0, <1>1, <1>2 DEF ClientTyped, OthersUnchanged
<1>6. todo' \in [Workers -> Seq(Records)]
  <2>1. UNCHANGED todo \/ todo' = [todo EXCEPT ![w] = Tail(@)]
    BY DEF Worker, WorkerDownload, WorkerReceive, DecryptBefore, UpdateDownload, UpdateGivesUp,
           UpdateSend, UpdateReply, CompareAfter, WorkerDone, vars
  <2> QED
    BY <1>0, <2>1 DEF Listed
<1>7. fresh' \in Nat
  BY DEF Counters, Worker, WorkerDownload, WorkerReceive, DecryptBefore, UpdateDownload,
         UpdateGivesUp, UpdateSend, UpdateReply, CompareAfter, WorkerDone
<1>8. \E v : v \in Messages \cup {Garbage} /\ (before' = before \/ before' = [before EXCEPT ![w] = v])
  <2>1. CASE DecryptBefore(w)
    <3>1. step[w] = "unwrapping_before" /\ before' = [before EXCEPT ![w] = Decrypted(w)]
      BY <2>1 DEF DecryptBefore, GoTo
    <3>2. Decrypted(w) \in Messages \cup {Garbage}
      BY <3>1 DEF WorkerTyped, Decryptable, Decrypted, Data
    <3> QED
      BY <3>1, <3>2
  <2>2. CASE ~DecryptBefore(w)
    BY <2>2 DEF Worker, WorkerDownload, WorkerReceive, UpdateDownload, UpdateGivesUp,
                UpdateSend, UpdateReply, CompareAfter, WorkerDone
  <2> QED
    BY <2>1, <2>2
<1>9. before' \in [Workers -> Messages \cup {Garbage}]
  BY <1>8
<1> USE DEF GoTo, Waiting, ThreadTyped
<1> DEFINE Goal == ThreadTyped(w)' /\ WorkerTyped(w)'
<1>10. ASSUME NEW from, NEW to, to \in {"awaiting_before", "awaiting_after"},
              from \in {"working", "updated"}, WorkerDownload(w, from, to)
       PROVE  Goal
  <2> USE <1>10 DEF WorkerDownload, Send, Receive
  <2>1. step'[w] = to /\ phase'[w] = "received" /\ before'[w] = before[w] /\ step[w] = from
    BY <1>0 DEF Functions
  <2>2. serving'[w] = Getall(Head(todo[w]), WholeRecord)
    BY <1>0 DEF Functions
  <2>3. {"data", "root_version"} \subseteq Asked(serving'[w])
    <3> HIDE DEF Typed, ThreadTyped
    <3>1. serving'[w].keys = <<"wrap", "header", "data", "root_version">>
      BY <2>2 DEF Getall, WholeRecord
    <3> QED
      BY <3>1 DEF Asked
  <2>4. serving'[w] \in MachineRequests
    BY <1>0, <2>2, HeadAssigned DEF Getall, MachineRequests
  <2> QED
    BY <1>0, <2>1, <2>3, <2>4 DEF WorkerTyped
<1>11. ASSUME NEW from, NEW to, WorkerReceive(w, from, to),
             \/ from = "awaiting_before" /\ to = "unwrapping_before"
             \/ from = "awaiting_header" /\ to = "have_header"
             \/ from = "awaiting_after" /\ to = "unwrapping_after"
       PROVE  Goal
  <2> USE <1>11 DEF WorkerReceive, Await, Reply, Keep
  <2>1. /\ step'[w] = to /\ phase'[w] = "idle" /\ before'[w] = before[w] /\ step[w] = from
        /\ got'[w] = snap[w] /\ phase[w] = "answered"
    BY <1>0 DEF Functions
  <2> QED
    BY <1>0, <2>1 DEF WorkerTyped, Decryptable
<1>12. ASSUME DecryptBefore(w) \/ UpdateGivesUp(w) \/ CompareAfter(w) \/ WorkerDone(w)
       PROVE  Goal
  <2>1. /\ UNCHANGED <<phase, serving>>
        /\ step[w] \in {"unwrapping_before", "have_header", "unwrapping_after", "working"}
        /\ step'[w] \in {"reading_header", "updated", "working", "done"}
    BY <1>0, <1>12 DEF DecryptBefore, UpdateGivesUp, CompareAfter, WorkerDone, vars, Functions
  <2>2. ThreadTyped(w)'
    BY <1>0, <2>1
  <2>3. WorkerTyped(w)'
    BY <1>9, <2>1 DEF WorkerTyped
  <2> QED
    BY <2>2, <2>3
<1>13. ASSUME UpdateDownload(w) PROVE Goal
  <2> USE <1>13 DEF UpdateDownload, Send, Receive
  <2>0. step[w] = "reading_header"
    OBVIOUS
  <2>1. step'[w] = "awaiting_header" /\ phase'[w] = "received" /\ before'[w] = before[w]
    BY <1>0 DEF Functions
  <2>2. serving'[w] = Getall(Head(todo[w]), WrapAndHeader)
    BY <1>0 DEF Functions
  <2>3. "header" \in Asked(serving'[w])
    <3> HIDE DEF Typed, ThreadTyped
    <3>1. serving'[w].keys = <<"wrap", "header", "root_version">>
      BY <2>2 DEF Getall, WrapAndHeader
    <3> QED
      BY <3>1 DEF Asked
  <2>4. Head(todo[w]) \in Records
    BY <1>0, <2>0, HeadAssigned DEF Progress, Rotating
  <2>5. serving'[w] \in MachineRequests
    BY <2>2, <2>4 DEF Getall, MachineRequests
  <2> QED
    BY <1>0, <2>1, <2>3, <2>5 DEF WorkerTyped
<1>14. ASSUME UpdateSend(w) PROVE Goal
  <2> USE <1>14 DEF UpdateSend, Send, Receive
  <2>1. /\ step[w] = "have_header" /\ step'[w] = "updating" /\ phase'[w] = "received"
        /\ before'[w] = before[w]
    BY <1>0 DEF Functions
  <2>2. serving'[w] = [cmd |-> "UP_UPDATE", rec |-> Head(todo[w]),
                       wrap |-> [root |-> got[w].root_version, gen |-> fresh],
                       delta |-> ReKeyGen(got[w].header, fresh)]
    BY <1>0 DEF Functions
  <2>3. /\ got[w].root_version \in Roots /\ fresh \in Gens
        /\ got[w].header \in Gens
    BY <2>1 DEF WorkerTyped, Counters
  <2>4. serving'[w] \in MachineRequests
    <3>1. Head(todo[w]) \in Records
      BY <1>0, <2>1, HeadAssigned DEF Progress, Rotating
    <3>2. /\ [root |-> got[w].root_version, gen |-> fresh] \in Wrap
          /\ ReKeyGen(got[w].header, fresh) \in Delta
      BY <2>3 DEF Wrap, ReKeyGen, Delta
    <3> QED
      BY <2>2, <3>1, <3>2 DEF MachineRequests
  <2> QED
    BY <1>0, <2>1, <2>2, <2>4 DEF WorkerTyped
<1>15. ASSUME UpdateReply(w) PROVE Goal
  <2> USE <1>15 DEF UpdateReply, Await, Reply
  <2>1. step'[w] = "updated" /\ phase'[w] = "idle" /\ before'[w] = before[w]
    BY <1>0 DEF Functions
  <2> QED
    BY <1>0, <2>1 DEF WorkerTyped
<1> HIDE DEF ThreadTyped
<1>16. Goal
  BY <1>10, <1>11, <1>12, <1>13, <1>14, <1>15 DEF Worker
<1>17. refused' \subseteq Records
  <2>1. CASE UpdateGivesUp(w)
    <3>1. step[w] = "have_header"
          /\ refused' = IF Unwraps(w) THEN refused \cup {Head(todo[w])} ELSE refused
      BY <2>1 DEF UpdateGivesUp
    <3>2. Head(todo[w]) \in Records
      BY <1>0, <3>1, HeadAssigned DEF Rotating, Progress
    <3> QED
      BY <3>1, <3>2 DEF Counters
  <2>2. CASE ~UpdateGivesUp(w)
    BY <2>2 DEF Counters, Worker, WorkerDownload, WorkerReceive, DecryptBefore, UpdateDownload,
                UpdateSend, UpdateReply, CompareAfter, WorkerDone, rounds, history
  <2> QED
    BY <2>1, <2>2
<1>18. Counters'
  BY <1>1, <1>2, <1>7, <1>17 DEF Counters
<1> QED
  BY <1>0, <1>1, <1>2, <1>3, <1>4, <1>5, <1>6, <1>9, <1>16, <1>18

LEMMA CoordinateTypes == ASSUME Gens = Nat, Typed, Coordinate PROVE Typed'
<1> USE DEF Typed
<1>0. /\ K \in Threads /\ K \notin Workers /\ Workers \subseteq Threads
      /\ K \notin Clients /\ Clients \subseteq Threads /\ \A c \in Clients : c \notin Workers
      /\ Functions /\ Rotating' /\ Resting
      /\ round \in 1 .. Len(RootOf) /\ Len(RootOf) \in Nat /\ RootOf[round] \in Roots
  BY Machines, CoordinateRotates, RoundAssumption DEF Rotating, Fitting, Counters
<1>1. UNCHANGED <<store, got, before, uploads, fresh>>
  BY DEF Coordinate, SendDbRoot, DbRootDone, TellRoot, TellStart, StartWorkers, Join, TellStop,
         TellEnd, others, working, vars, Send, Await, Receive, Reply
<1>2. todo' \in [Workers -> Seq(Records)]
  BY RoundAssumption DEF Coordinate, SendDbRoot, DbRootDone, TellRoot, TellStart,
     StartWorkers, Join, TellStop, TellEnd
<1>3. \A c \in Clients : step'[c] = step[c]
  BY <1>0 DEF Functions, Coordinate, SendDbRoot, DbRootDone, TellRoot, TellStart,
              StartWorkers, Join, TellStop, TellEnd, Tell, Send, Await, GoTo
<1>4. /\ DOMAIN key_handle' = Clients
      /\ \A c \in Clients : key_handle'[c] = key_handle[c] \/ key_handle'[c] \in Roots
      /\ key_handle' \in [Clients -> Roots \cup {NoRoot}]
  <2>1. CASE TellRoot
    BY <1>0, <2>1 DEF TellRoot
  <2>2. CASE ~TellRoot
    BY <2>2 DEF Coordinate, SendDbRoot, DbRootDone, TellStart, StartWorkers, Join, TellStop,
                TellEnd
  <2> QED
    BY <2>1, <2>2
<1>5. \A c \in Clients : ClientTyped(c)'
  BY <1>1, <1>3, <1>4 DEF ClientTyped
<1>6. round' = round \/ (round # Len(RootOf) /\ round' = round + 1)
  BY <1>0 DEF Functions, Coordinate, SendDbRoot, DbRootDone, TellRoot, TellStart, StartWorkers,
              Join, TellStop, TellEnd, rounds, Tell, GoTo
<1>7. left' \subseteq Clients
  BY DEF Counters, Coordinate, SendDbRoot, DbRootDone, TellRoot, TellStart, StartWorkers,
         Join, TellStop, TellEnd, rounds, Tell
<1>8. run_workload' \subseteq Clients
  BY DEF Counters, Coordinate, SendDbRoot, DbRootDone, TellRoot, TellStart, StartWorkers,
         Join, TellStop, TellEnd, rounds, Told
<1>9. Counters'
  <2>1. at_start' \in [Records -> Header]
    <3>1. CASE UNCHANGED at_start
      BY <3>1 DEF Counters
    <3>2. CASE at_start' = [r \in Records |-> store[r].header]
      BY <3>2 DEF Stored
    <3> QED
      BY <3>1, <3>2 DEF Coordinate, SendDbRoot, DbRootDone, TellRoot, TellStart, StartWorkers,
         Join, TellStop, TellEnd, others, rounds, history
  <2>2. refused' \subseteq Records
    BY DEF Counters, Coordinate, SendDbRoot, DbRootDone, TellRoot, TellStart, StartWorkers,
       Join, TellStop, TellEnd, others, rounds, history
  <2> QED
    BY <1>0, <1>1, <1>6, <1>7, <1>8, <2>1, <2>2 DEF Counters
<1>10. ASSUME SendDbRoot \/ DbRootDone
       PROVE  /\ \A w \in Workers : WorkerTyped(w)'
              /\ \A m \in Threads : ThreadTyped(m)'
  <2>1. \A m \in Threads : m # K => UNCHANGED <<step[m], snap[m], serving[m], phase[m]>>
    BY <1>0, <1>10 DEF Functions, SendDbRoot, DbRootDone, others, working, Send, Await, Receive,
                       Reply, GoTo
  <2>2. \A w \in Workers : WorkerTyped(w)'
    BY <1>0, <1>1, <2>1 DEF WorkerTyped
  <2>3. ASSUME SendDbRoot PROVE ThreadTyped(K)'
    <3>1. PICK root \in {RootOf[round], StrayRoot} :
             Send(K, "db_root", "awaiting_db", [cmd |-> "ROOTKEY", root |-> root])
      BY <2>3 DEF SendDbRoot
    <3>2. root \in Roots
      BY RoundAssumption DEF Counters
    <3>3. /\ serving'[K] = [cmd |-> "ROOTKEY", root |-> root]
          /\ phase'[K] = "received" /\ step'[K] = "awaiting_db"
      BY <1>0, <3>1 DEF Functions, Send, Receive, GoTo
    <3>4. serving'[K] \in MachineRequests
      BY <3>2, <3>3 DEF MachineRequests
    <3> QED
      BY <3>3, <3>4 DEF ThreadTyped, Waiting
  <2>4. ASSUME DbRootDone PROVE ThreadTyped(K)'
    BY <1>0, <2>4 DEF Functions, DbRootDone, Await, Reply, GoTo, ThreadTyped, Waiting
  <2> QED
    BY <1>10, <2>1, <2>2, <2>3, <2>4 DEF ThreadTyped
<1>11. ASSUME TellRoot \/ TellStart \/ TellStop \/ TellEnd
       PROVE  /\ \A w \in Workers : WorkerTyped(w)'
              /\ \A m \in Threads : ThreadTyped(m)'
  <2>1. UNCHANGED <<snap, serving, phase>>
    BY <1>11 DEF TellRoot, TellStart, TellStop, TellEnd, others, working, vars
  <2>2. /\ \A m \in Threads : m # K => step'[m] = step[m]
        /\ step[K] \notin Waiting /\ step'[K] \notin Waiting
    BY <1>0, <1>11 DEF Functions, TellRoot, TellStart, TellStop, TellEnd, Tell, GoTo, Waiting
  <2>3. \A w \in Workers : WorkerTyped(w)'
    BY <1>0, <1>1, <2>1, <2>2 DEF WorkerTyped
  <2> QED
    BY <2>1, <2>2, <2>3 DEF ThreadTyped
<1>12. ASSUME StartWorkers \/ Join
       PROVE  /\ \A w \in Workers : WorkerTyped(w)'
              /\ \A m \in Threads : ThreadTyped(m)'
  <2>1. UNCHANGED <<snap, serving, phase>>
    BY <1>12 DEF StartWorkers, Join, vars
  <2>2. /\ \A w \in Workers : step[w] \in {"idle", "done"} /\ step'[w] \in {"idle", "working"}
        /\ step[K] \notin Waiting /\ step'[K] \notin Waiting
        /\ \A m \in Threads \ (Workers \cup {K}) : step'[m] = step[m]
    BY <1>0, <1>12 DEF StartWorkers, Join, AllDone, Resting, Waiting
  <2>3. \A w \in Workers : WorkerTyped(w)'
    BY <1>1, <2>2 DEF WorkerTyped
  <2>4. \A m \in Threads : step'[m] \in Waiting <=> step[m] \in Waiting
    BY <2>2 DEF Waiting
  <2> QED
    BY <2>1, <2>3, <2>4 DEF ThreadTyped
<1>13. (\A w \in Workers : WorkerTyped(w)') /\ \A m \in Threads : ThreadTyped(m)'
  BY <1>10, <1>11, <1>12 DEF Coordinate
<1> QED
  BY <1>0, <1>1, <1>2, <1>4, <1>5, <1>9, <1>13

LEMMA AlwaysTyped == ASSUME Gens = Nat PROVE KRSpec => []Typed
<1>1. Typed /\ [KRNext]_allvars => Typed'
  <2> SUFFICES ASSUME Typed, [KRNext]_allvars PROVE Typed'
    OBVIOUS
  <2>1. CASE UNCHANGED allvars
    <3> USE <2>1 DEF allvars, vars, machines, rounds, history
    <3>1. Rotating'
      BY NextRotating DEF Typed
    <3> QED
      BY <3>1 DEF Typed, Counters, ClientTyped, WorkerTyped, ThreadTyped
  <2> QED
    BY <2>1, ClientTypes, WorkerTypes, CoordinateTypes, ServeTypes DEF KRNext
<1> QED
  BY <1>1, InitTyped, PTL DEF KRSpec

\* For any number of machines, records and uploads: every variable keeps its
\* type, and no reply is outstanding but to the step that waits for it.  The
\* generations, which stand for random draws, must not run out.
THEOREM KRAlwaysTypeOK == ASSUME Gens = Nat PROVE KRSpec => []KRTypeOK
<1>1. Typed => KRTypeOK
  BY DEF Typed, Counters, ThreadTyped, KRTypeOK, Stored, Waiting
<1> QED
  BY <1>1, AlwaysTyped, PTL

\* What the machines do to the server is what RecordStore lets its users do, and
\* every request they send has the form that the server's model provides for
\* (SimpleServer's Requests): in particular no client wraps a DEK before it has a
\* root key, and no worker makes a token but of a header that it has read.  With
\* the refinement of RecordStore by SimpleServer, the machines may be put over
\* the server as it is.
THEOREM MachinesUseTheServer ==
    ASSUME Gens = Nat, MachineRequests \subseteq Requests
    PROVE  KRSpec => Spec
<1>1. KRInit => Init
  BY DEF KRInit
<1>2. ASSUME Typed, Typed', [KRNext]_allvars PROVE [Next]_vars
  <2>1. ASSUME NEW m \in Threads, NEW from, NEW to, NEW q,
               Send(m, from, to, q), to \in Waiting
        PROVE  Next
    <3>1. Functions /\ Receive(m, q) /\ step'[m] = to
      BY <1>2, <2>1 DEF Typed, Rotating, Fitting, Functions, Send, GoTo
    <3>2. serving'[m] = q /\ phase'[m] # "idle"
      BY <3>1 DEF Functions, Receive
    <3>3. q \in MachineRequests
      BY <1>2, <3>2 DEF Typed, ThreadTyped
    <3> QED
      BY <3>1, <3>3 DEF Next
  <2>2. ASSUME NEW m \in Threads, NEW from, NEW to, Await(m, from, to) PROVE Next
    BY <2>2 DEF Await, Next
  <2>3. ASSUME NEW c \in Clients, Client(c) PROVE [Next]_vars
    <3>1. c \in Threads
      BY Machines
    <3>2. CASE ClientDownload(c) \/ ClientUpload(c)
      BY <2>1, <3>1, <3>2 DEF ClientDownload, ClientUpload, Waiting
    <3>3. CASE ClientReceive(c) \/ ClientUploaded(c)
      BY <2>2, <3>1, <3>3 DEF ClientReceive, ClientUploaded
    <3>4. CASE \/ ClientBoot(c) \/ ClientLoop(c) \/ ClientDecrypt(c)
               \/ \E m \in Messages : ClientEncrypt(c, m)
      BY <3>4 DEF ClientBoot, ClientLoop, ClientDecrypt, ClientEncrypt
    <3> QED
      BY <2>3, <3>2, <3>3, <3>4 DEF Client
  <2>4. ASSUME NEW w \in Workers, Worker(w) PROVE [Next]_vars
    <3>1. w \in Threads
      BY Machines
    <3>2. CASE \/ WorkerDownload(w, "working", "awaiting_before")
               \/ WorkerDownload(w, "updated", "awaiting_after")
      BY <2>1, <3>1, <3>2 DEF WorkerDownload, Waiting
    <3>3. CASE UpdateDownload(w) \/ UpdateSend(w)
      BY <2>1, <3>1, <3>3 DEF UpdateDownload, UpdateSend, Waiting
    <3>4. CASE \/ WorkerReceive(w, "awaiting_before", "unwrapping_before")
               \/ WorkerReceive(w, "awaiting_header", "have_header")
               \/ WorkerReceive(w, "awaiting_after", "unwrapping_after")
               \/ UpdateReply(w)
      BY <2>2, <3>1, <3>4 DEF WorkerReceive, UpdateReply
    <3>5. CASE DecryptBefore(w) \/ UpdateGivesUp(w) \/ CompareAfter(w) \/ WorkerDone(w)
      BY <3>5 DEF DecryptBefore, UpdateGivesUp, CompareAfter, WorkerDone
    <3> QED
      BY <2>4, <3>2, <3>3, <3>4, <3>5 DEF Worker
  <2>5. ASSUME Coordinate PROVE [Next]_vars
    <3>1. K \in Threads
      BY Machines DEF K
    <3>2. CASE SendDbRoot
      BY <2>1, <3>1, <3>2 DEF SendDbRoot, Waiting
    <3>3. CASE DbRootDone
      BY <2>2, <3>1, <3>3 DEF DbRootDone
    <3>4. CASE TellRoot \/ TellStart \/ StartWorkers \/ Join \/ TellStop \/ TellEnd
      BY <3>4 DEF TellRoot, TellStart, StartWorkers, Join, TellStop, TellEnd
    <3> QED
      BY <2>5, <3>2, <3>3, <3>4 DEF Coordinate
  <2>6. ASSUME NEW m \in Threads, Serve(m) PROVE [Next]_vars
    BY <2>6 DEF Serve, Next
  <2>7. CASE UNCHANGED allvars
    BY <2>7 DEF allvars
  <2> QED
    BY <1>2, <2>3, <2>4, <2>5, <2>6, <2>7 DEF KRNext
<1> QED
  BY <1>1, <1>2, AlwaysTyped, PTL DEF KRSpec, Spec
=============================================================================
