-------------------------- MODULE KeyRotationApart_proofs -------------------------
(***************************************************************************)
(* That rotation leaves the records readable, when no record is on the     *)
(* lists of two workers and none that is on a list is uploaded meanwhile.  *)
(* Then nothing a worker has read of its record changes but by its own     *)
(* update, whose token so fits the payload it is applied to.               *)
(***************************************************************************)
EXTENDS KeyRotation_proofs

Apart ==
    /\ \A v, w \in Workers : v # w =>
          \A m \in DOMAIN Assigned[v] : \A n \in DOMAIN Assigned[w] :
              Assigned[v][m] # Assigned[w][n]
    /\ MaxUploads = 0 \/ \A c \in Clients : Uses[c] \notin AssignedRecords

Readable(rec) == Opens(rec) /\ rec.data.msg \in Messages

ListedOwn ==
    \A w \in Workers : \A n \in DOMAIN todo[w] :
        \E k \in DOMAIN Assigned[w] : todo[w][n] = Assigned[w][k]

UploadsReadable ==
    /\ uploads \in Nat
    /\ \A c \in Clients : step[c] = "wrapped" => MaxUploads # 0 /\ Readable(got[c])

\* Who sends what: SETALL a client for its record, UP_UPDATE a worker.
RequestFrom(m) ==
    \/ serving[m].cmd \in {"GETALL", "ROOTKEY"}
    \/ /\ serving[m].cmd = "SETALL" /\ m \in Clients /\ serving[m].rec = Uses[m]
       /\ MaxUploads # 0 /\ Readable(serving[m])
    \/ serving[m].cmd = "UP_UPDATE" /\ m \in Workers /\ step[m] = "updating"
RequestsFrom == \A m \in Threads : phase[m] = "idle" \/ RequestFrom(m)

Whole == {"wrap", "header", "data", "root_version"}
Sealed == {"wrap", "header", "root_version"}
Same(w, v, fields) == \A f \in fields : v[f] = store[Head(todo[w])][f]
Reading(w, fields) ==
    /\ serving[w].cmd = "GETALL" /\ serving[w].rec = Head(todo[w])
    /\ fields \subseteq Asked(serving[w])
    /\ phase[w] = "answered" => Same(w, snap[w], fields)
Reencrypting(w) ==
    LET q == serving[w]
        rec == store[Head(todo[w])]
    IN  /\ q.delta.old = rec.header
        /\ q.wrap.root = rec.root_version

\* What worker w has read of its record is what the record holds.
Exact(w) ==
    /\ step[w] \in {"awaiting_before", "awaiting_after"} => Reading(w, Whole)
    /\ step[w] = "awaiting_header" => Reading(w, Sealed)
    /\ step[w] \in {"unwrapping_before", "unwrapping_after"} => Same(w, got[w], Whole)
    /\ step[w] = "have_header" => Same(w, got[w], Sealed)
    /\ step[w] = "updating" /\ phase[w] \in {"received", "taken"} => Reencrypting(w)
    /\ step[w] \in {"reading_header", "awaiting_header", "have_header", "updating",
                    "updated", "awaiting_after", "unwrapping_after"} =>
          before[w] = store[Head(todo[w])].data.msg

Keeping ==
    /\ Rotating
    /\ DOMAIN before = Workers
    /\ \A r \in Records : Readable(store[r])
    /\ ListedOwn /\ UploadsReadable /\ RequestsFrom
    /\ \A w \in Workers : Exact(w)
-----------------------------------------------------------------------------
LEMMA InitKeeping == KRInit => Keeping
<1> SUFFICES ASSUME KRInit PROVE Keeping
  OBVIOUS
<1>1. \A w \in Workers : step[w] = "idle"
  BY Machines DEF KRInit, K
<1>2. \A c \in Clients : step[c] = "booting"
  BY Machines DEF KRInit, K
<1>3. \A r \in Records : Readable(store[r])
  BY DEF KRInit, Init, Populated, Encrypted, Readable, Opens
<1>4. ListedOwn
  <2>1. DOMAIN << >> = {}
    OBVIOUS
  <2> QED
    BY <2>1 DEF KRInit, ListedOwn
<1>5. UploadsReadable /\ RequestsFrom
  BY <1>2 DEF KRInit, Init, UploadsReadable, RequestsFrom
<1>6. \A w \in Workers : Exact(w)
  BY <1>1 DEF Exact
<1> QED
  BY <1>3, <1>4, <1>5, <1>6, InitRotating DEF Keeping, KRInit

\* The records that two workers are at differ, and clients upload neither.
LEMMA HeadOwn ==
    ASSUME Listed, ListedOwn, NEW w \in Workers, todo[w] # << >>
    PROVE  \E k \in DOMAIN Assigned[w] : Head(todo[w]) = Assigned[w][k]
<1>1. 1 \in DOMAIN todo[w] /\ Head(todo[w]) = todo[w][1]
  BY DEF Listed
<1> QED
  BY <1>1 DEF ListedOwn

LEMMA HeadsApart ==
    ASSUME Apart, Listed, ListedOwn,
           NEW v \in Workers, NEW w \in Workers, v # w, todo[v] # << >>, todo[w] # << >>
    PROVE  Head(todo[v]) # Head(todo[w])
BY HeadOwn DEF Apart

LEMMA KeepExact ==
    ASSUME NEW w \in Workers, Exact(w), HeadUnchanged(w), before'[w] = before[w],
           step[w] \in {"idle", "working", "done"} \/
               store'[Head(todo[w])] = store[Head(todo[w])]
    PROVE  Exact(w)'
<1> USE DEF HeadUnchanged
<1>1. CASE step[w] \in {"idle", "working", "done"}
  BY <1>1 DEF Exact
<1>2. CASE store'[Head(todo[w])] = store[Head(todo[w])]
  <2>1. /\ Reading(w, Whole)' = Reading(w, Whole)
        /\ Reading(w, Sealed)' = Reading(w, Sealed)
        /\ Same(w, got[w], Whole)' = Same(w, got[w], Whole)
        /\ Same(w, got[w], Sealed)' = Same(w, got[w], Sealed)
        /\ Reencrypting(w)' = Reencrypting(w)
    BY <1>2 DEF Reading, Same, Reencrypting, Whole, Sealed
  <2> QED
    BY <1>2, <2>1 DEF Exact
<1> QED
  BY <1>1, <1>2
-----------------------------------------------------------------------------
\* An update installs its layer over the payload whose key its token carries.
LEMMA ServeReadable ==
    ASSUME Keeping, NEW m \in Threads, Serve(m)
    PROVE  /\ \A r \in Records : Readable(store'[r])
           /\ Update(m) => /\ m \in Workers /\ step[m] = "updating" /\ todo[m] # << >>
                           /\ serving[m].rec = Head(todo[m])
                           /\ \A r \in Records : store'[r].data.msg = store[r].data.msg
           /\ Upload(m) => m \in Clients /\ serving[m].rec = Uses[m] /\ MaxUploads # 0
<1> USE DEF Keeping, Rotating, Fitting
<1> DEFINE q == serving[m]
<1>0. DOMAIN store = Records /\ \A r \in Records : DOMAIN store[r] = FieldNames
  BY DEF RecordsFit
<1>1. CASE Upload(m)
  <2>1. phase[m] = "vetted" /\ store' = [store EXCEPT ![q.rec] = Uploaded(q, @)]
    BY <1>1 DEF Upload
  <2>2. q.cmd = "SETALL"
    BY <2>1 DEF RequestsFit, RequestFits
  <2>3. m \in Clients /\ q.rec = Uses[m] /\ MaxUploads # 0 /\ Readable(q)
    BY <2>1, <2>2 DEF RequestsFrom, RequestFrom
  <2>4. Readable(Uploaded(q, store[q.rec]))
    BY <2>3 DEF Readable, Opens, Uploaded
  <2>5. \A r \in Records : Readable(store'[r])
    BY <1>0, <2>1, <2>4
  <2>6. ~Update(m)
    BY <2>1 DEF Update
  <2> QED
    BY <2>3, <2>5, <2>6
<1>2. CASE Update(m)
  <2>1. phase[m] = "taken" /\ store' = [store EXCEPT ![q.rec] = Updated(q, @)]
    BY <1>2 DEF Update
  <2>2. q.cmd = "UP_UPDATE" /\ q.wrap.gen = q.delta.new
    BY <2>1 DEF RequestsFit, RequestFits
  <2>3. m \in Workers /\ step[m] = "updating"
    BY <2>1, <2>2 DEF RequestsFrom, RequestFrom
  <2>4. todo[m] # << >> /\ q.rec = Head(todo[m])
    BY <2>3 DEF Progress
  <2>5. q.rec \in Records
    BY <2>3, <2>4, HeadAssigned
  <2>6. q.delta.old = store[q.rec].header /\ q.wrap.root = store[q.rec].root_version
    BY <2>1, <2>3, <2>4 DEF Exact, Reencrypting
  <2>7. /\ store[q.rec].header = store[q.rec].data.gen
        /\ store[q.rec].data.msg \in Messages
    BY <2>5 DEF Readable, Opens
  <2>8. /\ Updated(q, store[q.rec]).wrap = q.wrap
        /\ Updated(q, store[q.rec]).header = q.delta.new
        /\ Updated(q, store[q.rec]).root_version = store[q.rec].root_version
        /\ Updated(q, store[q.rec]).data = ReEncryptedData(q.delta, store[q.rec].data)
    BY <1>0, <2>5 DEF Updated, ReEncryptedHeader, FieldNames
  <2>9. ReEncryptedData(q.delta, store[q.rec].data) =
            [gen |-> q.delta.new, msg |-> store[q.rec].data.msg]
    BY <2>6, <2>7 DEF ReEncryptedData
  <2>10. store'[q.rec] = Updated(q, store[q.rec])
    BY <1>0, <2>1, <2>5
  <2>11. Readable(store'[q.rec]) /\ store'[q.rec].data.msg = store[q.rec].data.msg
    BY <2>2, <2>6, <2>7, <2>8, <2>9, <2>10 DEF Readable, Opens
  <2>12. \A r \in Records : r # q.rec => store'[r] = store[r]
    BY <1>0, <2>1
  <2>13. ~Upload(m)
    BY <2>1 DEF Upload
  <2> QED
    BY <2>3, <2>4, <2>11, <2>12, <2>13
<1>3. CASE Download(m) \/ Vet(m) \/ Take(m) \/ Conflict(m) \/ SwitchRoot(m)
  <2>1. UNCHANGED store /\ phase[m] # "vetted"
    BY <1>3 DEF Download, Vet, Take, Conflict, SwitchRoot
  <2>2. ~Upload(m)
    BY <2>1 DEF Upload
  <2>3. CASE Update(m)
    BY <1>2, <2>3
  <2> QED
    BY <2>1, <2>2, <2>3
<1> QED
  BY <1>1, <1>2, <1>3 DEF Serve

LEMMA ServeKeeps == ASSUME Apart, Keeping, NEW m \in Threads, Serve(m) PROVE Keeping'
<1> USE DEF Keeping, Rotating
<1>0. Rotating' /\ UNCHANGED <<machines, rounds>> /\ Functions /\ RecordsFit
  BY ServeRotates DEF Serve, Fitting
<1>1. /\ DOMAIN before' = Workers /\ ListedOwn' /\ UploadsReadable'
      /\ \A r \in Records : Readable(store[r])'
  BY <1>0, ServeReadable DEF machines, ListedOwn, UploadsReadable
<1>2. RequestsFrom'
  <2>1. UNCHANGED <<serving, step>> /\ \A n \in Threads : n # m => phase'[n] = phase[n]
    BY <1>0 DEF Functions, machines, Serve, Download, Vet, Upload, Take, Update, Conflict,
                SwitchRoot, Answer
  <2>2. phase[m] # "idle"
    BY DEF Serve, Download, Vet, Upload, Take, Update, Conflict, SwitchRoot
  <2> QED
    BY <2>1, <2>2 DEF RequestsFrom, RequestFrom
<1>3. ASSUME NEW w \in Workers PROVE Exact(w)'
  <2>0. Workers \subseteq Threads /\ w \in Threads /\ \A c \in Clients : c \notin Workers
    BY Machines
  <2>1. UNCHANGED <<todo[w], step[w], got[w], before[w], serving[w], round>>
    BY <1>0 DEF machines, rounds, Serve, Download, Vet, Upload, Take, Update, Conflict,
                SwitchRoot
  <2>2. CASE m # w
    <3>1. UNCHANGED <<snap[w], phase[w]>>
      BY <1>0, <2>0, <2>2 DEF Functions, Serve, Download, Vet, Upload, Take, Update,
                              Conflict, SwitchRoot, Answer
    <3>2. CASE step[w] \in {"idle", "working", "done"}
      BY <2>1, <3>1, <3>2, KeepExact DEF HeadUnchanged
    <3>3. CASE step[w] \notin {"idle", "working", "done"}
      <4>1. todo[w] # << >>
        BY <3>3 DEF Progress
      <4>2. Head(todo[w]) \in AssignedRecords /\ Head(todo[w]) \in Records
        BY <4>1, HeadAssigned
      <4>3. store'[Head(todo[w])] = store[Head(todo[w])]
        <5>1. CASE Upload(m)
          <6>1. serving[m].rec # Head(todo[w])
            BY <4>2, <5>1, ServeReadable DEF Apart
          <6> QED
            BY <5>1, <6>1, <4>2 DEF Upload, RecordsFit
        <5>2. CASE Update(m)
          <6>1. serving[m].rec # Head(todo[w])
            BY <2>2, <4>1, <5>2, ServeReadable, HeadsApart
          <6> QED
            BY <5>2, <6>1, <4>2 DEF Update, RecordsFit
        <5>3. CASE Download(m) \/ Vet(m) \/ Take(m) \/ Conflict(m) \/ SwitchRoot(m)
          BY <5>3 DEF Download, Vet, Take, Conflict, SwitchRoot
        <5> QED
          BY <5>1, <5>2, <5>3 DEF Serve
      <4> QED
        BY <2>1, <3>1, <4>3, KeepExact DEF HeadUnchanged
    <3> QED
      BY <3>2, <3>3
  <2>3. CASE m = w
    <3> USE <2>3
    <3>1. phase[w] # "idle" /\ RequestFrom(w) /\ RequestFits(serving[w], phase[w])
      BY <2>0 DEF RequestsFrom, RequestsFit, Fitting, Serve, Download, Vet, Upload, Take,
                  Update, Conflict, SwitchRoot
    <3>2. CASE Download(w)
      <4>1. /\ UNCHANGED store /\ serving[w].cmd = "GETALL" /\ phase'[w] = "answered"
            /\ snap'[w] = Part(store[serving[w].rec], Asked(serving[w]))
        BY <1>0, <2>0, <3>2 DEF Download, Answer, Functions
      <4>2. step[w] # "updating"
        BY <4>1 DEF Progress
      <4>3. Reading(w, Whole) => Reading(w, Whole)'
        BY <2>1, <4>1 DEF Reading, Same, Part
      <4>4. Reading(w, Sealed) => Reading(w, Sealed)'
        BY <2>1, <4>1 DEF Reading, Same, Part
      <4>5. /\ Same(w, got[w], Whole)' = Same(w, got[w], Whole)
            /\ Same(w, got[w], Sealed)' = Same(w, got[w], Sealed)
        BY <2>1, <4>1 DEF Same
      <4> QED
        BY <2>1, <4>1, <4>2, <4>3, <4>4, <4>5 DEF Exact
    <3>3. CASE Vet(w) \/ Upload(w) \/ SwitchRoot(w)
      <4>1. serving[w].cmd \in {"SETALL", "ROOTKEY"}
        BY <3>1, <3>3 DEF Vet, Upload, SwitchRoot, RequestFits
      <4>2. ~Upload(w)
        BY <2>0, ServeReadable
      <4>3. UNCHANGED <<store, snap>>
        BY <3>3, <4>2 DEF Vet, SwitchRoot
      <4>4. step[w] \notin {"awaiting_before", "awaiting_after", "awaiting_header", "updating"}
        BY <4>1 DEF Exact, Reading, Progress
      <4>5. /\ Same(w, got[w], Whole)' = Same(w, got[w], Whole)
            /\ Same(w, got[w], Sealed)' = Same(w, got[w], Sealed)
        BY <2>1, <4>3 DEF Same
      <4> QED
        BY <2>1, <4>3, <4>4, <4>5 DEF Exact
    <3>4. CASE Take(w) \/ Conflict(w)
      <4>1. UNCHANGED store /\ serving[w].cmd = "UP_UPDATE"
        BY <3>1, <3>4 DEF Take, Conflict, RequestFits
      <4>2. step[w] = "updating" /\ phase[w] \in {"received", "taken"}
        BY <3>1, <3>4, <4>1 DEF RequestFrom, Take, Conflict
      <4>3. Reencrypting(w)' = Reencrypting(w)
        BY <2>1, <4>1 DEF Reencrypting
      <4> QED
        BY <2>1, <4>1, <4>2, <4>3 DEF Exact
    <3>5. CASE Update(w)
      <4>1. /\ step[w] = "updating" /\ todo[w] # << >>
            /\ \A r \in Records : store'[r].data.msg = store[r].data.msg
        BY <3>5, ServeReadable
      <4>2. Head(todo[w]) \in Records
        BY <4>1, HeadAssigned
      <4>3. phase'[w] = "answered"
        BY <1>0, <2>0, <3>5 DEF Update, Answer, Functions
      <4> QED
        BY <2>1, <4>1, <4>2, <4>3 DEF Exact
    <3> QED
      BY <3>2, <3>3, <3>4, <3>5 DEF Serve
  <2> QED
    BY <2>2, <2>3
<1> QED
  BY <1>0, <1>1, <1>2, <1>3
-----------------------------------------------------------------------------
ClientOwn(c) ==
    /\ uploads \in Nat
    /\ step[c] = "wrapped" => MaxUploads # 0 /\ Readable(got[c])
    /\ phase[c] = "idle" \/ RequestFrom(c)

LEMMA ClientKeeps == ASSUME Keeping, NEW c \in Clients, Client(c) PROVE Keeping'
<1> USE DEF Keeping
<1>0. c \in Threads /\ c \notin Workers /\ Workers \subseteq Threads /\ Clients \subseteq Threads
      /\ Functions /\ Rotating'
  BY Machines, ClientRotates DEF Rotating, Fitting
<1>1. UNCHANGED <<store, todo, round, before>> /\ OthersUnchanged(c)
  BY <1>0, ClientAside
<1>2. /\ DOMAIN before' = Workers /\ ListedOwn' /\ \A r \in Records : Readable(store[r])'
  BY <1>1 DEF ListedOwn
<1>3. \A w \in Workers : Exact(w)'
  BY <1>0, <1>1, KeepExact DEF HeadUnchanged, OthersUnchanged
<1>4. \A d \in Clients : d # c => step'[d] = step[d] /\ got'[d] = got[d]
  BY <1>0, <1>1 DEF OthersUnchanged
<1>5. \A m \in Threads : m # c => (phase'[m] = "idle" \/ RequestFrom(m)')
  BY <1>1 DEF RequestsFrom, RequestFrom, OthersUnchanged
<1>6. ASSUME ClientBoot(c) \/ ClientLoop(c) \/ ClientDecrypt(c) PROVE ClientOwn(c)'
  BY <1>0, <1>6 DEF ClientOwn, ClientBoot, ClientLoop, ClientDecrypt, GoTo, vars, UploadsReadable,
                    RequestsFrom, RequestFrom, Functions
<1>7. ASSUME ClientDownload(c) PROVE ClientOwn(c)'
  BY <1>0, <1>7 DEF ClientOwn, ClientDownload, Send, Receive, GoTo, UploadsReadable, RequestFrom,
                    Functions, Getall
<1>8. ASSUME ClientReceive(c) \/ ClientUploaded(c) PROVE ClientOwn(c)'
  BY <1>0, <1>8 DEF ClientOwn, ClientReceive, ClientUploaded, Await, Reply, GoTo, UploadsReadable,
                    Functions
<1>9. ASSUME NEW m \in Messages, ClientEncrypt(c, m) PROVE ClientOwn(c)'
  <2> USE <1>9 DEF ClientEncrypt, GoTo, UploadsReadable
  <2>1. uploads' \in Nat /\ MaxUploads # 0
    BY RoundAssumption
  <2>2. Readable(got'[c])
    BY <1>0 DEF Functions, Readable, Opens, Encrypted
  <2>3. phase'[c] = "idle" \/ RequestFrom(c)'
    BY <1>0 DEF RequestsFrom, RequestFrom, vars
  <2> QED
    BY <2>1, <2>2, <2>3 DEF ClientOwn
<1>10. ASSUME ClientUpload(c) PROVE ClientOwn(c)'
  <2> USE <1>10 DEF ClientUpload, Send, Receive, GoTo, UploadsReadable
  <2>1. MaxUploads # 0 /\ Readable(got[c]) /\ step'[c] = "uploading" /\ uploads' \in Nat
    BY <1>0 DEF Functions
  <2>2. serving'[c] = [cmd |-> "SETALL", rec |-> Uses[c], wrap |-> got[c].wrap,
                       header |-> got[c].header, data |-> got[c].data,
                       root_version |-> got[c].root_version]
    BY <1>0 DEF Functions
  <2>3. RequestFrom(c)'
    BY <2>1, <2>2 DEF RequestFrom, Readable, Opens
  <2> QED
    BY <2>1, <2>3 DEF ClientOwn
<1>11. ClientOwn(c)'
  BY <1>6, <1>7, <1>8, <1>9, <1>10 DEF Client
<1>12. UploadsReadable' /\ RequestsFrom'
  BY <1>4, <1>5, <1>11 DEF ClientOwn, UploadsReadable, RequestsFrom
<1> QED
  BY <1>0, <1>2, <1>3, <1>12

\* What is left of the list of a worker is on the list it was assigned.
LEMMA TailOwn ==
    ASSUME ListedOwn, NEW w \in Workers, todo[w] \in Seq(Records), todo[w] # << >>
    PROVE  \A n \in DOMAIN Tail(todo[w]) :
               \E k \in DOMAIN Assigned[w] : Tail(todo[w])[n] = Assigned[w][k]
<1>1. /\ Len(todo[w]) \in Nat \ {0} /\ DOMAIN todo[w] = 1 .. Len(todo[w])
      /\ DOMAIN Tail(todo[w]) = 1 .. Len(todo[w]) - 1
      /\ \A n \in 1 .. Len(todo[w]) - 1 : Tail(todo[w])[n] = todo[w][n + 1]
  OBVIOUS
<1>2. \A n \in DOMAIN Tail(todo[w]) : n + 1 \in DOMAIN todo[w]
  BY <1>1
<1> QED
  BY <1>1, <1>2 DEF ListedOwn

WorkerOwn(w) ==
    /\ \A n \in DOMAIN todo[w] : \E k \in DOMAIN Assigned[w] : todo[w][n] = Assigned[w][k]
    /\ phase[w] = "idle" \/ RequestFrom(w)
    /\ Exact(w)

LEMMA WorkerKeeps == ASSUME Keeping, NEW w \in Workers, Worker(w) PROVE Keeping'
<1> USE DEF Keeping
<1>0. /\ w \in Threads /\ Workers \subseteq Threads /\ Clients \subseteq Threads
      /\ \A c \in Clients : c # w
      /\ Functions /\ Rotating /\ Rotating' /\ Progress(w) /\ Listed
  BY Machines, WorkerRotates DEF Rotating, Fitting
<1>1. /\ UNCHANGED <<store, round, uploads>> /\ OthersUnchanged(w)
      /\ DOMAIN before' = Workers
      /\ \A v \in Workers : v # w => todo'[v] = todo[v] /\ before'[v] = before[v]
  BY <1>0, WorkerAside
<1>2. UploadsReadable' /\ \A r \in Records : Readable(store[r])'
  BY <1>0, <1>1 DEF UploadsReadable, OthersUnchanged
<1>3. \A v \in Workers : v # w => Exact(v)'
  BY <1>0, <1>1, KeepExact DEF HeadUnchanged, OthersUnchanged
<1>4. \A m \in Threads : m # w => (phase'[m] = "idle" \/ RequestFrom(m)')
  BY <1>1 DEF RequestsFrom, RequestFrom, OthersUnchanged
<1> USE DEF WorkerOwn
<1>5. ASSUME NEW from, NEW to, to \in {"awaiting_before", "awaiting_after"},
             from \in {"working", "updated"}, WorkerDownload(w, from, to),
             to = "awaiting_after" => from = "updated"
      PROVE  WorkerOwn(w)'
  <2> USE <1>5 DEF WorkerDownload, Send, Receive, GoTo
  <2>1. step'[w] = to /\ phase'[w] = "received" /\ UNCHANGED <<todo, before>> /\ step[w] = from
    BY <1>0 DEF Functions
  <2>2. serving'[w] = Getall(Head(todo[w]), WholeRecord)
    BY <1>0 DEF Functions
  <2>3. Reading(w, Whole)' /\ RequestFrom(w)'
    BY <2>1, <2>2 DEF Reading, Whole, Getall, Asked, WholeRecord, RequestFrom
  <2> QED
    BY <1>1, <2>1, <2>3 DEF Exact, ListedOwn
<1>6. ASSUME NEW from, NEW to, WorkerReceive(w, from, to),
             \/ from = "awaiting_before" /\ to = "unwrapping_before"
             \/ from = "awaiting_header" /\ to = "have_header"
             \/ from = "awaiting_after" /\ to = "unwrapping_after"
      PROVE  WorkerOwn(w)'
  <2> USE <1>6 DEF WorkerReceive, Await, Reply, GoTo, Keep
  <2>1. /\ step'[w] = to /\ phase'[w] = "idle" /\ UNCHANGED <<todo, before>> /\ step[w] = from
        /\ got'[w] = snap[w] /\ phase[w] = "answered"
    BY <1>0 DEF Functions
  <2>2. Same(w, snap[w], Whole) => Same(w, got[w], Whole)'
    BY <1>1, <2>1 DEF Same
  <2>3. Same(w, snap[w], Sealed) => Same(w, got[w], Sealed)'
    BY <1>1, <2>1 DEF Same
  <2> QED
    BY <1>1, <2>1, <2>2, <2>3 DEF Exact, Reading, ListedOwn
<1>7. ASSUME DecryptBefore(w) PROVE WorkerOwn(w)'
  <2> USE <1>7 DEF DecryptBefore, GoTo
  <2>1. /\ step'[w] = "reading_header" /\ UNCHANGED <<todo, phase, serving>>
        /\ before'[w] = Decrypted(w) /\ step[w] = "unwrapping_before" /\ todo[w] # << >>
    BY <1>0 DEF Functions, vars, Progress
  <2>2. Same(w, got[w], Whole) /\ Readable(store[Head(todo[w])])
    BY <1>0, <2>1, HeadAssigned DEF Exact
  <2>3. Decrypted(w) = store[Head(todo[w])].data.msg
    BY <2>2 DEF Same, Whole, Readable, Opens, Decrypted
  <2> QED
    BY <1>0, <1>1, <2>1, <2>3 DEF Exact, ListedOwn, RequestsFrom, RequestFrom
<1>8. ASSUME UpdateDownload(w) PROVE WorkerOwn(w)'
  <2> USE <1>8 DEF UpdateDownload, Send, Receive, GoTo
  <2>1. /\ step'[w] = "awaiting_header" /\ phase'[w] = "received" /\ UNCHANGED <<todo, before>>
        /\ step[w] = "reading_header"
    BY <1>0 DEF Functions
  <2>2. serving'[w] = Getall(Head(todo[w]), WrapAndHeader)
    BY <1>0 DEF Functions
  <2>3. Reading(w, Sealed)' /\ RequestFrom(w)'
    BY <2>1, <2>2 DEF Reading, Sealed, Getall, Asked, WrapAndHeader, RequestFrom
  <2> QED
    BY <1>1, <2>1, <2>3 DEF Exact, ListedOwn
<1>9. ASSUME UpdateGivesUp(w) PROVE WorkerOwn(w)'
  <2> USE <1>9 DEF UpdateGivesUp, GoTo
  <2>1. /\ step'[w] = "updated" /\ UNCHANGED <<todo, before, phase, serving>>
        /\ step[w] = "have_header"
    BY <1>0 DEF Functions, vars
  <2> QED
    BY <1>0, <1>1, <2>1 DEF Exact, ListedOwn, RequestsFrom, RequestFrom
<1>10. ASSUME UpdateSend(w) PROVE WorkerOwn(w)'
  <2> USE <1>10 DEF UpdateSend, Send, Receive, GoTo
  <2>1. /\ step'[w] = "updating" /\ phase'[w] = "received" /\ UNCHANGED <<todo, before>>
        /\ step[w] = "have_header"
    BY <1>0 DEF Functions
  <2>2. serving'[w] = [cmd |-> "UP_UPDATE", rec |-> Head(todo[w]),
                       wrap |-> [root |-> got[w].root_version, gen |-> fresh],
                       delta |-> ReKeyGen(got[w].header, fresh)]
    BY <1>0 DEF Functions
  <2>3. /\ got[w].header = store[Head(todo[w])].header
        /\ got[w].root_version = store[Head(todo[w])].root_version
    BY <2>1 DEF Exact, Same, Sealed
  <2>4. Reencrypting(w)' /\ RequestFrom(w)'
    BY <1>1, <2>1, <2>2, <2>3 DEF Reencrypting, ReKeyGen, RequestFrom
  <2> QED
    BY <1>1, <2>1, <2>4 DEF Exact, ListedOwn
<1>11. ASSUME UpdateReply(w) PROVE WorkerOwn(w)'
  <2> USE <1>11 DEF UpdateReply, Await, Reply, GoTo
  <2>1. /\ step'[w] = "updated" /\ phase'[w] = "idle" /\ UNCHANGED <<todo, before>>
        /\ step[w] = "updating"
    BY <1>0 DEF Functions
  <2> QED
    BY <1>1, <2>1 DEF Exact, ListedOwn
<1>12. ASSUME CompareAfter(w) PROVE WorkerOwn(w)'
  <2> USE <1>12 DEF CompareAfter, GoTo
  <2>1. /\ step'[w] = "working" /\ todo'[w] = Tail(todo[w]) /\ UNCHANGED <<phase, serving>>
        /\ step[w] = "unwrapping_after" /\ todo[w] # << >> /\ todo[w] \in Seq(Records)
    BY <1>0 DEF Functions, vars, Progress, Listed
  <2>2. \A n \in DOMAIN Tail(todo[w]) :
            \E k \in DOMAIN Assigned[w] : Tail(todo[w])[n] = Assigned[w][k]
    BY <2>1, TailOwn
  <2>3. phase'[w] = "idle" \/ RequestFrom(w)'
    BY <1>0, <2>1 DEF RequestsFrom, RequestFrom
  <2>4. Exact(w)'
    BY <2>1 DEF Exact
  <2> QED
    BY <2>1, <2>2, <2>3, <2>4
<1>13. ASSUME WorkerDone(w) PROVE WorkerOwn(w)'
  <2> USE <1>13 DEF WorkerDone, GoTo
  <2>1. /\ step'[w] = "done" /\ UNCHANGED <<todo, phase, serving>> /\ step[w] = "working"
    BY <1>0 DEF Functions, vars
  <2> QED
    BY <1>0, <2>1 DEF Exact, ListedOwn, RequestsFrom, RequestFrom
<1>14. WorkerOwn(w)'
  BY <1>5, <1>6, <1>7, <1>8, <1>9, <1>10, <1>11, <1>12, <1>13 DEF Worker
<1>15. ListedOwn' /\ RequestsFrom' /\ \A v \in Workers : Exact(v)'
  BY <1>1, <1>3, <1>4, <1>14 DEF ListedOwn, RequestsFrom
<1> QED
  BY <1>0, <1>1, <1>2, <1>15

LEMMA CoordinateKeeps == ASSUME Keeping, Coordinate PROVE Keeping'
<1> USE DEF Keeping
<1>0. /\ K \in Threads /\ K \notin Workers /\ Workers \subseteq Threads
      /\ K \notin Clients /\ Clients \subseteq Threads /\ Workers \cap Clients = {}
      /\ Functions /\ Rotating /\ Rotating' /\ Resting
  BY Machines, CoordinateRotates DEF Rotating, Fitting
<1>2. UNCHANGED <<store, got, before, uploads>>
  BY DEF Coordinate, SendDbRoot, DbRootDone, TellRoot, TellStart, StartWorkers, Join, TellStop,
         TellEnd, others, working, vars, Send, Await, Receive, Reply
<1>3. \A c \in Clients : step'[c] = step[c]
  BY <1>0 DEF Functions, Coordinate, SendDbRoot, DbRootDone, TellRoot, TellStart,
              StartWorkers, Join, TellStop, TellEnd, Tell, Send, Await, GoTo
<1>4. UploadsReadable' /\ DOMAIN before' = Workers /\ \A r \in Records : Readable(store[r])'
  BY <1>2, <1>3 DEF UploadsReadable
<1>5. CASE SendDbRoot \/ DbRootDone
  <2>1. UNCHANGED todo /\ \A m \in Threads : m # K =>
            UNCHANGED <<step[m], snap[m], serving[m], phase[m]>>
    BY <1>0, <1>5 DEF Functions, SendDbRoot, DbRootDone, others, working, Send, Await, Receive,
                       Reply, GoTo
  <2>2. UNCHANGED round
    BY <1>5 DEF SendDbRoot, DbRootDone, rounds
  <2>3. \A w \in Workers : Exact(w)'
    BY <1>0, <1>2, <2>1, <2>2, KeepExact DEF HeadUnchanged
  <2>4. phase'[K] = "idle" \/ RequestFrom(K)'
    BY <1>0, <1>5 DEF Functions, SendDbRoot, DbRootDone, Send, Await, Receive, Reply, RequestFrom
  <2>5. RequestsFrom' /\ ListedOwn'
    BY <2>1, <2>4 DEF RequestsFrom, RequestFrom, ListedOwn
  <2> QED
    BY <1>0, <1>4, <2>3, <2>5
<1>6. CASE TellRoot \/ TellStart \/ TellStop \/ TellEnd
  <2>1. UNCHANGED <<todo, serving, phase>>
    BY <1>6 DEF TellRoot, TellStart, TellStop, TellEnd, others, working, vars
  <2>2. \A w \in Workers : step[w] = "idle" /\ step'[w] = "idle"
    <3>1. step[K] # "join" /\ \A w \in Workers : step'[w] = step[w]
      BY <1>0, <1>6 DEF Functions, TellRoot, TellStart, TellStop, TellEnd, Tell, GoTo
    <3> QED
      BY <1>0, <3>1 DEF Resting
  <2>3. \A w \in Workers : Exact(w)'
    BY <2>2 DEF Exact
  <2>4. RequestsFrom' /\ ListedOwn'
    BY <2>1, <2>2 DEF RequestsFrom, RequestFrom, ListedOwn
  <2> QED
    BY <1>0, <1>4, <2>3, <2>4
<1>7. CASE StartWorkers \/ Join
  <2>1. UNCHANGED <<serving, phase>> /\ (todo' = todo \/ todo' = Assigned)
    BY <1>7 DEF StartWorkers, Join, others, working, vars
  <2>2. \A w \in Workers : step[w] \in {"idle", "done"} /\ step'[w] \in {"idle", "working"}
    BY <1>0, <1>7 DEF StartWorkers, Join, AllDone, Resting
  <2>3. \A w \in Workers : Exact(w)'
    BY <2>2 DEF Exact
  <2>4. RequestsFrom'
    BY <2>1, <2>2 DEF RequestsFrom, RequestFrom
  <2>5. ListedOwn'
    BY <2>1 DEF ListedOwn
  <2> QED
    BY <1>0, <1>4, <2>3, <2>4, <2>5
<1> QED
  BY <1>5, <1>6, <1>7 DEF Coordinate

LEMMA AlwaysKeeping == ASSUME Apart PROVE KRSpec => []Keeping
<1>1. Keeping /\ [KRNext]_allvars => Keeping'
  <2> SUFFICES ASSUME Keeping, [KRNext]_allvars PROVE Keeping'
    OBVIOUS
  <2>1. CASE UNCHANGED allvars
    <3> USE <2>1 DEF allvars, vars, machines, rounds
    <3>1. Rotating'
      BY NextRotating DEF Keeping
    <3>2. \A w \in Workers : Exact(w)'
      BY DEF Keeping, Exact, Reading, Same, Reencrypting
    <3> QED
      BY <3>1, <3>2 DEF Keeping, ListedOwn, UploadsReadable, RequestsFrom, RequestFrom
  <2> QED
    BY <2>1, ClientKeeps, WorkerKeeps, CoordinateKeeps, ServeKeeps DEF KRNext
<1> QED
  BY <1>1, InitKeeping, PTL DEF KRSpec

\* For any number of machines, records, rounds and uploads: as long as no
\* record is on the lists of two workers, and none that is on a list is
\* uploaded by a client, a rotation leaves every record readable at every
\* moment -- between UP_UPDATE's snapshot and its writes too (up_update of the
\* server, updatable_update_dek_and_ciphertext of the workers).
THEOREM ApartRecordsStayReadable == ASSUME Apart PROVE KRSpec => []RecordsStayReadable
<1>1. Keeping => RecordsStayReadable
  BY DEF Keeping, RecordsStayReadable, Readable, Plaintext
<1> QED
  BY <1>1, AlwaysKeeping, PTL

\* And the comparison a worker makes after its update never fails ("Error with
\* decrypting into original message, not same.",
\* ciphertext_updates_updatable_encryption.c line 330).
THEOREM ApartUpdateKeepsMessage == ASSUME Apart PROVE KRSpec => []UpdateKeepsMessage
<1>1. Keeping => UpdateKeepsMessage
  <2> SUFFICES ASSUME Keeping, NEW w \in Workers, step[w] = "unwrapping_after"
               PROVE  Decrypted(w) = before[w]
    BY DEF UpdateKeepsMessage
  <2>1. todo[w] # << >> /\ Listed
    BY DEF Keeping, Rotating, Progress
  <2>2. Readable(store[Head(todo[w])]) /\ Exact(w)
    BY <2>1, HeadAssigned DEF Keeping
  <2> QED
    BY <2>2 DEF Exact, Same, Whole, Decrypted, Readable, Opens
<1> QED
  BY <1>1, AlwaysKeeping, PTL
=============================================================================
