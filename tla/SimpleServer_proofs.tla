------------------------ MODULE SimpleServer_proofs -------------------------
(***************************************************************************)
(* Proofs about SimpleServer, for any number of threads, records, root     *)
(* keys, generations and messages, and any set of requests of the five     *)
(* commands.  Everything follows from the inductive invariant Inv.         *)
(***************************************************************************)
EXTENDS SimpleServerInv, TLAPS

\* The value v may be stored for key f.
Fits(f, v) ==
    /\ f = "wrap" => v \in Wrap
    /\ f = "header" => v \in Header
    /\ f = "data" => v \in Data
    /\ f = "root_version" => v \in Roots
    /\ f = "ctxt_version" => v \in Nat

\* Writing one value of a record leaves a record.
LEMMA WriteKeyType ==
    ASSUME TypeOK, NEW t \in Threads, Rec(t) \in Records,
           NEW f \in Keys, NEW v, Fits(f, v), WriteKey(t, f, v)
    PROVE  redis' \in [Records -> Record]
<1>1. [redis[Rec(t)] EXCEPT ![f] = v] \in Record
  <2>1. redis[Rec(t)] \in Record
    BY DEF TypeOK
  <2>2. CASE f = "wrap"
    BY <2>1, <2>2 DEF Record, Fits
  <2>3. CASE f = "header"
    BY <2>1, <2>3 DEF Record, Fits
  <2>4. CASE f = "data"
    BY <2>1, <2>4 DEF Record, Fits
  <2>5. CASE f = "root_version"
    BY <2>1, <2>5 DEF Record, Fits
  <2>6. CASE f = "ctxt_version"
    BY <2>1, <2>6 DEF Record, Fits
  <2> QED
    BY <2>2, <2>3, <2>4, <2>5, <2>6 DEF Keys
<1> QED
  BY <1>1 DEF TypeOK, WriteKey

\* Reading one value of a record leaves seen well typed.
LEMMA ReadKeyType ==
    ASSUME TypeOK, NEW t \in Threads, Rec(t) \in Records,
           NEW f \in Keys, ReadKey(t, f)
    PROVE  SeenTypeOK'
<1>1. redis[Rec(t)] \in Record
  BY DEF TypeOK
<1>2. SeenOK(seen'[t])
  <2>1. DOMAIN seen'[t] \subseteq Keys
    BY DEF ReadKey, TypeOK, SeenTypeOK, SeenOK
  <2>2. "data" \in DOMAIN seen'[t] => seen'[t].data \in Data
    BY <1>1 DEF ReadKey, TypeOK, SeenTypeOK, SeenOK, Record
  <2>3. "ctxt_version" \in DOMAIN seen'[t] => seen'[t].ctxt_version \in Nat
    BY <1>1 DEF ReadKey, TypeOK, SeenTypeOK, SeenOK, Record
  <2> QED
    BY <2>1, <2>2, <2>3 DEF SeenOK
<1>3. ASSUME NEW u \in Threads, u # t
      PROVE  SeenOK(seen'[u])
  BY <1>3 DEF ReadKey, TypeOK, SeenTypeOK
<1> QED
  BY <1>2, <1>3 DEF ReadKey, TypeOK, SeenTypeOK

\* The key lists of GETALL.
LEMMA KeyLists ==
    ASSUME NEW q \in GetallRequest
    PROVE  /\ Len(q.keys) \in {3, 4}
           /\ 1 \in 1..Len(q.keys)
           /\ \A n \in 1..Len(q.keys) : q.keys[n] \in Keys
<1>1. CASE q.keys = <<"wrap", "header", "data", "root_version">>
  <2>1. Len(q.keys) = 4
    BY <1>1
  <2> QED
    BY <1>1, <2>1 DEF Keys
<1>2. CASE q.keys = <<"wrap", "header", "root_version">>
  <2>1. Len(q.keys) = 3
    BY <1>2
  <2> QED
    BY <1>2, <2>1 DEF Keys
<1> QED
  BY <1>1, <1>2 DEF GetallRequest

\* Every step keeps every variable in its type.
LEMMA TypeStep ==
    ASSUME NEW t \in Threads, Inv,
           Step(t) \/ \E q \in Requests : Receive(t, q)
    PROVE  TypeOK'
<1> USE IdleAssumption, RequestAssumption
     DEF Inv, TypeOK, Goto, Acquire, Release, Close, locks, Pcs, Loops,
         RightIndex
<1>1. ASSUME NEW q \in Requests, Receive(t, q)
      PROVE  TypeOK'
  BY <1>1 DEF Receive, Entry, SeenTypeOK, GetRequest, GetallRequest, SetallRequest,
           UpdateRequest, RootkeyRequest
<1>2. CASE Reply(t)
  BY <1>2 DEF Reply, SeenTypeOK, SeenOK, Nothing
<1>3. CASE Connect(t)
  BY <1>3 DEF Connect, Connected, SeenTypeOK
<1>4. CASE ConnectFails(t)
  BY <1>4 DEF ConnectFails, Connecting, SeenTypeOK
<1>5. CASE Get(t)
  <2>1. req[t] \in GetRequest
    BY <1>5 DEF Get, RightHandler
  <2>2. Rec(t) \in Records /\ req[t].key \in Keys
    BY <2>1 DEF GetRequest, Rec
  <2>3. SeenTypeOK'
    BY <1>5, <2>2, ReadKeyType DEF Get
  <2> QED
    BY <1>5, <2>3 DEF Get
<1>6. CASE GetallLock(t)
  BY <1>6 DEF GetallLock, SeenTypeOK
<1>7. CASE GetallRead(t)
  <2>1. req[t] \in GetallRequest
    BY <1>7 DEF GetallRead, Turn, RightHandler, GetallPcs
  <2>2. at[t] \in 1..Len(req[t].keys) /\ Len(req[t].keys) \in {3, 4}
    BY <1>7, <2>1, KeyLists DEF GetallRead, Turn
  <2>3. Rec(t) \in Records /\ req[t].keys[at[t]] \in Keys
    BY <2>1, <2>2, KeyLists DEF GetallRequest, Rec
  <2>4. SeenTypeOK'
    BY <1>7, <2>3, ReadKeyType DEF GetallRead
  <2> QED
    BY <1>7, <2>2, <2>4 DEF GetallRead, Turn
<1>8. CASE GetallUnlock(t)
  BY <1>8 DEF GetallUnlock, SeenTypeOK
<1>9. CASE CheckLock(t)
  BY <1>9 DEF CheckLock, SeenTypeOK
<1>10. CASE CheckRoot(t)
  BY <1>10 DEF CheckRoot, SeenTypeOK
<1>11. CASE SetallLock(t)
  BY <1>11 DEF SetallLock, SeenTypeOK
<1>12. CASE SetallVersion(t)
  <2>1. Rec(t) \in Records
    BY <1>12 DEF SetallVersion, RightHandler, SetallPcs, SetallRequest, Rec
  <2>2. SeenTypeOK'
    BY <1>12, <2>1, ReadKeyType DEF SetallVersion, Keys
  <2> QED
    BY <1>12, <2>2 DEF SetallVersion
<1>13. CASE SetallWrite(t)
  <2>1. req[t] \in SetallRequest /\ at[t] \in 1..5 /\ seen[t].ctxt_version \in Nat
    BY <1>13 DEF SetallWrite, Turn, RightHandler, SetallPcs, ReadSoFar, SeenTypeOK, SeenOK
  <2>2. Rec(t) \in Records
    BY <2>1 DEF SetallRequest, Rec
  <2> DEFINE f == SetallWrites[at[t]]
  <2>3. f \in Keys /\ Fits(f, Uploaded(t)[f])
    BY <2>1 DEF SetallWrites, Keys, Fits, Uploaded, SetallRequest
  <2>4. redis' \in [Records -> Record]
    BY <1>13, <2>2, <2>3, WriteKeyType DEF SetallWrite
  <2> QED
    BY <1>13, <2>1, <2>4 DEF SetallWrite, Turn, SetallWrites, SeenTypeOK
<1>14. CASE SetallUnlock(t)
  BY <1>14 DEF SetallUnlock, SeenTypeOK
<1>15. CASE UpdateLock(t)
  BY <1>15 DEF UpdateLock, SeenTypeOK
<1>16. CASE UpdateRead(t)
  <2>1. req[t] \in UpdateRequest /\ at[t] \in 1..3
    BY <1>16 DEF UpdateRead, Turn, RightHandler, UpdatePcs
  <2>2. Rec(t) \in Records /\ UpdateReads[at[t]] \in Keys
    BY <2>1 DEF UpdateRequest, Rec, UpdateReads, Keys
  <2>3. SeenTypeOK'
    BY <1>16, <2>2, ReadKeyType DEF UpdateRead
  <2> QED
    BY <1>16, <2>1, <2>3 DEF UpdateRead, Turn, UpdateReads
<1>17. CASE UpdateUnlock(t)
  BY <1>17 DEF UpdateUnlock, SeenTypeOK
<1>18. CASE UpdateRelock(t)
  BY <1>18 DEF UpdateRelock, SeenTypeOK
<1>19. CASE UpdateCompare(t)
  BY <1>19 DEF UpdateCompare, VersionUnchanged, SeenTypeOK
<1>20. CASE UpdateConflict(t)
  BY <1>20 DEF UpdateConflict, VersionUnchanged, SeenTypeOK
<1>21. CASE UpdateWrite(t)
  <2>1. /\ req[t] \in UpdateRequest /\ at[t] \in 1..4
        /\ seen[t].ctxt_version \in Nat /\ seen[t].data \in Data
    BY <1>21 DEF UpdateWrite, Turn, RightHandler, UpdatePcs, ReadSoFar, SeenTypeOK, SeenOK
  <2>2. Rec(t) \in Records /\ req[t].wrap \in Wrap /\ req[t].delta \in Delta
    BY <2>1 DEF UpdateRequest, Rec
  <2>3. /\ ReEncryptedHeader(req[t].delta) \in Header
        /\ ReEncryptedData(req[t].delta, seen[t].data) \in Data
    BY <2>1, <2>2 DEF ReEncryptedHeader, ReEncryptedData, Header, Data, Delta
  <2> DEFINE f == UpdateWrites[at[t]]
  <2>4. f \in Keys /\ Fits(f, Updated(t)[f])
    BY <2>1, <2>2, <2>3 DEF UpdateWrites, Keys, Fits, Updated
  <2>5. redis' \in [Records -> Record]
    BY <1>21, <2>2, <2>4, WriteKeyType DEF UpdateWrite
  <2> QED
    BY <1>21, <2>1, <2>5 DEF UpdateWrite, Turn, UpdateWrites, SeenTypeOK
<1>22. CASE UpdateEnd(t)
  BY <1>22 DEF UpdateEnd, SeenTypeOK
<1>23. CASE RootkeyLock(t)
  BY <1>23 DEF RootkeyLock, SeenTypeOK
<1>24. CASE RootkeyClear(t)
  BY <1>24 DEF RootkeyClear, SeenTypeOK
<1>25. CASE RootkeyCopy(t)
  BY <1>25 DEF RootkeyCopy, RightHandler, RootkeyPcs, RootkeyRequest, SeenTypeOK
<1> QED
  BY <1>1, <1>2, <1>3, <1>4, <1>5, <1>6, <1>7, <1>8, <1>9, <1>10,
     <1>11, <1>12, <1>13, <1>14, <1>15, <1>16, <1>17, <1>18, <1>19, <1>20,
     <1>21, <1>22, <1>23, <1>24, <1>25 DEF Step

\* The conjuncts of Inv that only concern where the threads are.
Local(u) == RightHandler(u) /\ RightIndex(u) /\ Exclusion(u) /\ ReadSoFar(u)

\* Every step keeps the control of every thread consistent.
LEMMA LocalStep ==
    ASSUME NEW t \in Threads, Inv,
           Step(t) \/ \E q \in Requests : Receive(t, q)
    PROVE  \A u \in Threads : Local(u)'
<1> USE IdleAssumption, RequestAssumption
     DEF Inv, TypeOK, SeenTypeOK, Loops, Goto, ReadKey, WriteKey, Acquire, Release, Close, locks,
         Rec, Pcs, RightHandler, RightIndex, ReadSoFar, HoldsBasis, Exclusion, Local,
         GetallPcs, SetallPcs, UpdatePcs, RootkeyPcs, Nothing, Critical, RootCritical,
         GetRequest, GetallRequest, SetallRequest, UpdateRequest, RootkeyRequest
<1>1. ASSUME NEW q \in Requests, Receive(t, q)
      PROVE  \A u \in Threads : Local(u)'
  BY <1>1 DEF Receive, Entry
<1>2. CASE Reply(t)
  BY <1>2 DEF Reply
<1>3. CASE Connect(t)
  BY <1>3 DEF Connect, Connected
<1>4. CASE ConnectFails(t)
  BY <1>4 DEF ConnectFails, Connecting
<1>5. CASE Get(t)
  BY <1>5 DEF Get
<1>6. CASE GetallLock(t)
  <2>1. 1 \in 1..Len(req[t].keys)
    BY <1>6, KeyLists DEF GetallLock
  <2>2. ASSUME NEW u \in Threads
        PROVE  RightIndex(u)'
    <3>1. at' = at /\ req' = req /\ pc' = [pc EXCEPT ![t] = "getall_read"] /\ at[t] = 1
      BY <1>6 DEF GetallLock
    <3>2. CASE u = t
      BY <2>1, <3>1, <3>2
    <3>3. CASE u # t
      BY <3>1, <3>3
    <3> QED
      BY <3>2, <3>3
  <2>3. ASSUME NEW u \in Threads
        PROVE  RightHandler(u)' /\ Exclusion(u)' /\ ReadSoFar(u)'
    BY <1>6 DEF GetallLock
  <2> QED
    BY <2>2, <2>3
<1>7. CASE GetallRead(t)
  <2>1. Len(req[t].keys) \in {3, 4}
    BY <1>7, KeyLists DEF GetallRead, Turn
  <2> QED
    BY <1>7, <2>1 DEF GetallRead, Turn
<1>8. CASE GetallUnlock(t)
  BY <1>8 DEF GetallUnlock
<1>9. CASE CheckLock(t)
  BY <1>9 DEF CheckLock
<1>10. CASE CheckRoot(t)
  BY <1>10 DEF CheckRoot
<1>11. CASE SetallLock(t)
  BY <1>11 DEF SetallLock
<1>12. CASE SetallVersion(t)
  BY <1>12 DEF SetallVersion
<1>13. CASE SetallWrite(t)
  BY <1>13 DEF SetallWrite, Turn, SetallWrites, Uploaded
<1>14. CASE SetallUnlock(t)
  BY <1>14 DEF SetallUnlock
<1>15. CASE UpdateLock(t)
  BY <1>15 DEF UpdateLock
<1>16. CASE UpdateRead(t)
  BY <1>16 DEF UpdateRead, Turn, UpdateReads
<1>17. CASE UpdateUnlock(t)
  BY <1>17 DEF UpdateUnlock
<1>18. CASE UpdateRelock(t)
  BY <1>18 DEF UpdateRelock
<1>19. CASE UpdateCompare(t)
  BY <1>19 DEF UpdateCompare, VersionUnchanged
<1>20. CASE UpdateConflict(t)
  BY <1>20 DEF UpdateConflict, VersionUnchanged
<1>21. CASE UpdateWrite(t)
  BY <1>21 DEF UpdateWrite, Turn, UpdateWrites, Updated
<1>22. CASE UpdateEnd(t)
  BY <1>22 DEF UpdateEnd
<1>23. CASE RootkeyLock(t)
  BY <1>23 DEF RootkeyLock
<1>24. CASE RootkeyClear(t)
  BY <1>24 DEF RootkeyClear
<1>25. CASE RootkeyCopy(t)
  BY <1>25 DEF RootkeyCopy
<1> QED
  BY <1>1, <1>2, <1>3, <1>4, <1>5, <1>6, <1>7, <1>8, <1>9, <1>10,
     <1>11, <1>12, <1>13, <1>14, <1>15, <1>16, <1>17, <1>18, <1>19, <1>20,
     <1>21, <1>22, <1>23, <1>24, <1>25 DEF Step

\* The conjuncts of Inv that relate what threads have read to Redis.
DataOK(u) == Current(u) /\ VersionGuard(u)

\* Every step keeps what the threads have read related to Redis.
LEMMA DataStep ==
    ASSUME NEW t \in Threads, Inv,
           Step(t) \/ \E q \in Requests : Receive(t, q)
    PROVE  \A u \in Threads : DataOK(u)'
<1> USE IdleAssumption, RequestAssumption
     DEF Inv, TypeOK, SeenTypeOK, Loops, Goto, ReadKey, WriteKey, Acquire, Release, Close, locks,
         Rec, RightIndex, ReadSoFar, HoldsBasis, Exclusion, Record, SeenOK,
         Nothing, Critical, Current, VersionGuard, SameBasis, DataOK
<1>1. ASSUME NEW q \in Requests, Receive(t, q)
      PROVE  \A u \in Threads : DataOK(u)'
  <2>1. ~HoldsBasis(t)' /\ pc'[t] \notin {"getall_read", "getall_unlock",
                              "update_read", "setall_write", "update_write"}
    BY <1>1 DEF Receive, Entry, GetRequest, GetallRequest, SetallRequest,
             UpdateRequest, RootkeyRequest
  <2>2. pc[t] = "idle" /\ UNCHANGED <<redis, seen, at>>
    BY <1>1 DEF Receive
  <2>3. ASSUME NEW u \in Threads, u # t
        PROVE  pc'[u] = pc[u] /\ req'[u] = req[u]
    BY <1>1, <2>3 DEF Receive
  <2>4. ASSUME NEW u \in Threads
        PROVE  Current(u)'
    BY <2>1, <2>2, <2>3
  <2>5. ASSUME NEW u \in Threads
        PROVE  VersionGuard(u)'
    BY <2>1, <2>2, <2>3
  <2> QED
    BY <2>4, <2>5
<1>2. CASE Reply(t)
  BY <1>2 DEF Reply
<1>3. CASE Connect(t)
  BY <1>3 DEF Connect, Connected
<1>4. CASE ConnectFails(t)
  BY <1>4 DEF ConnectFails, Connecting
<1>5. CASE Get(t)
  BY <1>5 DEF Get
<1>6. CASE GetallLock(t)
  BY <1>6 DEF GetallLock
<1>7. CASE GetallRead(t)
  BY <1>7 DEF GetallRead, Turn
<1>8. CASE GetallUnlock(t)
  BY <1>8 DEF GetallUnlock
<1>9. CASE CheckLock(t)
  BY <1>9 DEF CheckLock
<1>10. CASE CheckRoot(t)
  BY <1>10 DEF CheckRoot
<1>11. CASE SetallLock(t)
  BY <1>11 DEF SetallLock
<1>12. CASE SetallVersion(t)
  BY <1>12 DEF SetallVersion
<1>13. CASE SetallWrite(t)
  <2>1. /\ anti_rc_lock = t /\ at[t] \in 1..5 /\ Rec(t) \in Records
        /\ seen[t].ctxt_version \in Nat /\ pc[t] = "setall_write"
    BY <1>13 DEF SetallWrite, Turn, RightHandler, SetallPcs, SetallRequest
  <2>2. ASSUME NEW u \in Threads, u # t
        PROVE  /\ pc[u] \notin Critical /\ pc'[u] = pc[u] /\ at'[u] = at[u]
               /\ seen'[u] = seen[u] /\ Rec(u)' = Rec(u)
    BY <1>13, <2>1, <2>2 DEF SetallWrite, Turn
  <2>3. /\ pc'[t] \in {"setall_write", "setall_unlock"}
        /\ pc'[t] = "setall_write" => at'[t] > 1
        /\ Rec(t)' = Rec(t) /\ seen'[t] = seen[t]
    BY <1>13, <2>1 DEF SetallWrite, Turn, SetallWrites
  <2>4. ASSUME NEW r \in Records
        PROVE  /\ r # Rec(t) => redis'[r] = redis[r]
               /\ r = Rec(t) /\ at[t] = 1 =>
                     redis'[r].ctxt_version = redis[r].ctxt_version + 1
               /\ r = Rec(t) /\ at[t] > 1 =>
                     redis'[r].ctxt_version = redis[r].ctxt_version
    BY <1>13, <2>1 DEF SetallWrite, Turn, SetallWrites, Uploaded
  <2>5. ASSUME NEW u \in Threads
        PROVE  Current(u)'
    BY <2>2, <2>3
  <2>6. ASSUME NEW u \in Threads, u # t, HoldsBasis(u), Rec(u) = Rec(t)
        PROVE  seen[u].ctxt_version < redis'[Rec(t)].ctxt_version
    <3>1. seen[u].ctxt_version \in Nat /\ redis[Rec(t)].ctxt_version \in Nat
      BY <2>1, <2>6
    <3>2. CASE at[t] = 1
      BY <2>1, <2>4, <2>6, <3>1, <3>2
    <3>3. CASE at[t] > 1
      BY <2>1, <2>4, <2>6, <3>1, <3>3
    <3> QED
      BY <2>1, <3>2, <3>3
  <2>7. ASSUME NEW u \in Threads
        PROVE  VersionGuard(u)'
    <3>1. CASE u = t
      BY <2>2, <2>3, <2>6, <3>1
    <3>2. CASE u # t /\ HoldsBasis(u) /\ Rec(u) = Rec(t)
      <4>1. seen[u].ctxt_version \in Nat /\ redis'[Rec(t)].ctxt_version \in Int
        BY <2>1, <2>4, <3>2
      <4> QED
        BY <2>2, <2>6, <3>2, <4>1
    <3>3. CASE u # t /\ HoldsBasis(u) /\ Rec(u) # Rec(t)
      <4>1. Rec(u) \in Records
        BY <3>3 DEF RightHandler, UpdatePcs, UpdateRequest
      <4> QED
        BY <2>2, <2>3, <2>4, <3>3, <4>1
    <3>4. CASE u # t /\ ~HoldsBasis(u)
      BY <2>2, <3>4
    <3> QED
      BY <3>1, <3>2, <3>3, <3>4
  <2> QED
    BY <2>5, <2>7
<1>14. CASE SetallUnlock(t)
  BY <1>14 DEF SetallUnlock
<1>15. CASE UpdateLock(t)
  BY <1>15 DEF UpdateLock
<1>16. CASE UpdateRead(t)
  BY <1>16 DEF UpdateRead, Turn, UpdateReads
<1>17. CASE UpdateUnlock(t)
  BY <1>17 DEF UpdateUnlock
<1>18. CASE UpdateRelock(t)
  BY <1>18 DEF UpdateRelock
<1>19. CASE UpdateCompare(t)
  BY <1>19 DEF UpdateCompare, VersionUnchanged
<1>20. CASE UpdateConflict(t)
  BY <1>20 DEF UpdateConflict, VersionUnchanged
<1>21. CASE UpdateWrite(t)
  <2>1. /\ anti_rc_lock = t /\ at[t] \in 1..4 /\ Rec(t) \in Records
        /\ seen[t].ctxt_version \in Nat /\ pc[t] = "update_write"
    BY <1>21 DEF UpdateWrite, Turn, RightHandler, UpdatePcs, UpdateRequest
  <2>2. ASSUME NEW u \in Threads, u # t
        PROVE  /\ pc[u] \notin Critical /\ pc'[u] = pc[u] /\ at'[u] = at[u]
               /\ seen'[u] = seen[u] /\ Rec(u)' = Rec(u)
    BY <1>21, <2>1, <2>2 DEF UpdateWrite, Turn
  <2>3. /\ pc'[t] = IF at[t] = 4 THEN "update_end" ELSE "update_write"
        /\ at[t] # 4 => at'[t] > 1
        /\ Rec(t)' = Rec(t) /\ seen'[t] = seen[t]
    BY <1>21, <2>1 DEF UpdateWrite, Turn, UpdateWrites
  <2>4. ASSUME NEW r \in Records
        PROVE  /\ r # Rec(t) => redis'[r] = redis[r]
               /\ r = Rec(t) /\ at[t] = 4 =>
                     redis'[r].ctxt_version = redis[r].ctxt_version + 1
               /\ r = Rec(t) /\ at[t] < 4 =>
                     redis'[r].ctxt_version = redis[r].ctxt_version
    BY <1>21, <2>1 DEF UpdateWrite, Turn, UpdateWrites, Updated
  <2>5. ASSUME NEW u \in Threads
        PROVE  Current(u)'
    <3>1. CASE u = t
      <4>1. CASE at[t] = 4
        BY <2>3, <3>1, <4>1
      <4>2. CASE at[t] < 4
        <5>1. seen[t].ctxt_version = redis[Rec(t)].ctxt_version
          BY <2>1
        <5> QED
          BY <2>1, <2>3, <2>4, <3>1, <4>2, <5>1
      <4> QED
        BY <2>1, <4>1, <4>2
    <3>2. CASE u # t
      BY <2>2, <3>2
    <3> QED
      BY <3>1, <3>2
  <2>6. ASSUME NEW u \in Threads
        PROVE  VersionGuard(u)'
    <3>1. CASE u = t
      BY <2>3, <3>1
    <3>2. CASE u # t /\ HoldsBasis(u) /\ Rec(u) = Rec(t)
      <4>1. seen[u].ctxt_version \in Nat /\ redis[Rec(t)].ctxt_version \in Nat
        BY <2>1, <3>2
      <4>2. CASE at[t] = 4
        BY <2>1, <2>2, <2>4, <3>2, <4>1, <4>2
      <4>3. CASE at[t] < 4
        BY <2>1, <2>2, <2>3, <2>4, <3>2, <4>1, <4>3
      <4> QED
        BY <2>1, <4>2, <4>3
    <3>3. CASE u # t /\ HoldsBasis(u) /\ Rec(u) # Rec(t)
      <4>1. Rec(u) \in Records
        BY <3>3 DEF RightHandler, UpdatePcs, UpdateRequest
      <4> QED
        <5>1. redis'[Rec(u)] = redis[Rec(u)]
          BY <2>4, <3>3, <4>1
        <5>2. ASSUME NEW w \in Threads, pc[w] = "update_write", at[w] > 1, Rec(w) = Rec(u)
              PROVE  FALSE
          BY <2>1, <2>2, <3>3, <5>2
        <5> QED
          BY <2>2, <3>3, <5>1, <5>2
    <3>4. CASE u # t /\ ~HoldsBasis(u)
      BY <2>2, <3>4
    <3> QED
      BY <3>1, <3>2, <3>3, <3>4
  <2> QED
    BY <2>5, <2>6
<1>22. CASE UpdateEnd(t)
  BY <1>22 DEF UpdateEnd
<1>23. CASE RootkeyLock(t)
  BY <1>23 DEF RootkeyLock
<1>24. CASE RootkeyClear(t)
  BY <1>24 DEF RootkeyClear
<1>25. CASE RootkeyCopy(t)
  BY <1>25 DEF RootkeyCopy
<1> QED
  BY <1>1, <1>2, <1>3, <1>4, <1>5, <1>6, <1>7, <1>8, <1>9, <1>10,
     <1>11, <1>12, <1>13, <1>14, <1>15, <1>16, <1>17, <1>18, <1>19, <1>20,
     <1>21, <1>22, <1>23, <1>24, <1>25 DEF Step

\* Every step keeps two readers of one version in agreement.
LEMMA AgreementStep ==
    ASSUME NEW t \in Threads, Inv,
           Step(t) \/ \E q \in Requests : Receive(t, q)
    PROVE  SameVersionSameCiphertext'
<1> USE IdleAssumption, RequestAssumption
     DEF Inv, TypeOK, SeenTypeOK, Loops, Goto, ReadKey, WriteKey, Acquire, Release, Close, locks,
         Rec, HoldsBasis, Nothing, SameVersionSameCiphertext
<1>1. ASSUME NEW q \in Requests, Receive(t, q)
      PROVE  SameVersionSameCiphertext'
  <2>1. ~HoldsBasis(t)'
    BY <1>1 DEF Receive, Entry, GetRequest, GetallRequest, SetallRequest,
             UpdateRequest, RootkeyRequest
  <2>2. ASSUME NEW u \in Threads, u # t
        PROVE  HoldsBasis(u)' = HoldsBasis(u) /\ Rec(u)' = Rec(u) /\ seen'[u] = seen[u]
    BY <1>1, <2>2 DEF Receive
  <2> QED
    BY <2>1, <2>2
<1>2. CASE Reply(t)
  BY <1>2 DEF Reply
<1>3. CASE Connect(t)
  BY <1>3 DEF Connect, Connected
<1>4. CASE ConnectFails(t)
  BY <1>4 DEF ConnectFails, Connecting
<1>5. CASE Get(t)
  BY <1>5 DEF Get
<1>6. CASE GetallLock(t)
  BY <1>6 DEF GetallLock
<1>7. CASE GetallRead(t)
  BY <1>7 DEF GetallRead, Turn
<1>8. CASE GetallUnlock(t)
  BY <1>8 DEF GetallUnlock
<1>9. CASE CheckLock(t)
  BY <1>9 DEF CheckLock
<1>10. CASE CheckRoot(t)
  BY <1>10 DEF CheckRoot
<1>11. CASE SetallLock(t)
  BY <1>11 DEF SetallLock
<1>12. CASE SetallVersion(t)
  BY <1>12 DEF SetallVersion
<1>13. CASE SetallWrite(t)
  BY <1>13 DEF SetallWrite, Turn, SetallWrites, Uploaded
<1>14. CASE SetallUnlock(t)
  BY <1>14 DEF SetallUnlock
<1>15. CASE UpdateLock(t)
  BY <1>15 DEF UpdateLock
<1>16. CASE UpdateRead(t)
  <2> DEFINE Agree(u, v) ==
        seen[u].ctxt_version = seen[v].ctxt_version =>
            seen[u].header = seen[v].header /\ seen[u].data = seen[v].data
  <2>1. \A u \in Threads : DataOK(u)' /\ (HoldsBasis(u)' => seen'[u].ctxt_version \in Nat)
    BY DataStep, TypeStep, LocalStep DEF TypeOK, SeenTypeOK, Local, ReadSoFar, SeenOK
  <2>2. \A u \in Threads : pc'[u] # "update_write"
    BY <1>16 DEF UpdateRead, Turn, Exclusion, Critical
  <2>3. ASSUME NEW u \in Threads, HoldsBasis(t)', HoldsBasis(u)', Rec(t)' = Rec(u)', u # t
        PROVE  Agree(t, u)'
    <3>1. at[t] = 3 /\ pc[t] = "update_read"
      BY <1>16, <2>3 DEF UpdateRead, Turn, RightIndex, UpdateReads
    <3>2. {"ctxt_version", "header"} \subseteq DOMAIN seen[t]
      BY <3>1 DEF ReadSoFar
    <3>3. /\ SameBasis(t)'
          /\ seen'[t].ctxt_version = redis'[Rec(t)'].ctxt_version
      BY <1>16, <3>1, <3>2 DEF UpdateRead, Turn, UpdateReads, Current, SameBasis
    <3>4. /\ seen'[u].ctxt_version < redis'[Rec(u)'].ctxt_version \/ SameBasis(u)'
          /\ seen'[u].ctxt_version \in Nat
      BY <2>1, <2>2, <2>3 DEF DataOK, VersionGuard
    <3> QED
      BY <2>3, <3>3, <3>4 DEF SameBasis
  <2>4. ASSUME NEW u \in Threads, u # t
        PROVE  HoldsBasis(u)' = HoldsBasis(u) /\ seen'[u] = seen[u] /\ Rec(u)' = Rec(u)
    BY <1>16, <2>4 DEF UpdateRead, Turn
  <2> QED
    BY <2>3, <2>4
<1>17. CASE UpdateUnlock(t)
  BY <1>17 DEF UpdateUnlock
<1>18. CASE UpdateRelock(t)
  BY <1>18 DEF UpdateRelock
<1>19. CASE UpdateCompare(t)
  BY <1>19 DEF UpdateCompare, VersionUnchanged
<1>20. CASE UpdateConflict(t)
  BY <1>20 DEF UpdateConflict, VersionUnchanged
<1>21. CASE UpdateWrite(t)
  BY <1>21 DEF UpdateWrite, Turn, UpdateWrites, Updated
<1>22. CASE UpdateEnd(t)
  BY <1>22 DEF UpdateEnd
<1>23. CASE RootkeyLock(t)
  BY <1>23 DEF RootkeyLock
<1>24. CASE RootkeyClear(t)
  BY <1>24 DEF RootkeyClear
<1>25. CASE RootkeyCopy(t)
  BY <1>25 DEF RootkeyCopy
<1> QED
  BY <1>1, <1>2, <1>3, <1>4, <1>5, <1>6, <1>7, <1>8, <1>9, <1>10,
     <1>11, <1>12, <1>13, <1>14, <1>15, <1>16, <1>17, <1>18, <1>19, <1>20,
     <1>21, <1>22, <1>23, <1>24, <1>25 DEF Step

-----------------------------------------------------------------------------
\* Inv is inductive.
LEMMA InitInv == Init => Inv
<1> SUFFICES ASSUME Init PROVE Inv
  OBVIOUS
<1> USE IdleAssumption
<1>1. TypeOK
  BY DEF Init, TypeOK, SeenTypeOK, SeenOK, Populated, Record, Wrap, Header, Data,
         Encrypted, Nothing, Pcs
<1>2. ASSUME NEW t \in Threads
      PROVE  /\ RightHandler(t) /\ RightIndex(t) /\ Exclusion(t)
             /\ ReadSoFar(t) /\ Current(t) /\ VersionGuard(t)
  BY DEF Init, RightHandler, RightIndex, Exclusion, ReadSoFar, Current, VersionGuard,
         Nothing, HoldsBasis, GetallPcs, SetallPcs, UpdatePcs, RootkeyPcs, Loops,
         Critical, RootCritical
<1>3. SameVersionSameCiphertext
  BY DEF Init, SameVersionSameCiphertext, HoldsBasis
<1> QED
  BY <1>1, <1>2, <1>3 DEF Inv

LEMMA NextInv == Inv /\ [Next]_vars => Inv'
<1> SUFFICES ASSUME Inv, [Next]_vars PROVE Inv'
  OBVIOUS
<1>1. CASE Next
  <2>1. PICK t \in Threads : Step(t) \/ \E q \in Requests : Receive(t, q)
    BY <1>1 DEF Next
  <2> QED
    BY <2>1, TypeStep, LocalStep, DataStep, AgreementStep DEF Inv, Local, DataOK
<1>2. CASE UNCHANGED vars
  BY <1>2 DEF vars, locks, Inv, TypeOK, SeenTypeOK, RightHandler, RightIndex, Exclusion,
              ReadSoFar, Current, VersionGuard, SameBasis, SameVersionSameCiphertext,
              HoldsBasis, Rec
<1> QED
  BY <1>1, <1>2

THEOREM Invariance == Spec => []Inv
BY InitInv, NextInv, PTL DEF Spec

\* Type correctness.
THEOREM TypeCorrect == Spec => []TypeOK
<1>1. Inv => TypeOK
  BY DEF Inv
<1> QED
  BY <1>1, Invariance, PTL

\* When up_update starts to write, Redis still holds the header and the payload
\* that it re-encrypted without the lock (simple_server.c:582-645).
THEOREM UpdatesAreOfWhatTheyRead == Spec => []UpdateReplacesWhatItRead
<1>1. Inv => UpdateReplacesWhatItRead
  BY DEF Inv, VersionGuard, SameBasis, UpdateReplacesWhatItRead
<1> QED
  BY <1>1, Invariance, PTL

\* Two updates that read the same version re-encrypt the same ciphertext, so
\* the version comparison (line 627) cannot let a stale one through.
THEOREM VersionsNameCiphertexts == Spec => []SameVersionSameCiphertext
<1>1. Inv => SameVersionSameCiphertext
  BY DEF Inv
<1> QED
  BY <1>1, Invariance, PTL

\* The values that GETALL read one by one (lines 369-381) are all in the
\* record when it releases the lock.
THEOREM DownloadsAreOneState == Spec => []DownloadIsOneState
<1>1. Inv => DownloadIsOneState
  BY DEF Inv, Current, DownloadIsOneState
<1> QED
  BY <1>1, Invariance, PTL

\* No step takes a record back to an earlier version.
THEOREM VersionsOnlyGrow == Spec => VersionNeverGoesBack
<1>1. Inv /\ [Next]_vars =>
        [\A r \in Records : redis'[r].ctxt_version >= redis[r].ctxt_version]_vars
  <2> SUFFICES ASSUME Inv, Next, NEW r \in Records
               PROVE  redis'[r].ctxt_version >= redis[r].ctxt_version
    OBVIOUS
  <2>1. redis \in [Records -> Record] /\ redis[r].ctxt_version \in Nat
    BY DEF Inv, TypeOK, Record
  <2>2. PICK t \in Threads : Step(t) \/ \E q \in Requests : Receive(t, q)
    BY DEF Next
  <2>3. CASE SetallWrite(t)
    <3>1. /\ at[t] \in 1..5 /\ seen[t].ctxt_version \in Nat
          /\ at[t] = 1 => seen[t].ctxt_version = redis[Rec(t)].ctxt_version
      BY <2>3 DEF SetallWrite, Turn, Goto, Inv, TypeOK, SeenTypeOK, SeenOK, RightIndex,
                  ReadSoFar, Current
    <3> QED
      BY <2>1, <2>3, <3>1 DEF SetallWrite, WriteKey, SetallWrites, Uploaded, Record
  <2>4. CASE UpdateWrite(t)
    <3>1. /\ at[t] \in 1..4 /\ seen[t].ctxt_version \in Nat
          /\ seen[t].ctxt_version = redis[Rec(t)].ctxt_version
      BY <2>4 DEF UpdateWrite, Turn, Goto, Inv, TypeOK, SeenTypeOK, SeenOK, RightIndex,
                  ReadSoFar, Current
    <3> QED
      BY <2>1, <2>4, <3>1 DEF UpdateWrite, WriteKey, UpdateWrites, Updated, Record
  <2>5. CASE ~SetallWrite(t) /\ ~UpdateWrite(t)
    <3>1. UNCHANGED redis
      BY <2>2, <2>5 DEF Step, Receive, Reply, Connect, ConnectFails, Get, GetallLock,
           GetallRead, GetallUnlock, CheckLock, CheckRoot, SetallLock, SetallVersion,
           SetallUnlock, UpdateLock, UpdateRead, UpdateUnlock, UpdateRelock,
           UpdateCompare, UpdateConflict, UpdateEnd, RootkeyLock, RootkeyClear,
           RootkeyCopy
    <3> QED
      BY <2>1, <3>1
  <2> QED
    BY <2>3, <2>4, <2>5
<1> QED
  BY <1>1, Invariance, PTL DEF Spec, VersionNeverGoesBack
=============================================================================
