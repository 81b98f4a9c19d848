--------------------- MODULE SimpleServerRefinement_proofs ------------------
(***************************************************************************)
(* SimpleServer implements RecordStore, for any number of threads, records *)
(* and keys.  Every step of the server maps to the step of RecordStore     *)
(* with which its command takes effect, or to none.                        *)
(***************************************************************************)
EXTENDS SimpleServer_proofs, SimpleServerRefinement

\* What the invariant of SimpleServer leaves open: exactly which values a
\* thread has read, and the result size before the reply.
Basis == {"ctxt_version", "header", "data"}
Collected(t) ==
    /\ pc[t] = "getall_read" =>
          \A f \in Keys : f \in DOMAIN seen[t] <=>
              \E n \in 1..5 : n < at[t] /\ f = req[t].keys[n]
    /\ pc[t] = "update_read" =>
          \A f \in Keys : f \in DOMAIN seen[t] <=>
              \E n \in 1..5 : n < at[t] /\ f = UpdateReads[n]
    /\ HoldsBasis(t) \/ pc[t] = "update_write" =>
          seen[t] = [f \in Basis |-> seen[t][f]]
    /\ pc[t] # "reply" => result_size[t] = 1
RInv == Inv /\ \A t \in Threads : Collected(t)

\* A step of thread t leaves the other threads where they are.
Frame(t) ==
    \A u \in Threads \ {t} :
        /\ pc'[u] = pc[u] /\ req'[u] = req[u] /\ at'[u] = at[u]
        /\ seen'[u] = seen[u] /\ result_size'[u] = result_size[u]

LEMMA FrameStep ==
    ASSUME NEW t \in Threads, Inv,
           Step(t) \/ \E q \in Requests : Receive(t, q)
    PROVE  Frame(t)
<1> USE DEF Inv, TypeOK, SeenTypeOK, Goto, Frame
<1>1. ASSUME NEW q \in Requests, Receive(t, q)
      PROVE  Frame(t)
  BY <1>1 DEF Receive
<1>2. CASE Reply(t)
  BY <1>2 DEF Reply
<1>3. CASE Connect(t)
  BY <1>3 DEF Connect, Connected
<1>4. CASE ConnectFails(t)
  BY <1>4 DEF ConnectFails
<1>5. CASE Get(t)
  BY <1>5 DEF Get, ReadKey
<1>6. CASE GetallLock(t)
  BY <1>6 DEF GetallLock
<1>7. CASE GetallRead(t)
  BY <1>7 DEF GetallRead, Turn, ReadKey
<1>8. CASE GetallUnlock(t)
  BY <1>8 DEF GetallUnlock
<1>9. CASE CheckLock(t)
  BY <1>9 DEF CheckLock
<1>10. CASE CheckRoot(t)
  BY <1>10 DEF CheckRoot
<1>11. CASE SetallLock(t)
  BY <1>11 DEF SetallLock
<1>12. CASE SetallVersion(t)
  BY <1>12 DEF SetallVersion, ReadKey
<1>13. CASE SetallWrite(t)
  BY <1>13 DEF SetallWrite, Turn
<1>14. CASE SetallUnlock(t)
  BY <1>14 DEF SetallUnlock
<1>15. CASE UpdateLock(t)
  BY <1>15 DEF UpdateLock
<1>16. CASE UpdateRead(t)
  BY <1>16 DEF UpdateRead, Turn, ReadKey
<1>17. CASE UpdateUnlock(t)
  BY <1>17 DEF UpdateUnlock
<1>18. CASE UpdateRelock(t)
  BY <1>18 DEF UpdateRelock
<1>19. CASE UpdateCompare(t)
  BY <1>19 DEF UpdateCompare
<1>20. CASE UpdateConflict(t)
  BY <1>20 DEF UpdateConflict
<1>21. CASE UpdateWrite(t)
  BY <1>21 DEF UpdateWrite, Turn
<1>22. CASE UpdateEnd(t)
  BY <1>22 DEF UpdateEnd
<1>23. CASE RootkeyLock(t)
  BY <1>23 DEF RootkeyLock
<1>24. CASE RootkeyClear(t)
  BY <1>24 DEF RootkeyClear
<1>25. CASE RootkeyCopy(t)
  BY <1>25 DEF RootkeyCopy
<1> QED
  BY <1>1, <1>2, <1>3, <1>4, <1>5, <1>6, <1>7, <1>8, <1>9, <1>10,
     <1>11, <1>12, <1>13, <1>14, <1>15, <1>16, <1>17, <1>18, <1>19, <1>20,
     <1>21, <1>22, <1>23, <1>24, <1>25 DEF Step

-----------------------------------------------------------------------------
\* Every step keeps the account of what the threads have read.
LEMMA CollectedStep ==
    ASSUME NEW t \in Threads, RInv,
           Step(t) \/ \E q \in Requests : Receive(t, q)
    PROVE  \A u \in Threads : Collected(u)'
<1> USE DEF RInv, Inv, TypeOK, SeenTypeOK, Goto, Collected, HoldsBasis
<1>1. ASSUME NEW u \in Threads, u # t
      PROVE  Collected(u)'
  BY <1>1, FrameStep DEF Frame
<1> SUFFICES Collected(t)'
  BY <1>1
<1>2. ASSUME NEW q \in Requests, Receive(t, q)
      PROVE  Collected(t)'
  BY <1>2, RequestAssumption
     DEF Receive, Entry, GetRequest, GetallRequest, SetallRequest, UpdateRequest,
         RootkeyRequest
<1>3. CASE Reply(t)
  BY <1>3 DEF Reply
<1>4. CASE Connect(t)
  BY <1>4 DEF Connect, Connected
<1>5. CASE ConnectFails(t)
  BY <1>5 DEF ConnectFails
<1>6. CASE Get(t)
  BY <1>6 DEF Get, ReadKey
<1>7. CASE GetallLock(t)
  BY <1>7 DEF GetallLock, ReadSoFar, RightIndex, Loops
<1>8. CASE GetallRead(t)
  BY <1>8 DEF GetallRead, Turn, ReadKey
<1>9. CASE GetallUnlock(t)
  BY <1>9 DEF GetallUnlock
<1>10. CASE CheckLock(t)
  BY <1>10 DEF CheckLock
<1>11. CASE CheckRoot(t)
  BY <1>11 DEF CheckRoot
<1>12. CASE SetallLock(t)
  BY <1>12 DEF SetallLock
<1>13. CASE SetallVersion(t)
  BY <1>13 DEF SetallVersion, ReadKey
<1>14. CASE SetallWrite(t)
  BY <1>14 DEF SetallWrite, Turn
<1>15. CASE SetallUnlock(t)
  BY <1>15 DEF SetallUnlock
<1>16. CASE UpdateLock(t)
  BY <1>16 DEF UpdateLock, ReadSoFar, RightIndex, Loops
<1>17. CASE UpdateRead(t)
  <2>0. result_size'[t] = 1
    BY <1>17 DEF UpdateRead, Turn
  <2>1. /\ at[t] \in 1..3 /\ pc[t] = "update_read"
        /\ seen'[t] = [g \in DOMAIN seen[t] \cup {UpdateReads[at[t]]} |->
                         IF g = UpdateReads[at[t]]
                           THEN redis[Rec(t)][g] ELSE seen[t][g]]
    BY <1>17 DEF UpdateRead, Turn, ReadKey, RightIndex
  <2>2. ASSUME NEW f \in Keys
        PROVE  f \in DOMAIN seen'[t] <=> \E n \in 1..5 : n <= at[t] /\ f = UpdateReads[n]
    <3>1. f \in DOMAIN seen[t] <=> \E n \in 1..5 : n < at[t] /\ f = UpdateReads[n]
      BY <2>1
    <3>2. f \in DOMAIN seen'[t] <=> f \in DOMAIN seen[t] \/ f = UpdateReads[at[t]]
      BY <2>1
    <3> QED
      BY <2>1, <3>1, <3>2
  <2>3. CASE at[t] = 3
    <3>1. DOMAIN seen'[t] \subseteq Keys
      BY <1>17, TypeStep DEF SeenOK
    <3>2. DOMAIN seen'[t] = Basis /\ pc'[t] = "update_unlock"
      BY <1>17, <2>2, <2>3, <3>1 DEF UpdateRead, Turn, UpdateReads, Basis, Keys
    <3>3. seen'[t] = [f \in Basis |-> seen'[t][f]]
      BY <2>1, <3>2
    <3> QED
      BY <2>0, <3>2, <3>3
  <2>4. CASE at[t] < 3
    <3>1. pc'[t] = "update_read" /\ at'[t] = at[t] + 1
      BY <1>17, <2>1, <2>4 DEF UpdateRead, Turn, UpdateReads
    <3>2. ASSUME NEW f \in Keys
          PROVE  f \in DOMAIN seen'[t] <=> \E n \in 1..5 : n < at'[t] /\ f = UpdateReads[n]
      BY <2>1, <2>2, <3>1
    <3> QED
      BY <2>0, <3>1, <3>2
  <2> QED
    BY <2>1, <2>3, <2>4
<1>18. CASE UpdateUnlock(t)
  BY <1>18 DEF UpdateUnlock
<1>19. CASE UpdateRelock(t)
  BY <1>19 DEF UpdateRelock
<1>20. CASE UpdateCompare(t)
  BY <1>20 DEF UpdateCompare
<1>21. CASE UpdateConflict(t)
  BY <1>21 DEF UpdateConflict
<1>22. CASE UpdateWrite(t)
  BY <1>22 DEF UpdateWrite, Turn
<1>23. CASE UpdateEnd(t)
  BY <1>23 DEF UpdateEnd
<1>24. CASE RootkeyLock(t)
  BY <1>24 DEF RootkeyLock
<1>25. CASE RootkeyClear(t)
  BY <1>25 DEF RootkeyClear
<1>26. CASE RootkeyCopy(t)
  BY <1>26 DEF RootkeyCopy
<1> QED
  BY <1>1, <1>2, <1>3, <1>4, <1>5, <1>6, <1>7, <1>8, <1>9, <1>10,
     <1>11, <1>12, <1>13, <1>14, <1>15, <1>16, <1>17, <1>18, <1>19, <1>20,
     <1>21, <1>22, <1>23, <1>24, <1>25, <1>26 DEF Step

LEMMA InitRInv == Init => RInv
BY InitInv DEF RInv, Init, Collected, HoldsBasis, Nothing

LEMMA NextRInv == RInv /\ [Next]_vars => RInv'
<1> SUFFICES ASSUME RInv, [Next]_vars PROVE RInv'
  OBVIOUS
<1>1. CASE Next
  <2>1. PICK t \in Threads : Step(t) \/ \E q \in Requests : Receive(t, q)
    BY <1>1 DEF Next
  <2> QED
    BY <2>1, CollectedStep, NextInv DEF RInv
<1>2. CASE UNCHANGED vars
  BY <1>2, NextInv DEF RInv, vars, locks, Collected, HoldsBasis, Rec
<1> QED
  BY <1>1, <1>2
-----------------------------------------------------------------------------
\* What RecordStore sees of the records: the thread that is in the middle of
\* its writes holds the lock, so that there is at most one.
ContentsFact ==
    /\ (\A u \in Threads : Pending(u) = {}) =>
           \A r \in Records : Settled(r) = redis[r]
    /\ \A t \in Threads : Pending(t) # {} =>
           \A r \in Records :
               Settled(r) = [f \in Keys |-> IF r = Rec(t) /\ f \in Pending(t)
                                              THEN Value(t, f) ELSE redis[r][f]]
LEMMA ContentsLemma == Inv => ContentsFact
<1> SUFFICES ASSUME Inv PROVE ContentsFact
  OBVIOUS
<1>1. ASSUME NEW r \in Records
      PROVE  DOMAIN redis[r] = Keys /\ redis[r] = [f \in Keys |-> redis[r][f]]
  BY <1>1 DEF Inv, TypeOK, Record, Keys
<1>2. ASSUME NEW t \in Threads, NEW u \in Threads, Pending(t) # {}, Pending(u) # {}
      PROVE  t = u
  BY <1>2 DEF Inv, Exclusion, Critical, Pending
<1>3. ASSUME \A u \in Threads : Pending(u) = {}, NEW r \in Records
      PROVE  Settled(r) = redis[r]
  BY <1>1, <1>3 DEF Settled
<1>4. ASSUME NEW t \in Threads, Pending(t) # {}, NEW r \in Records
      PROVE  Settled(r) = [f \in Keys |-> IF r = Rec(t) /\ f \in Pending(t)
                                            THEN Value(t, f) ELSE redis[r][f]]
  <2>1. ASSUME NEW f \in Keys
        PROVE  (IF \E u \in Threads : f \in Pending(u) /\ Rec(u) = r
                  THEN LET v == CHOOSE u \in Threads : f \in Pending(u) /\ Rec(u) = r
                       IN  Value(v, f)
                  ELSE redis[r][f])
               = IF r = Rec(t) /\ f \in Pending(t) THEN Value(t, f) ELSE redis[r][f]
    <3>1. ASSUME NEW u \in Threads, f \in Pending(u) /\ Rec(u) = r
          PROVE  u = t
      BY <1>2, <1>4, <3>1
    <3>2. CASE r = Rec(t) /\ f \in Pending(t)
      <4>1. (CHOOSE u \in Threads : f \in Pending(u) /\ Rec(u) = r) = t
        BY <3>1, <3>2
      <4> QED
        BY <3>2, <4>1
    <3>3. CASE ~(r = Rec(t) /\ f \in Pending(t))
      BY <3>1, <3>3
    <3> QED
      BY <3>2, <3>3
  <2> QED
    BY <1>1, <2>1 DEF Settled
<1> QED
  BY <1>3, <1>4 DEF ContentsFact

\* What RecordStore sees of the root key.
RootFact ==
    /\ (\A u \in Threads : pc[u] # "rootkey_copy") => CurrentRoot = current_root_key
    /\ \A t \in Threads : pc[t] = "rootkey_copy" => CurrentRoot = req[t].root
LEMMA RootLemma == Inv => RootFact
<1> SUFFICES ASSUME Inv PROVE RootFact
  OBVIOUS
<1>1. ASSUME NEW t \in Threads, NEW u \in Threads,
             pc[t] = "rootkey_copy", pc[u] = "rootkey_copy"
      PROVE  t = u
  BY <1>1 DEF Inv, Exclusion, RootCritical
<1>2. ASSUME NEW t \in Threads, pc[t] = "rootkey_copy"
      PROVE  (CHOOSE u \in Threads : pc[u] = "rootkey_copy") = t
  BY <1>1, <1>2
<1> QED
  BY <1>2 DEF RootFact, CurrentRoot

\* The phase, snapshot and code of the threads change where a thread moves.
LEMMA BarStep ==
    ASSUME NEW t \in Threads, Frame(t)
    PROVE  /\ Phases' = [Phases EXCEPT ![t] = Phase(t)']
           /\ Snaps' = [Snaps EXCEPT ![t] = Snap(t)']
           /\ Codes' = [Codes EXCEPT ![t] = Code(t)']
           /\ Phases[t] = Phase(t) /\ Snaps[t] = Snap(t) /\ Codes[t] = Code(t)
<1>1. ASSUME NEW u \in Threads, u # t
      PROVE  Phase(u)' = Phase(u) /\ Snap(u)' = Snap(u) /\ Code(u)' = Code(u)
  <2> pc'[u] = pc[u] /\ req'[u] = req[u] /\ at'[u] = at[u]
      /\ seen'[u] = seen[u] /\ result_size'[u] = result_size[u]
    BY <1>1 DEF Frame
  <2>1. Phase(u)' = Phase(u)
    BY DEF Phase, HoldsBasis
  <2>2. Snap(u)' = Snap(u)
    BY <2>1 DEF Snap, Nothing
  <2>3. Code(u)' = Code(u)
    BY DEF Code, Written
  <2> QED
    BY <2>1, <2>2, <2>3
<1>2. Phases' = [Phases EXCEPT ![t] = Phase(t)']
  BY <1>1 DEF Phases
<1>3. Snaps' = [Snaps EXCEPT ![t] = Snap(t)']
  BY <1>1 DEF Snaps
<1>4. Codes' = [Codes EXCEPT ![t] = Code(t)']
  BY <1>1 DEF Codes
<1> QED
  BY <1>2, <1>3, <1>4 DEF Phases, Snaps, Codes

\* A step that writes nothing leaves the records as RecordStore sees them.
LEMMA SameContents ==
    ASSUME ContentsFact, ContentsFact', NEW t \in Threads, Frame(t),
           redis' = redis, Pending(t) = {}, Pending(t)' = {}
    PROVE  Contents' = Contents
<1>1. ASSUME NEW u \in Threads, u # t
      PROVE  /\ Pending(u)' = Pending(u) /\ Rec(u)' = Rec(u)
             /\ \A f \in Keys : Value(u, f)' = Value(u, f)
  <2> pc'[u] = pc[u] /\ req'[u] = req[u] /\ at'[u] = at[u] /\ seen'[u] = seen[u]
    BY <1>1 DEF Frame
  <2>1. Pending(u)' = Pending(u)
    BY DEF Pending
  <2>2. Rec(u)' = Rec(u)
    BY DEF Rec
  <2>3. \A f \in Keys : Value(u, f)' = Value(u, f)
    BY DEF Value, Uploaded, Updated
  <2> QED
    BY <2>1, <2>2, <2>3
<1>2. CASE \A u \in Threads : Pending(u) = {}
  <2>1. \A u \in Threads : Pending(u)' = {}
    BY <1>1, <1>2
  <2> QED
    BY <1>2, <2>1 DEF ContentsFact, Contents
<1>3. ASSUME NEW v \in Threads, Pending(v) # {}
      PROVE  Contents' = Contents
  <2>1. v # t
    BY <1>3
  <2>2. Pending(v)' = Pending(v) /\ Rec(v)' = Rec(v) /\ \A f \in Keys : Value(v, f)' = Value(v, f)
    BY <1>1, <2>1
  <2>3. ASSUME NEW r \in Records
        PROVE  Settled(r)' = Settled(r)
    <3>1. Settled(r) = [f \in Keys |-> IF r = Rec(v) /\ f \in Pending(v)
                                         THEN Value(v, f) ELSE redis[r][f]]
      BY <1>3 DEF ContentsFact
    <3>2. Settled(r)' = [f \in Keys |-> IF r = Rec(v)' /\ f \in Pending(v)'
                                          THEN Value(v, f)' ELSE redis'[r][f]]
      BY <1>3, <2>2 DEF ContentsFact
    <3> QED
      BY <2>2, <3>1, <3>2
  <2> QED
    BY <2>3 DEF Contents
<1> QED
  BY <1>2, <1>3

\* A step that does not set the root key leaves it as RecordStore sees it.
LEMMA SameRoot ==
    ASSUME RootFact, RootFact', NEW t \in Threads, Frame(t),
           current_root_key' = current_root_key,
           pc[t] # "rootkey_copy", pc'[t] # "rootkey_copy"
    PROVE  CurrentRoot' = CurrentRoot
<1>1. ASSUME NEW u \in Threads, u # t
      PROVE  pc'[u] = pc[u] /\ req'[u] = req[u]
  BY <1>1 DEF Frame
<1>2. CASE \A u \in Threads : pc[u] # "rootkey_copy"
  <2>1. \A u \in Threads : pc'[u] # "rootkey_copy"
    BY <1>1, <1>2
  <2> QED
    BY <1>2, <2>1 DEF RootFact
<1>3. ASSUME NEW v \in Threads, pc[v] = "rootkey_copy"
      PROVE  CurrentRoot' = CurrentRoot
  <2>1. pc'[v] = "rootkey_copy" /\ req'[v] = req[v]
    BY <1>1, <1>3
  <2>2. CurrentRoot = req[v].root
    BY <1>3 DEF RootFact
  <2>3. CurrentRoot' = req'[v].root
    BY <2>1 DEF RootFact
  <2> QED
    BY <2>1, <2>2, <2>3
<1> QED
  BY <1>2, <1>3

\* A thread that writes nothing and stays in its phase: nothing has happened
\* as far as RecordStore is concerned.
LEMMA Unseen ==
    ASSUME ContentsFact, ContentsFact', RootFact, RootFact',
           NEW t \in Threads, Frame(t),
           redis' = redis, req' = req, current_root_key' = current_root_key,
           Pending(t) = {}, Pending(t)' = {},
           pc[t] # "rootkey_copy", pc'[t] # "rootkey_copy",
           Phase(t)' = Phase(t), Snap(t)' = Snap(t), Code(t)' = Code(t)
    PROVE  UNCHANGED Store!vars
<1>1. Contents' = Contents
  BY SameContents
<1>2. CurrentRoot' = CurrentRoot
  BY SameRoot
<1>3. Phases' = Phases /\ Snaps' = Snaps /\ Codes' = Codes
  BY BarStep DEF Phases, Snaps, Codes
<1> QED
  BY <1>1, <1>2, <1>3 DEF Store!vars

\* The steps that RecordStore does not see: connecting and locking, and what
\* comes between the locks and before the reply.
Quiet(t) ==
    \/ Connect(t) \/ ConnectFails(t) \/ GetallLock(t) \/ GetallUnlock(t)
    \/ CheckLock(t) \/ SetallLock(t) \/ SetallVersion(t) \/ SetallUnlock(t)
    \/ UpdateLock(t) \/ UpdateUnlock(t) \/ UpdateRelock(t) \/ UpdateCompare(t)
    \/ UpdateEnd(t) \/ RootkeyLock(t)
LEMMA QuietStep ==
    ASSUME RInv, NEW t \in Threads, Quiet(t)
    PROVE  /\ redis' = redis /\ req' = req /\ current_root_key' = current_root_key
           /\ Pending(t) = {} /\ Pending(t)' = {}
           /\ pc[t] # "rootkey_copy" /\ pc'[t] # "rootkey_copy"
           /\ Phase(t)' = Phase(t) /\ Snap(t)' = Snap(t) /\ Code(t)' = Code(t)
<1> USE DEF RInv, Inv, TypeOK, SeenTypeOK, Goto, Pending, Phase, Snap, Code, Written,
            HoldsBasis, Nothing, RightIndex, Loops
<1>1. CASE Connect(t)
  BY <1>1 DEF Connect, Connected
<1>2. CASE ConnectFails(t)
  BY <1>2 DEF ConnectFails, Connecting
<1>3. CASE GetallLock(t)
  BY <1>3 DEF GetallLock
<1>4. CASE GetallUnlock(t)
  BY <1>4 DEF GetallUnlock
<1>5. CASE CheckLock(t)
  BY <1>5 DEF CheckLock
<1>6. CASE SetallLock(t)
  BY <1>6 DEF SetallLock
<1>7. CASE SetallVersion(t)
  BY <1>7 DEF SetallVersion, ReadKey
<1>8. CASE SetallUnlock(t)
  BY <1>8 DEF SetallUnlock
<1>9. CASE UpdateLock(t)
  BY <1>9 DEF UpdateLock
<1>10. CASE UpdateUnlock(t)
  BY <1>10 DEF UpdateUnlock
<1>11. CASE UpdateRelock(t)
  BY <1>11 DEF UpdateRelock
<1>12. CASE UpdateCompare(t)
  BY <1>12 DEF UpdateCompare
<1>13. CASE UpdateEnd(t)
  BY <1>13 DEF UpdateEnd, Collected
<1>14. CASE RootkeyLock(t)
  BY <1>14 DEF RootkeyLock
<1> QED
  BY <1>1, <1>2, <1>3, <1>4, <1>5, <1>6, <1>7, <1>8, <1>9, <1>10,
     <1>11, <1>12, <1>13, <1>14 DEF Quiet
-----------------------------------------------------------------------------
\* The steps with which a request arrives and its reply leaves.
LEMMA ReceiveMaps ==
    ASSUME RInv, ContentsFact, ContentsFact', RootFact, RootFact',
           NEW t \in Threads, Frame(t), NEW q \in Requests, Receive(t, q)
    PROVE  Store!Receive(t, q)
<1> USE DEF RInv, Inv, TypeOK, Goto
<1>1. /\ pc[t] = "idle" /\ redis' = redis /\ current_root_key' = current_root_key
      /\ req' = [req EXCEPT ![t] = q] /\ result_size' = result_size
  BY DEF Receive
<1>2. pc'[t] \in {"get_connect", "getall_connect", "check_lock", "update_connect",
                  "rootkey_lock"}
  BY RequestAssumption
     DEF Receive, Entry, GetRequest, GetallRequest, SetallRequest, UpdateRequest,
         RootkeyRequest
<1>3. Phase(t) = "idle" /\ Phase(t)' = "received"
  BY <1>1, <1>2 DEF Phase, HoldsBasis
<1>4. Snap(t)' = Snap(t)
  BY <1>3 DEF Snap, Nothing
<1>5. Code(t)' = Code(t)
  BY <1>1, <1>2 DEF Code, Written
<1>6. Contents' = Contents
  <2>1. Pending(t) = {} /\ Pending(t)' = {}
    BY <1>1, <1>2 DEF Pending
  <2> QED
    BY <1>1, <2>1, SameContents
<1>7. CurrentRoot' = CurrentRoot
  BY <1>1, <1>2, SameRoot
<1>8. Snaps' = Snaps /\ Codes' = Codes
  BY <1>4, <1>5, BarStep DEF Snaps, Codes
<1>9. Phases[t] = "idle" /\ Phases' = [Phases EXCEPT ![t] = "received"]
  BY <1>3, BarStep
<1> QED
  BY <1>1, <1>6, <1>7, <1>8, <1>9 DEF Store!Receive

LEMMA ReplyMaps ==
    ASSUME RInv, ContentsFact, ContentsFact', RootFact, RootFact',
           NEW t \in Threads, Frame(t), Reply(t)
    PROVE  Store!Reply(t)
<1> USE DEF RInv, Inv, TypeOK, SeenTypeOK, Goto
<1>1. /\ pc[t] = "reply" /\ pc'[t] = "idle"
      /\ redis' = redis /\ current_root_key' = current_root_key
      /\ req' = [req EXCEPT ![t] = NoRequest] /\ result_size'[t] = 1
  BY DEF Reply
<1>2. Phase(t) = "answered" /\ Phase(t)' = "idle"
  BY <1>1 DEF Phase, HoldsBasis
<1>3. Snap(t)' = Nothing /\ Code(t)' = 1
  BY <1>1, <1>2 DEF Snap, Nothing, Code, Written
<1>4. Contents' = Contents
  <2>1. Pending(t) = {} /\ Pending(t)' = {}
    BY <1>1 DEF Pending
  <2> QED
    BY <1>1, <2>1, SameContents
<1>5. CurrentRoot' = CurrentRoot
  BY <1>1, SameRoot
<1>6. /\ Phases[t] = "answered" /\ Phases' = [Phases EXCEPT ![t] = "idle"]
      /\ Snaps' = [Snaps EXCEPT ![t] = Nothing]
      /\ Codes' = [Codes EXCEPT ![t] = 1]
  BY <1>2, <1>3, BarStep
<1> QED
  BY <1>1, <1>4, <1>5, <1>6 DEF Store!Reply, Store!Nothing, Nothing

\* GET is answered when it reads.
LEMMA GetMaps ==
    ASSUME RInv, ContentsFact, ContentsFact', RootFact, RootFact',
           NEW t \in Threads, Frame(t), Get(t)
    PROVE  Store!Read(t)
<1> USE DEF RInv, Inv, TypeOK, SeenTypeOK, Goto
<1>1. /\ pc[t] = "get_read" /\ pc'[t] = "reply"
      /\ redis' = redis /\ current_root_key' = current_root_key
      /\ req' = req /\ result_size' = result_size
  BY DEF Get
<1>2. req[t].cmd = "GET"
  BY <1>1 DEF RightHandler, GetRequest
<1>3. Phase(t) = "received" /\ Phase(t)' = "answered"
  BY <1>1 DEF Phase, HoldsBasis
<1>4. Snap(t)' = Snap(t) /\ Code(t)' = 1
  BY <1>1, <1>2, <1>3 DEF Snap, Nothing, Code, Written, Collected
<1>5. Contents' = Contents
  <2>1. Pending(t) = {} /\ Pending(t)' = {}
    BY <1>1 DEF Pending
  <2> QED
    BY <1>1, <2>1, SameContents
<1>6. CurrentRoot' = CurrentRoot
  BY <1>1, SameRoot
<1>7. /\ Phases[t] = "received" /\ Phases' = [Phases EXCEPT ![t] = "answered"]
      /\ Snaps' = Snaps /\ Codes' = [Codes EXCEPT ![t] = 1]
  BY <1>3, <1>4, BarStep DEF Snaps
<1> QED
  BY <1>1, <1>2, <1>5, <1>6, <1>7 DEF Store!Read, Store!Answer

\* An upload is vetted, or refused, when its root key is compared: whoever
\* compares holds the lock of the root key, so nobody is changing it.
LEMMA CheckRootMaps ==
    ASSUME RInv, ContentsFact, ContentsFact', RootFact, RootFact',
           NEW t \in Threads, Frame(t), CheckRoot(t)
    PROVE  Store!Vet(t)
<1> USE DEF RInv, Inv, TypeOK, SeenTypeOK, Goto
<1> DEFINE matches == req[t].root_version = current_root_key
<1>1. /\ pc[t] = "check_root" /\ pc'[t] = IF matches THEN "setall_connect" ELSE "reply"
      /\ redis' = redis /\ current_root_key' = current_root_key /\ req' = req
      /\ result_size'[t] = IF matches THEN 1 ELSE 0
  BY DEF CheckRoot
<1>2. req[t].cmd = "SETALL" /\ result_size[t] = 1
  BY <1>1 DEF RightHandler, SetallPcs, SetallRequest, Collected
<1>3. CurrentRoot = current_root_key
  <2>1. \A u \in Threads : pc[u] # "rootkey_copy"
    BY <1>1 DEF Exclusion, RootCritical
  <2> QED
    BY <2>1 DEF RootFact
<1>4. Phase(t) = "received"
  BY <1>1 DEF Phase, HoldsBasis
<1>5. Phase(t)' = IF matches THEN "vetted" ELSE "answered"
  BY <1>1 DEF Phase, HoldsBasis
<1>6. Snap(t)' = Snap(t)
  BY <1>1, <1>2, <1>4, <1>5 DEF Snap, Nothing
<1>7. Code(t) = 1 /\ Code(t)' = IF matches THEN 1 ELSE 0
  BY <1>1, <1>2 DEF Code, Written
<1>8. Contents' = Contents
  <2>1. Pending(t) = {} /\ Pending(t)' = {}
    BY <1>1 DEF Pending
  <2> QED
    BY <1>1, <2>1, SameContents
<1>9. CurrentRoot' = CurrentRoot
  BY <1>1, SameRoot
<1>10. Phases[t] = "received" /\ Snaps' = Snaps
  BY <1>4, <1>6, BarStep DEF Snaps
<1>11. CASE matches
  <2>1. Phases' = [Phases EXCEPT ![t] = "vetted"] /\ Codes' = Codes
    BY <1>5, <1>7, <1>11, BarStep DEF Codes
  <2> QED
    BY <1>1, <1>2, <1>3, <1>8, <1>9, <1>10, <1>11, <2>1 DEF Store!Vet
<1>12. CASE ~matches
  <2>1. Phases' = [Phases EXCEPT ![t] = "answered"] /\ Codes' = [Codes EXCEPT ![t] = 0]
    BY <1>5, <1>7, <1>12, BarStep
  <2> QED
    BY <1>1, <1>2, <1>3, <1>8, <1>9, <1>10, <1>12, <2>1 DEF Store!Vet, Store!Answer
<1> QED
  BY <1>11, <1>12
-----------------------------------------------------------------------------
\* A thread in its critical section that has not begun to write sees the
\* records as RecordStore has them.
LEMMA NobodyWrites ==
    ASSUME Inv, ContentsFact, NEW t \in Threads, pc[t] \in Critical, Pending(t) = {}
    PROVE  \A r \in Records : Contents[r] = redis[r]
<1>1. ASSUME NEW u \in Threads
      PROVE  Pending(u) = {}
  <2>1. pc[u] \in Critical => u = t
    BY DEF Inv, Exclusion
  <2> QED
    BY <2>1 DEF Pending, Critical
<1> QED
  BY <1>1 DEF ContentsFact, Contents

\* GETALL takes effect with its last read: what it has read since it took the
\* lock is all still there.
LEMMA GetallReadMaps ==
    ASSUME RInv, ContentsFact, ContentsFact', RootFact, RootFact',
           NEW t \in Threads, Frame(t), GetallRead(t)
    PROVE  Store!Download(t) \/ UNCHANGED Store!vars
<1> USE DEF RInv, Inv, TypeOK, SeenTypeOK, Goto
<1>1. /\ pc[t] = "getall_read"
      /\ pc'[t] = IF at[t] = Len(req[t].keys) THEN "getall_unlock" ELSE "getall_read"
      /\ redis' = redis /\ current_root_key' = current_root_key
      /\ req' = req /\ result_size' = result_size
  BY DEF GetallRead, Turn
<1>2. /\ req[t] \in GetallRequest /\ req[t].cmd = "GETALL" /\ Rec(t) \in Records
      /\ at[t] \in 1..Len(req[t].keys) /\ Len(req[t].keys) \in {3, 4}
  BY <1>1, KeyLists DEF RightHandler, GetallPcs, GetallRequest, RightIndex, Rec
<1>3. Pending(t) = {} /\ Pending(t)' = {}
  BY <1>1 DEF Pending
<1>4. Phase(t) = "received" /\ Snap(t) = Nothing /\ Code(t) = 1 /\ Code(t)' = 1
  BY <1>1 DEF Phase, HoldsBasis, Snap, Code, Written, Collected
<1>5. CASE at[t] # Len(req[t].keys)
  <2>1. Phase(t)' = "received" /\ Snap(t)' = Nothing
    BY <1>1, <1>5 DEF Phase, HoldsBasis, Snap, Nothing
  <2>2. Phase(t)' = Phase(t) /\ Snap(t)' = Snap(t) /\ Code(t)' = Code(t)
    BY <1>4, <2>1
  <2> QED
    BY <1>1, <1>3, <2>2, Unseen
<1>6. CASE at[t] = Len(req[t].keys)
  <2> DEFINE asked == {req[t].keys[n] : n \in DOMAIN req[t].keys}
  <2>1. Phase(t)' = "answered" /\ Snap(t)' = seen'[t]
    BY <1>1, <1>2, <1>6 DEF Phase, HoldsBasis, Snap
  <2>2. seen'[t] = [g \in DOMAIN seen[t] \cup {req[t].keys[at[t]]} |->
                      IF g = req[t].keys[at[t]] THEN redis[Rec(t)][g] ELSE seen[t][g]]
    BY DEF GetallRead, ReadKey
  <2>3. seen'[t] = [g \in DOMAIN seen[t] \cup {req[t].keys[at[t]]} |-> redis[Rec(t)][g]]
    BY <1>1, <2>2 DEF Current
  <2>4. DOMAIN req[t].keys = 1..Len(req[t].keys)
    BY <1>2 DEF GetallRequest
  <2>5. ASSUME NEW f \in Keys
        PROVE  f \in DOMAIN seen[t] \cup {req[t].keys[at[t]]} <=> f \in asked
    <3>1. f \in DOMAIN seen[t] <=> \E n \in 1..5 : n < at[t] /\ f = req[t].keys[n]
      BY <1>1 DEF Collected
    <3>2. at[t] \in 1..5 /\ DOMAIN req[t].keys = 1..at[t]
      BY <1>2, <1>6, <2>4
    <3>3. f \in asked <=> \E n \in 1..at[t] : f = req[t].keys[n]
      BY <3>2
    <3>4. (\E n \in 1..at[t] : f = req[t].keys[n])
             <=> f = req[t].keys[at[t]] \/ \E n \in 1..5 : n < at[t] /\ f = req[t].keys[n]
      <4>1. ASSUME NEW n \in 1..at[t]
            PROVE  n = at[t] \/ (n \in 1..5 /\ n < at[t])
        BY <3>2, <4>1
      <4>2. at[t] \in 1..at[t] /\ \A n \in 1..5 : n < at[t] => n \in 1..at[t]
        BY <3>2
      <4> QED
        BY <4>1, <4>2
    <3> QED
      BY <3>1, <3>3, <3>4
  <2>6. asked \subseteq Keys /\ DOMAIN seen[t] \subseteq Keys /\ req[t].keys[at[t]] \in Keys
    BY <1>2, <2>4, KeyLists DEF SeenOK
  <2>7. DOMAIN seen[t] \cup {req[t].keys[at[t]]} = asked
    BY <2>5, <2>6
  <2>8. seen'[t] = [f \in asked |-> redis[Rec(t)][f]]
    BY <2>3, <2>7
  <2>9. Contents[Rec(t)] = redis[Rec(t)]
    BY <1>1, <1>2, <1>3, NobodyWrites DEF Critical
  <2>10. Snap(t)' = Store!Part(Contents[req[t].rec], Store!Asked(req[t]))
    BY <2>1, <2>8, <2>9 DEF Store!Part, Store!Asked, Rec
  <2>11. /\ Phases[t] = "received" /\ Phases' = [Phases EXCEPT ![t] = "answered"]
         /\ Codes' = [Codes EXCEPT ![t] = 1]
         /\ Snaps' = [Snaps EXCEPT ![t] = Store!Part(Contents[req[t].rec], Store!Asked(req[t]))]
    BY <1>4, <2>1, <2>10, BarStep
  <2>12. Contents' = Contents /\ CurrentRoot' = CurrentRoot
    BY <1>1, <1>3, SameContents, SameRoot
  <2> QED
    BY <1>1, <1>2, <2>11, <2>12 DEF Store!Download, Store!Answer
<1> QED
  BY <1>5, <1>6

\* UP_UPDATE has taken the record when it has read the payload.
LEMMA UpdateReadMaps ==
    ASSUME RInv, RInv', ContentsFact, ContentsFact', RootFact, RootFact',
           NEW t \in Threads, Frame(t), UpdateRead(t)
    PROVE  Store!Take(t) \/ UNCHANGED Store!vars
<1> USE DEF RInv, Inv, TypeOK, SeenTypeOK, Goto
<1>1. /\ pc[t] = "update_read" /\ at[t] \in 1..3
      /\ pc'[t] = IF at[t] = 3 THEN "update_unlock" ELSE "update_read"
      /\ redis' = redis /\ current_root_key' = current_root_key
      /\ req' = req /\ result_size' = result_size
  BY DEF UpdateRead, Turn, UpdateReads, RightIndex
<1>2. req[t].cmd = "UP_UPDATE" /\ Rec(t) \in Records
  BY <1>1 DEF RightHandler, UpdatePcs, UpdateRequest, Rec
<1>3. Pending(t) = {} /\ Pending(t)' = {}
  BY <1>1 DEF Pending
<1>4. Phase(t) = "received" /\ Snap(t) = Nothing /\ Code(t) = 1 /\ Code(t)' = 1
  BY <1>1 DEF Phase, HoldsBasis, Snap, Code, Written, Collected
<1>5. CASE at[t] # 3
  <2>1. Phase(t)' = "received" /\ Snap(t)' = Nothing
    BY <1>1, <1>5 DEF Phase, HoldsBasis, Snap, Nothing
  <2>2. Phase(t)' = Phase(t) /\ Snap(t)' = Snap(t) /\ Code(t)' = Code(t)
    BY <1>4, <2>1
  <2> QED
    BY <1>1, <1>3, <2>2, Unseen
<1>6. CASE at[t] = 3
  <2>1. Phase(t)' = "taken" /\ Snap(t)' = seen'[t]
    BY <1>1, <1>6 DEF Phase, HoldsBasis, Snap
  <2>2. seen'[t] = [f \in Basis |-> seen'[t][f]]
    BY <1>1, <1>6 DEF Collected, HoldsBasis
  <2>3. seen'[t] = [g \in DOMAIN seen[t] \cup {UpdateReads[at[t]]} |->
                      IF g = UpdateReads[at[t]] THEN redis[Rec(t)][g] ELSE seen[t][g]]
    BY DEF UpdateRead, ReadKey
  <2>4. ASSUME NEW f \in Basis
        PROVE  seen'[t][f] = redis[Rec(t)][f]
    <3>1. f \in DOMAIN seen[t] \cup {UpdateReads[at[t]]}
      <4>1. DOMAIN seen'[t] = Basis
        BY <2>2
      <4> QED
        BY <2>3, <4>1
    <3>2. f \in DOMAIN seen[t] => seen[t][f] = redis[Rec(t)][f]
      BY <1>1 DEF Current
    <3> QED
      BY <2>3, <3>1, <3>2
  <2>5. Contents[Rec(t)] = redis[Rec(t)]
    BY <1>1, <1>2, <1>3, NobodyWrites DEF Critical
  <2>6. Snap(t)' = Store!Part(Contents[req[t].rec], Store!Basis)
    BY <2>1, <2>2, <2>4, <2>5 DEF Store!Part, Store!Basis, Basis, Rec
  <2>7. /\ Phases[t] = "received" /\ Phases' = [Phases EXCEPT ![t] = "taken"]
        /\ Codes' = Codes
        /\ Snaps' = [Snaps EXCEPT ![t] = Store!Part(Contents[req[t].rec], Store!Basis)]
    <3>1. /\ Phases[t] = Phase(t) /\ Phases' = [Phases EXCEPT ![t] = Phase(t)']
          /\ Snaps' = [Snaps EXCEPT ![t] = Snap(t)']
      BY BarStep
    <3>2. Codes' = Codes
      BY <1>4, BarStep DEF Codes
    <3> QED
      BY <1>4, <2>1, <2>6, <3>1, <3>2
  <2>8. Contents' = Contents /\ CurrentRoot' = CurrentRoot
    BY <1>1, <1>3, SameContents, SameRoot
  <2> QED
    BY <1>1, <1>2, <2>7, <2>8 DEF Store!Take
<1> QED
  BY <1>5, <1>6

\* A conflict is only ever reported of a record that has changed.
LEMMA UpdateConflictMaps ==
    ASSUME RInv, ContentsFact, ContentsFact', RootFact, RootFact',
           NEW t \in Threads, Frame(t), UpdateConflict(t)
    PROVE  Store!Conflict(t)
<1> USE DEF RInv, Inv, TypeOK, SeenTypeOK, Goto
<1>1. /\ pc[t] = "update_compare" /\ pc'[t] = "reply"
      /\ redis' = redis /\ current_root_key' = current_root_key
      /\ req' = req /\ result_size'[t] = 1
      /\ redis[Rec(t)].ctxt_version # seen[t].ctxt_version
  BY DEF UpdateConflict, VersionUnchanged
<1>2. req[t].cmd = "UP_UPDATE" /\ Rec(t) \in Records
  BY <1>1 DEF RightHandler, UpdatePcs, UpdateRequest, Rec
<1>3. Pending(t) = {} /\ Pending(t)' = {}
  BY <1>1 DEF Pending
<1>4. Phase(t) = "taken" /\ Snap(t) = seen[t]
  BY <1>1 DEF Phase, HoldsBasis, Snap
<1>5. Phase(t)' = "answered" /\ Snap(t)' = Nothing /\ Code(t)' = 1
  BY <1>1, <1>2 DEF Phase, HoldsBasis, Snap, Nothing, Code, Written
<1>6. Contents[Rec(t)] = redis[Rec(t)]
  BY <1>1, <1>2, <1>3, NobodyWrites DEF Critical
<1>7. Store!Part(Contents[req[t].rec], Store!Basis) # Snaps[t]
  <2>1. Store!Part(Contents[req[t].rec], Store!Basis)["ctxt_version"]
           = redis[Rec(t)].ctxt_version
    BY <1>6 DEF Store!Part, Store!Basis, Rec
  <2> QED
    BY <1>1, <1>4, <2>1, BarStep
<1>8. /\ Phases[t] = "taken" /\ Phases' = [Phases EXCEPT ![t] = "answered"]
      /\ Snaps' = [Snaps EXCEPT ![t] = Nothing] /\ Codes' = [Codes EXCEPT ![t] = 1]
  BY <1>4, <1>5, BarStep
<1>9. Contents' = Contents /\ CurrentRoot' = CurrentRoot
  BY <1>1, <1>3, SameContents, SameRoot
<1> QED
  BY <1>1, <1>7, <1>8, <1>9 DEF Store!Conflict, Store!Answer, Store!Nothing, Nothing

\* The root key takes effect when it is cleared.
LEMMA RootkeyMaps ==
    ASSUME RInv, ContentsFact, ContentsFact', RootFact, RootFact',
           RInv', NEW t \in Threads, Frame(t), RootkeyClear(t) \/ RootkeyCopy(t)
    PROVE  Store!SwitchRoot(t) \/ UNCHANGED Store!vars
<1> USE DEF RInv, Inv, TypeOK, SeenTypeOK, Goto
<1>1. CASE RootkeyClear(t)
  <2>1. /\ pc[t] = "rootkey_clear" /\ pc'[t] = "rootkey_copy"
        /\ redis' = redis /\ req' = req /\ result_size' = result_size
    BY <1>1 DEF RootkeyClear
  <2>2. req[t].cmd = "ROOTKEY"
    BY <2>1 DEF RightHandler, RootkeyPcs, RootkeyRequest
  <2>3. Phase(t) = "received" /\ Phase(t)' = "answered" /\ Code(t)' = 1
    BY <2>1 DEF Phase, HoldsBasis, Code, Written, Collected
  <2>4. Snap(t)' = Snap(t)
    BY <2>1, <2>2, <2>3 DEF Snap, Nothing
  <2>5. Contents' = Contents
    <3>1. Pending(t) = {} /\ Pending(t)' = {}
      BY <2>1 DEF Pending
    <3> QED
      BY <2>1, <3>1, SameContents
  <2>6. CurrentRoot' = req[t].root
    BY <2>1 DEF RootFact
  <2>7. /\ Phases[t] = "received" /\ Phases' = [Phases EXCEPT ![t] = "answered"]
        /\ Snaps' = Snaps /\ Codes' = [Codes EXCEPT ![t] = 1]
    BY <2>3, <2>4, BarStep DEF Snaps
  <2> QED
    BY <2>1, <2>2, <2>5, <2>6, <2>7 DEF Store!SwitchRoot, Store!Answer
<1>2. CASE RootkeyCopy(t)
  <2>1. /\ pc[t] = "rootkey_copy" /\ pc'[t] = "reply"
        /\ redis' = redis /\ req' = req /\ result_size' = result_size
        /\ current_root_key' = req[t].root
    BY <1>2 DEF RootkeyCopy
  <2>2. req[t].cmd = "ROOTKEY"
    BY <2>1 DEF RightHandler, RootkeyPcs, RootkeyRequest
  <2>3. Phase(t)' = Phase(t) /\ Code(t)' = Code(t)
    BY <2>1 DEF Phase, HoldsBasis, Code, Written
  <2>4. Snap(t)' = Snap(t)
    BY <2>1, <2>2, <2>3 DEF Snap, Nothing, Phase, HoldsBasis
  <2>5. Contents' = Contents
    <3>1. Pending(t) = {} /\ Pending(t)' = {}
      BY <2>1 DEF Pending
    <3> QED
      BY <2>1, <3>1, SameContents
  <2>6. CurrentRoot' = CurrentRoot
    <3>1. \A u \in Threads : pc'[u] # "rootkey_copy"
      BY <2>1 DEF Frame, Exclusion, RootCritical
    <3>2. CurrentRoot' = current_root_key' /\ CurrentRoot = req[t].root
      BY <2>1, <3>1 DEF RootFact
    <3> QED
      BY <2>1, <3>2
  <2>7. Phases' = Phases /\ Snaps' = Snaps /\ Codes' = Codes
    BY <2>3, <2>4, BarStep DEF Phases, Snaps, Codes
  <2> QED
    BY <2>1, <2>5, <2>6, <2>7 DEF Store!vars
<1> QED
  BY <1>1, <1>2
-----------------------------------------------------------------------------
\* The keys left to write, as the loops go on.
LEMMA SetallElements ==
    /\ Elements(SetallWrites, 2) = {"wrap", "header", "data", "root_version"}
    /\ Elements(SetallWrites, 3) = {"header", "data", "root_version"}
    /\ Elements(SetallWrites, 4) = {"data", "root_version"}
    /\ Elements(SetallWrites, 5) = {"root_version"}
<1>1. \A n \in 1..5 : Elements(SetallWrites, n) = {SetallWrites[k] : k \in n..5}
  BY DEF Elements, SetallWrites
<1>2. 2..5 = {2, 3, 4, 5} /\ 3..5 = {3, 4, 5} /\ 4..5 = {4, 5} /\ 5..5 = {5}
  OBVIOUS
<1> QED
  BY <1>1, <1>2 DEF SetallWrites

LEMMA UpdateElements ==
    /\ Elements(UpdateWrites, 2) = {"header", "data", "ctxt_version"}
    /\ Elements(UpdateWrites, 3) = {"data", "ctxt_version"}
    /\ Elements(UpdateWrites, 4) = {"ctxt_version"}
<1>1. \A n \in 1..4 : Elements(UpdateWrites, n) = {UpdateWrites[k] : k \in n..4}
  BY DEF Elements, UpdateWrites
<1>2. 2..4 = {2, 3, 4} /\ 3..4 = {3, 4} /\ 4..4 = {4}
  OBVIOUS
<1> QED
  BY <1>1, <1>2 DEF UpdateWrites

\* A write of a value that was still to be written changes nothing.
LEMMA WriteGoesOn ==
    ASSUME Inv, ContentsFact, ContentsFact', NEW t \in Threads, Frame(t),
           NEW f \in Pending(t), f \in Keys, Pending(t)' = Pending(t) \ {f},
           redis' = [redis EXCEPT ![Rec(t)][f] = Value(t, f)],
           Rec(t) \in Records, Rec(t)' = Rec(t),
           \A g \in Pending(t)' : Value(t, g)' = Value(t, g)
    PROVE  Contents' = Contents
<1>1. ASSUME NEW r \in Records
      PROVE  Settled(r) = [g \in Keys |-> IF r = Rec(t) /\ g \in Pending(t)
                                            THEN Value(t, g) ELSE redis[r][g]]
  BY DEF ContentsFact
<1>2. ASSUME NEW r \in Records
      PROVE  /\ redis[r] = [g \in Keys |-> redis[r][g]]
             /\ redis'[r] = [g \in Keys |-> redis'[r][g]]
             /\ \A g \in Keys : redis'[r][g] = IF r = Rec(t) /\ g = f
                                               THEN Value(t, f) ELSE redis[r][g]
  BY DEF Inv, TypeOK, Record, Keys
<1>3. CASE Pending(t)' # {}
  <2>1. ASSUME NEW r \in Records
        PROVE  Settled(r)' = Settled(r)
    <3>1. Settled(r)' = [g \in Keys |-> IF r = Rec(t)' /\ g \in Pending(t)'
                                          THEN Value(t, g)' ELSE redis'[r][g]]
      BY <1>3 DEF ContentsFact
    <3>2. ASSUME NEW g \in Keys
          PROVE  (IF r = Rec(t)' /\ g \in Pending(t)' THEN Value(t, g)' ELSE redis'[r][g])
                  = IF r = Rec(t) /\ g \in Pending(t) THEN Value(t, g) ELSE redis[r][g]
      <4>1. redis'[r][g] = IF r = Rec(t) /\ g = f THEN Value(t, f) ELSE redis[r][g]
        BY <1>2
      <4>2. g \in Pending(t)' <=> g \in Pending(t) /\ g # f
        OBVIOUS
      <4>3. g \in Pending(t)' => Value(t, g)' = Value(t, g)
        OBVIOUS
      <4> QED
        BY <4>1, <4>2, <4>3
    <3> QED
      BY <1>1, <3>1, <3>2
  <2> QED
    BY <2>1 DEF Contents
<1>4. CASE Pending(t)' = {}
  <2>1. ASSUME NEW u \in Threads
        PROVE  Pending(u)' = {}
    <3>1. CASE u = t
      BY <1>4, <3>1
    <3>2. CASE u # t
      <4>1. Pending(u) = {}
        BY <3>2 DEF Inv, Exclusion, Critical, Pending
      <4>2. pc'[u] = pc[u] /\ at'[u] = at[u]
        BY <3>2 DEF Frame
      <4> QED
        BY <4>1, <4>2 DEF Pending
    <3> QED
      BY <3>1, <3>2
  <2>2. ASSUME NEW r \in Records
        PROVE  Settled(r)' = Settled(r)
    <3>1. Settled(r)' = redis'[r]
      BY <2>1 DEF ContentsFact
    <3>2. Pending(t) = {f}
      BY <1>4
    <3>3. ASSUME NEW g \in Keys
          PROVE  redis'[r][g] = IF r = Rec(t) /\ g \in Pending(t)
                                  THEN Value(t, g) ELSE redis[r][g]
      <4>1. redis'[r][g] = IF r = Rec(t) /\ g = f THEN Value(t, f) ELSE redis[r][g]
        BY <1>2
      <4>2. g \in Pending(t) <=> g = f
        BY <3>2
      <4> QED
        BY <4>1, <4>2
    <3>4. Settled(r) = [g \in Keys |-> redis'[r][g]]
      BY <1>1, <3>3
    <3>5. redis'[r] = [g \in Keys |-> redis'[r][g]]
      BY <1>2
    <3> QED
      BY <3>1, <3>4, <3>5
  <2> QED
    BY <2>2 DEF Contents
<1> QED
  BY <1>3, <1>4

\* With the first write of a thread all of its writes have happened.
LEMMA WriteBegins ==
    ASSUME Inv, ContentsFact, ContentsFact', NEW t \in Threads,
           pc[t] \in Critical, Pending(t) = {}, Pending(t)' # {},
           Rec(t) \in Records, Rec(t)' = Rec(t),
           \A r \in Records \ {Rec(t)} : redis'[r] = redis[r]
    PROVE  Contents' = [Contents EXCEPT ![Rec(t)] =
                           [g \in Keys |-> IF g \in Pending(t)' THEN Value(t, g)'
                                           ELSE redis'[Rec(t)][g]]]
<1> DEFINE new == [g \in Keys |-> IF g \in Pending(t)' THEN Value(t, g)'
                                  ELSE redis'[Rec(t)][g]]
<1>1. ASSUME NEW r \in Records
      PROVE  Settled(r)' = [g \in Keys |-> IF r = Rec(t)' /\ g \in Pending(t)'
                                             THEN Value(t, g)' ELSE redis'[r][g]]
  BY DEF ContentsFact
<1>2. ASSUME NEW r \in Records
      PROVE  redis[r] = [g \in Keys |-> redis[r][g]]
  BY DEF Inv, TypeOK, Record, Keys
<1>3. ASSUME NEW r \in Records, r # Rec(t)
      PROVE  Settled(r)' = Contents[r]
  BY <1>1, <1>2, <1>3, NobodyWrites
<1>4. ASSUME NEW r \in Records, r = Rec(t)
      PROVE  Settled(r)' = new
  BY <1>1, <1>4
<1>5. Contents' = [r \in Records |-> IF r = Rec(t) THEN new ELSE Contents[r]]
  <2> HIDE DEF new
  <2> QED
    BY <1>3, <1>4 DEF Contents
<1>6. Contents = [r \in Records |-> Contents[r]]
  BY DEF Contents
<1> QED
  BY <1>5, <1>6

\* SETALL takes effect with its first write, the version: the rest of what it
\* stores is then settled.
LEMMA SetallWriteMaps ==
    ASSUME RInv, ContentsFact, ContentsFact', RootFact, RootFact',
           NEW t \in Threads, Frame(t), SetallWrite(t)
    PROVE  Store!Upload(t) \/ UNCHANGED Store!vars
<1> USE DEF RInv, Inv, TypeOK, SeenTypeOK, Goto
<1>1. /\ pc[t] = "setall_write" /\ at[t] \in 1..5
      /\ pc'[t] = IF at[t] = 5 THEN "setall_unlock" ELSE "setall_write"
      /\ at'[t] = IF at[t] = 5 THEN 1 ELSE at[t] + 1
      /\ current_root_key' = current_root_key /\ req' = req /\ seen' = seen
      /\ result_size' = result_size
  BY DEF SetallWrite, Turn, SetallWrites, RightIndex
<1>2. /\ req[t] \in SetallRequest /\ req[t].cmd = "SETALL"
      /\ Rec(t) \in Records /\ Rec(t)' = Rec(t)
  BY <1>1 DEF RightHandler, SetallPcs, SetallRequest, Rec
<1>3. /\ redis' = [redis EXCEPT ![Rec(t)][SetallWrites[at[t]]] =
                      Uploaded(t)[SetallWrites[at[t]]]]
      /\ SetallWrites[at[t]] \in Keys
  BY <1>1 DEF SetallWrite, WriteKey, SetallWrites, Keys
<1>4. Uploaded(t)' = Uploaded(t)
  BY <1>1 DEF Uploaded
<1>5. CurrentRoot' = CurrentRoot
  BY <1>1, SameRoot
<1>6. Code(t) = 1 /\ Code(t)' = 1 /\ Snap(t) = Nothing /\ Snap(t)' = Nothing
  BY <1>1, <1>2 DEF Code, Written, Snap, Phase, HoldsBasis, Nothing, Collected
<1>7. CASE at[t] = 1
  <2>1. Phase(t) = "vetted" /\ Phase(t)' = "answered"
    BY <1>1, <1>7 DEF Phase, HoldsBasis
  <2>2. /\ Pending(t) = {} /\ Pending(t)' = {"wrap", "header", "data", "root_version"}
        /\ pc'[t] = "setall_write"
    BY <1>1, <1>7, SetallElements DEF Pending
  <2>3. seen[t].ctxt_version = redis[Rec(t)].ctxt_version
    BY <1>1, <1>7 DEF Current
  <2>4. redis' = [redis EXCEPT ![Rec(t)]["ctxt_version"] = seen[t].ctxt_version + 1]
    <3>1. SetallWrites[1] = "ctxt_version"
      BY DEF SetallWrites
    <3>2. Uploaded(t)["ctxt_version"] = seen[t].ctxt_version + 1
      BY DEF Uploaded
    <3> QED
      BY <1>3, <1>7, <3>1, <3>2
  <2>5. Contents[Rec(t)] = redis[Rec(t)]
    BY <1>1, <1>2, <2>2, NobodyWrites DEF Critical
  <2>6. Store!Uploaded(req[t], Contents[Rec(t)])
           = [g \in Keys |-> IF g \in Pending(t)' THEN Value(t, g)'
                             ELSE redis'[Rec(t)][g]]
    <3>1. ASSUME NEW g \in Pending(t)'
          PROVE  Value(t, g)' = Uploaded(t)[g]
      BY <1>4, <2>2 DEF Value
    <3>2. redis'[Rec(t)]["ctxt_version"] = Uploaded(t).ctxt_version
      BY <1>2, <2>4 DEF Uploaded, Record
    <3>3. Store!Uploaded(req[t], Contents[Rec(t)]) = [g \in Keys |-> Uploaded(t)[g]]
      BY <2>3, <2>5 DEF Store!Uploaded, Uploaded, Keys
    <3> QED
      BY <2>2, <3>1, <3>2, <3>3 DEF Keys
  <2>7. Contents' = [Contents EXCEPT ![Rec(t)] = Store!Uploaded(req[t], Contents[Rec(t)])]
    <3>1. pc[t] \in Critical /\ Pending(t)' # {}
      BY <1>1, <2>2 DEF Critical
    <3>2. \A r \in Records \ {Rec(t)} : redis'[r] = redis[r]
      BY <1>3
    <3>3. Contents' = [Contents EXCEPT ![Rec(t)] =
                         [g \in Keys |-> IF g \in Pending(t)' THEN Value(t, g)'
                                         ELSE redis'[Rec(t)][g]]]
      BY <1>2, <2>2, <3>1, <3>2, WriteBegins
    <3> QED
      BY <2>6, <3>3
  <2>8. /\ Phases[t] = "vetted" /\ Phases' = [Phases EXCEPT ![t] = "answered"]
        /\ Codes' = [Codes EXCEPT ![t] = 1] /\ Snaps' = Snaps
    <3>1. Snaps' = Snaps
      BY <1>6, BarStep DEF Snaps
    <3> QED
      BY <1>6, <2>1, <3>1, BarStep
  <2> QED
    BY <1>1, <1>5, <2>7, <2>8 DEF Store!Upload, Store!Answer, Rec
<1>8. CASE at[t] # 1
  <2>1. Phase(t) = "answered" /\ Phase(t)' = "answered"
    BY <1>1, <1>8 DEF Phase, HoldsBasis
  <2>2. /\ SetallWrites[at[t]] \in Pending(t)
        /\ Pending(t)' = Pending(t) \ {SetallWrites[at[t]]}
    <3>1. CASE at[t] = 5
      BY <1>1, <3>1, SetallElements DEF Pending, SetallWrites
    <3>2. CASE at[t] = 4
      BY <1>1, <3>2, SetallElements DEF Pending, SetallWrites
    <3>3. CASE at[t] = 3
      BY <1>1, <3>3, SetallElements DEF Pending, SetallWrites
    <3>4. CASE at[t] = 2
      BY <1>1, <3>4, SetallElements DEF Pending, SetallWrites
    <3> QED
      BY <1>1, <1>8, <3>1, <3>2, <3>3, <3>4
  <2>3. \A g \in Pending(t) : Value(t, g) = Uploaded(t)[g]
    BY <1>1 DEF Value
  <2>4. \A g \in Pending(t)' : Value(t, g)' = Value(t, g)
    <3>1. CASE at[t] = 5
      BY <1>1, <3>1 DEF Pending
    <3>2. CASE at[t] # 5
      BY <1>1, <1>4, <3>2 DEF Value
    <3> QED
      BY <3>1, <3>2
  <2>5. Contents' = Contents
    BY <1>2, <1>3, <2>2, <2>3, <2>4, WriteGoesOn
  <2>6. Phases' = Phases /\ Snaps' = Snaps /\ Codes' = Codes
    BY <1>6, <2>1, BarStep DEF Phases, Snaps, Codes
  <2> QED
    BY <1>1, <1>5, <2>5, <2>6 DEF Store!vars
<1> QED
  BY <1>7, <1>8

\* UP_UPDATE takes effect with its first write: it replaces the very header and
\* payload it took, since the version was compared under the lock.
LEMMA UpdateWriteMaps ==
    ASSUME RInv, ContentsFact, ContentsFact', RootFact, RootFact',
           NEW t \in Threads, Frame(t), UpdateWrite(t)
    PROVE  Store!Update(t) \/ UNCHANGED Store!vars
<1> USE DEF RInv, Inv, TypeOK, SeenTypeOK, Goto
<1>1. /\ pc[t] = "update_write" /\ at[t] \in 1..4
      /\ pc'[t] = IF at[t] = 4 THEN "update_end" ELSE "update_write"
      /\ at'[t] = IF at[t] = 4 THEN 1 ELSE at[t] + 1
      /\ current_root_key' = current_root_key /\ req' = req /\ seen' = seen
      /\ result_size' = result_size
  BY DEF UpdateWrite, Turn, UpdateWrites, RightIndex
<1>2. /\ req[t] \in UpdateRequest /\ req[t].cmd = "UP_UPDATE"
      /\ Rec(t) \in Records /\ Rec(t)' = Rec(t)
  BY <1>1 DEF RightHandler, UpdatePcs, UpdateRequest, Rec
<1>3. /\ redis' = [redis EXCEPT ![Rec(t)][UpdateWrites[at[t]]] =
                      Updated(t)[UpdateWrites[at[t]]]]
      /\ UpdateWrites[at[t]] \in Keys
  BY <1>1 DEF UpdateWrite, WriteKey, UpdateWrites, Keys
<1>4. Updated(t)' = Updated(t)
  BY <1>1 DEF Updated
<1>5. CurrentRoot' = CurrentRoot
  BY <1>1, SameRoot
<1>6. CASE at[t] = 1
  <2>1. Phase(t) = "taken" /\ Phase(t)' = "answered"
    BY <1>1, <1>6 DEF Phase, HoldsBasis
  <2>2. /\ Pending(t) = {} /\ Pending(t)' = {"header", "data", "ctxt_version"}
        /\ pc'[t] = "update_write"
    BY <1>1, <1>6, UpdateElements DEF Pending
  <2>3. Snap(t) = seen[t] /\ Snap(t)' = Nothing /\ Code(t)' = 0
    BY <1>1, <1>2, <1>6, <2>1 DEF Snap, Nothing, Code, Written
  <2>4. Contents[Rec(t)] = redis[Rec(t)]
    BY <1>1, <1>2, <2>2, NobodyWrites DEF Critical
  <2>5. \A f \in Basis : seen[t][f] = redis[Rec(t)][f]
    BY <1>1, <1>6 DEF Basis, Current, VersionGuard, SameBasis
  <2>6. Store!Part(Contents[req[t].rec], Store!Basis) = Snaps[t]
    <3>1. seen[t] = [f \in Basis |-> redis[Rec(t)][f]]
      <4>1. seen[t] = [f \in Basis |-> seen[t][f]]
        BY <1>1 DEF Collected
      <4> QED
        BY <2>5, <4>1
    <3>2. Snaps[t] = seen[t]
      BY <2>3, BarStep
    <3> QED
      BY <2>4, <3>1, <3>2 DEF Store!Part, Store!Basis, Basis, Rec
  <2>7. redis' = [redis EXCEPT ![Rec(t)]["wrap"] = req[t].wrap]
    <3>1. UpdateWrites[1] = "wrap"
      BY DEF UpdateWrites
    <3>2. Updated(t)["wrap"] = req[t].wrap
      BY DEF Updated
    <3> QED
      BY <1>3, <1>6, <3>1, <3>2
  <2>8. Store!Updated(req[t], Contents[Rec(t)])
           = [g \in Keys |-> IF g \in Pending(t)' THEN Value(t, g)'
                             ELSE redis'[Rec(t)][g]]
    <3>1. ASSUME NEW g \in Pending(t)'
          PROVE  Value(t, g)' = Updated(t)[g]
      BY <1>4, <2>2 DEF Value
    <3>2. /\ redis'[Rec(t)]["wrap"] = req[t].wrap
          /\ redis'[Rec(t)]["root_version"] = redis[Rec(t)].root_version
      BY <1>2, <2>7 DEF Record
    <3>3. /\ Updated(t)["header"] = ReEncryptedHeader(req[t].delta)
          /\ Updated(t)["data"] = ReEncryptedData(req[t].delta, redis[Rec(t)].data)
          /\ Updated(t)["ctxt_version"] = redis[Rec(t)].ctxt_version + 1
      BY <2>5 DEF Updated, Basis
    <3>4. Store!Updated(req[t], redis[Rec(t)])
             = [g \in Keys |-> CASE g = "wrap" -> req[t].wrap
                                 [] g = "header" -> ReEncryptedHeader(req[t].delta)
                                 [] g = "data" ->
                                      ReEncryptedData(req[t].delta, redis[Rec(t)].data)
                                 [] g = "ctxt_version" -> redis[Rec(t)].ctxt_version + 1
                                 [] g = "root_version" -> redis[Rec(t)].root_version]
      BY <1>2 DEF Store!Updated, Store!ReEncryptedHeader, Store!ReEncryptedData,
                  ReEncryptedHeader, ReEncryptedData, Record, Keys
    <3> QED
      BY <2>2, <2>4, <3>1, <3>2, <3>3, <3>4 DEF Keys
  <2>9. Contents' = [Contents EXCEPT ![Rec(t)] = Store!Updated(req[t], Contents[Rec(t)])]
    <3>1. pc[t] \in Critical /\ Pending(t)' # {}
      BY <1>1, <2>2 DEF Critical
    <3>2. \A r \in Records \ {Rec(t)} : redis'[r] = redis[r]
      BY <1>3
    <3>3. Contents' = [Contents EXCEPT ![Rec(t)] =
                         [g \in Keys |-> IF g \in Pending(t)' THEN Value(t, g)'
                                         ELSE redis'[Rec(t)][g]]]
      BY <1>2, <2>2, <3>1, <3>2, WriteBegins
    <3> QED
      BY <2>8, <3>3
  <2>10. /\ Phases[t] = "taken" /\ Phases' = [Phases EXCEPT ![t] = "answered"]
         /\ Codes' = [Codes EXCEPT ![t] = 0] /\ Snaps' = [Snaps EXCEPT ![t] = Nothing]
    BY <2>1, <2>3, BarStep
  <2> QED
    BY <1>1, <1>5, <2>6, <2>9, <2>10
       DEF Store!Update, Store!Answer, Store!Nothing, Nothing, Rec
<1>7. CASE at[t] # 1
  <2>1. Phase(t) = "answered" /\ Phase(t)' = "answered"
    BY <1>1, <1>7 DEF Phase, HoldsBasis
  <2>2. /\ UpdateWrites[at[t]] \in Pending(t)
        /\ Pending(t)' = Pending(t) \ {UpdateWrites[at[t]]}
    <3>1. CASE at[t] = 4
      BY <1>1, <3>1, UpdateElements DEF Pending, UpdateWrites
    <3>2. CASE at[t] = 3
      BY <1>1, <3>2, UpdateElements DEF Pending, UpdateWrites
    <3>3. CASE at[t] = 2
      BY <1>1, <3>3, UpdateElements DEF Pending, UpdateWrites
    <3> QED
      BY <1>1, <1>7, <3>1, <3>2, <3>3
  <2>3. \A g \in Pending(t) : Value(t, g) = Updated(t)[g]
    BY <1>1 DEF Value
  <2>4. \A g \in Pending(t)' : Value(t, g)' = Value(t, g)
    <3>1. CASE at[t] = 4
      BY <1>1, <3>1 DEF Pending
    <3>2. CASE at[t] # 4
      BY <1>1, <1>4, <3>2 DEF Value
    <3> QED
      BY <3>1, <3>2
  <2>5. Contents' = Contents
    BY <1>2, <1>3, <2>2, <2>3, <2>4, WriteGoesOn
  <2>6. Snap(t) = Nothing /\ Snap(t)' = Nothing /\ Code(t) = 0 /\ Code(t)' = 0
    BY <1>1, <1>2, <1>7, <2>1 DEF Snap, Nothing, Code, Written
  <2>7. Phases' = Phases /\ Snaps' = Snaps /\ Codes' = Codes
    BY <2>1, <2>6, BarStep DEF Phases, Snaps, Codes
  <2> QED
    BY <1>1, <1>5, <2>5, <2>7 DEF Store!vars
<1> QED
  BY <1>6, <1>7
-----------------------------------------------------------------------------
\* The initial states map to those of RecordStore.
LEMMA InitMaps == Init => Store!Init
<1> SUFFICES ASSUME Init PROVE Store!Init
  OBVIOUS
<1>1. PICK rho \in Roots, g \in Gens, m \in Messages :
          redis = [r \in Records |-> Populated(rho, g, m)]
  BY DEF Init
<1>2. Inv
  BY InitInv
<1>3. \A u \in Threads : pc[u] = "idle" /\ at[u] = 1
  BY DEF Init
<1>4. Contents = [r \in Records |-> Store!Populated(rho, g, m)]
  <2>1. \A u \in Threads : Pending(u) = {}
    BY <1>3 DEF Pending
  <2>2. \A r \in Records : Settled(r) = redis[r]
    BY <1>2, <2>1, ContentsLemma DEF ContentsFact
  <2> QED
    BY <1>1, <2>2 DEF Contents, Populated, Store!Populated, Encrypted, Store!Encrypted
<1>5. CurrentRoot = NoRoot
  BY <1>3 DEF CurrentRoot, Init
<1>6. ASSUME NEW u \in Threads
      PROVE  Phase(u) = "idle" /\ Snap(u) = Nothing /\ Code(u) = 1
  BY <1>3 DEF Phase, HoldsBasis, Snap, Nothing, Code, Written, Init
<1>7. /\ Phases = [u \in Threads |-> "idle"]
      /\ Snaps = [u \in Threads |-> Nothing]
      /\ Codes = [u \in Threads |-> 1]
  BY <1>6 DEF Phases, Snaps, Codes
<1> QED
  BY <1>1, <1>4, <1>5, <1>7 DEF Init, Store!Init, Store!Nothing, Nothing

\* Every step maps to a step of RecordStore or to none.
LEMMA NextMaps == RInv /\ RInv' /\ [Next]_vars => [Store!Next]_(Store!vars)
<1> SUFFICES ASSUME RInv, RInv', [Next]_vars
             PROVE  [Store!Next]_(Store!vars)
  OBVIOUS
<1>1. ContentsFact /\ RootFact
  BY ContentsLemma, RootLemma DEF RInv
<1>2. Inv'
  BY DEF RInv
<1>3. ContentsFact'
  BY <1>2, ContentsLemma, PTL
<1>4. RootFact'
  BY <1>2, RootLemma, PTL
<1>5. CASE UNCHANGED vars
  <2>1. Contents' = Contents
    BY <1>5 DEF vars, locks, Contents, Settled, Pending, Rec, Value, Uploaded, Updated
  <2>2. CurrentRoot' = CurrentRoot
    BY <1>5 DEF vars, CurrentRoot
  <2>3. Phases' = Phases /\ Snaps' = Snaps /\ Codes' = Codes
    BY <1>5 DEF vars, Phases, Snaps, Codes, Phase, Snap, Code, Written, HoldsBasis
  <2> QED
    BY <1>5, <2>1, <2>2, <2>3 DEF vars, Store!vars
<1>6. CASE Next
  <2>1. PICK t \in Threads : Step(t) \/ \E q \in Requests : Receive(t, q)
    BY <1>6 DEF Next
  <2>2. Frame(t)
    BY <2>1, FrameStep DEF RInv
  <2>3. CASE \E q \in Requests : Receive(t, q)
    BY <1>1, <1>3, <1>4, <2>2, <2>3, ReceiveMaps DEF Store!Next
  <2>4. CASE Reply(t)
    BY <1>1, <1>3, <1>4, <2>2, <2>4, ReplyMaps DEF Store!Next
  <2>5. CASE Get(t)
    BY <1>1, <1>3, <1>4, <2>2, <2>5, GetMaps DEF Store!Next
  <2>6. CASE CheckRoot(t)
    BY <1>1, <1>3, <1>4, <2>2, <2>6, CheckRootMaps DEF Store!Next
  <2>7. CASE GetallRead(t)
    BY <1>1, <1>3, <1>4, <2>2, <2>7, GetallReadMaps DEF Store!Next
  <2>8. CASE UpdateRead(t)
    BY <1>1, <1>3, <1>4, <2>2, <2>8, UpdateReadMaps DEF Store!Next
  <2>9. CASE UpdateConflict(t)
    BY <1>1, <1>3, <1>4, <2>2, <2>9, UpdateConflictMaps DEF Store!Next
  <2>10. CASE RootkeyClear(t) \/ RootkeyCopy(t)
    BY <1>1, <1>3, <1>4, <2>2, <2>10, RootkeyMaps DEF Store!Next
  <2>11. CASE SetallWrite(t)
    BY <1>1, <1>3, <1>4, <2>2, <2>11, SetallWriteMaps DEF Store!Next
  <2>12. CASE UpdateWrite(t)
    BY <1>1, <1>3, <1>4, <2>2, <2>12, UpdateWriteMaps DEF Store!Next
  <2>13. CASE Quiet(t)
    BY <1>1, <1>3, <1>4, <2>2, <2>13, QuietStep, Unseen
  <2> QED
    BY <2>1, <2>3, <2>4, <2>5, <2>6, <2>7, <2>8, <2>9, <2>10, <2>11, <2>12, <2>13
       DEF Step, Quiet
<1> QED
  BY <1>5, <1>6

\* Whatever the threads of simple_server.c interleave, every command takes
\* effect at one instant, as RecordStore says (anti_rc_lock and
\* current_root_key_lock, lines 365-655 and 815-829).
THEOREM ServerIsAtomic == Spec => ImplementsRecordStore
<1>1. Spec => []RInv
  BY InitRInv, NextRInv, PTL DEF Spec
<1> QED
  BY <1>1, InitMaps, NextMaps, PTL DEF Spec, ImplementsRecordStore, Store!Spec
=============================================================================
