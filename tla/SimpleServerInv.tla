-------------------------- MODULE SimpleServerInv ---------------------------
(***************************************************************************)
(* The inductive invariant of SimpleServer.  The properties rest on three  *)
(* facts: the lock is held exactly in the critical sections (Exclusion);   *)
(* what a thread has read under the lock is what Redis holds while it is   *)
(* still there (Current); and a version that is still in Redis after the   *)
(* lock was released means that header and payload are still there too,    *)
(* unless an update is in the middle of replacing them (VersionGuard).     *)
(***************************************************************************)
EXTENDS SimpleServer

GetallPcs == {"getall_connect", "getall_lock", "getall_read", "getall_unlock"}
SetallPcs == {"check_lock", "check_root", "setall_connect", "setall_lock",
              "setall_version", "setall_write", "setall_unlock"}
UpdatePcs == {"update_connect", "update_lock", "update_read", "update_unlock",
              "update_relock", "update_compare", "update_write", "update_end"}
RootkeyPcs == {"rootkey_lock", "rootkey_clear", "rootkey_copy"}

\* The handler a thread is in is the one of its request.
RightHandler(t) ==
    /\ pc[t] \in {"get_connect", "get_read"} => req[t] \in GetRequest
    /\ pc[t] \in GetallPcs => req[t] \in GetallRequest
    /\ pc[t] \in SetallPcs => req[t] \in SetallRequest
    /\ pc[t] \in UpdatePcs => req[t] \in UpdateRequest
    /\ pc[t] \in RootkeyPcs => req[t] \in RootkeyRequest

\* The loop index stays within the loop.
Loops == {"getall_read", "setall_write", "update_read", "update_write"}
RightIndex(t) ==
    /\ pc[t] = "getall_read" => at[t] \in 1..Len(req[t].keys)
    /\ pc[t] = "setall_write" => at[t] \in 1..5
    /\ pc[t] = "update_read" => at[t] \in 1..3
    /\ pc[t] = "update_write" => at[t] \in 1..4
    /\ pc[t] \notin Loops => at[t] = 1

Critical == {"getall_read", "getall_unlock", "setall_version", "setall_write",
             "setall_unlock", "update_read", "update_unlock",
             "update_compare", "update_write", "update_end"}
RootCritical == {"check_root", "rootkey_clear", "rootkey_copy"}
Exclusion(t) ==
    /\ pc[t] \in Critical <=> anti_rc_lock = t
    /\ pc[t] \in RootCritical <=> current_root_key_lock = t

\* A thread has read nothing before its first read, and the three keys of
\* up_update once it is past them.
ReadSoFar(t) ==
    /\ pc[t] \in {"idle", "get_connect", "get_read", "getall_connect", "getall_lock",
                  "check_lock", "check_root", "setall_connect", "setall_lock",
                  "setall_version", "update_connect", "update_lock"}
          => DOMAIN seen[t] = {}
    /\ pc[t] = "update_read" =>
          /\ at[t] > 1 => "ctxt_version" \in DOMAIN seen[t]
          /\ at[t] > 2 => "header" \in DOMAIN seen[t]
    /\ HoldsBasis(t) \/ pc[t] = "update_write" =>
          {"ctxt_version", "header", "data"} \subseteq DOMAIN seen[t]
    /\ pc[t] = "setall_write" => "ctxt_version" \in DOMAIN seen[t]

\* Whatever was read since the lock was taken is still there.
Current(t) ==
    /\ pc[t] \in {"getall_read", "getall_unlock", "update_read"} =>
          \A f \in DOMAIN seen[t] : seen[t][f] = redis[Rec(t)][f]
    /\ pc[t] = "setall_write" /\ at[t] = 1 =>
          seen[t].ctxt_version = redis[Rec(t)].ctxt_version
    /\ pc[t] = "update_write" =>
          seen[t].ctxt_version = redis[Rec(t)].ctxt_version

SameBasis(t) ==
    /\ seen[t].header = redis[Rec(t)].header
    /\ seen[t].data = redis[Rec(t)].data
VersionGuard(t) ==
    /\ HoldsBasis(t) =>
          /\ seen[t].ctxt_version <= redis[Rec(t)].ctxt_version
          /\ \/ seen[t].ctxt_version < redis[Rec(t)].ctxt_version
             \/ SameBasis(t)
             \/ \E u \in Threads :
                   pc[u] = "update_write" /\ at[u] > 1 /\ Rec(u) = Rec(t)
    /\ pc[t] = "update_write" /\ at[t] = 1 => SameBasis(t)
    /\ pc[t] = "setall_write" /\ at[t] > 1 =>
          \A u \in Threads : HoldsBasis(u) /\ Rec(u) = Rec(t) =>
              seen[u].ctxt_version < redis[Rec(t)].ctxt_version

Inv ==
    /\ TypeOK
    /\ \A t \in Threads :
          /\ RightHandler(t)
          /\ RightIndex(t)
          /\ Exclusion(t)
          /\ ReadSoFar(t)
          /\ Current(t)
          /\ VersionGuard(t)
    /\ SameVersionSameCiphertext
=============================================================================
