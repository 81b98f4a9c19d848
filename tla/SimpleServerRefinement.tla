----------------------- MODULE SimpleServerRefinement -----------------------
(***************************************************************************)
(* SimpleServer implements RecordStore.  A series of writes under the lock *)
(* takes effect as a whole with its first write: the rest of it is already *)
(* determined and nobody else may look.  A series of reads takes effect    *)
(* with its last read.  The root key takes effect when it is cleared.      *)
(***************************************************************************)
EXTENDS SimpleServer

Elements(order, first) == {order[n] : n \in first..Len(order)}

\* The keys that t is still going to write, once it has begun to.
Pending(t) ==
    IF at[t] = 1 THEN {}
    ELSE CASE pc[t] = "setall_write" -> Elements(SetallWrites, at[t])
           [] pc[t] = "update_write" -> Elements(UpdateWrites, at[t])
           [] OTHER -> {}
Value(t, f) ==
    IF pc[t] = "setall_write" THEN Uploaded(t)[f] ELSE Updated(t)[f]

\* The record with the pending writes done.
Settled(r) ==
    [f \in DOMAIN redis[r] |->
        IF \E t \in Threads : f \in Pending(t) /\ Rec(t) = r
          THEN LET t == CHOOSE u \in Threads : f \in Pending(u) /\ Rec(u) = r
               IN  Value(t, f)
          ELSE redis[r][f]]

Written(t) == pc[t] = "update_end" \/ (pc[t] = "update_write" /\ at[t] # 1)
Phase(t) ==
    CASE pc[t] \in {"setall_connect", "setall_lock", "setall_version"} -> "vetted"
      [] pc[t] = "setall_write" /\ at[t] = 1 -> "vetted"
      [] HoldsBasis(t) -> "taken"
      [] pc[t] = "update_write" /\ at[t] = 1 -> "taken"
      [] pc[t] \in {"setall_write", "update_write"} /\ at[t] # 1 -> "answered"
      [] pc[t] \in {"setall_unlock", "update_end", "getall_unlock",
                    "rootkey_copy", "reply"} -> "answered"
      [] pc[t] = "idle" -> "idle"
      [] OTHER -> "received"
Snap(t) ==
    IF Phase(t) = "taken" \/ (Phase(t) = "answered" /\ req[t].cmd = "GETALL")
      THEN seen[t] ELSE Nothing

\* The variables of RecordStore.
Contents == [r \in Records |-> Settled(r)]
CurrentRoot ==
    IF \E t \in Threads : pc[t] = "rootkey_copy"
      THEN req[CHOOSE t \in Threads : pc[t] = "rootkey_copy"].root
      ELSE current_root_key
Code(t) == IF Written(t) THEN 0 ELSE result_size[t]
Phases == [t \in Threads |-> Phase(t)]
Snaps == [t \in Threads |-> Snap(t)]
Codes == [t \in Threads |-> Code(t)]

Store == INSTANCE RecordStore WITH
    store <- Contents, current_root_key <- CurrentRoot, serving <- req,
    phase <- Phases, snap <- Snaps, code <- Codes

\* Every command takes effect at one instant, as RecordStore says, whatever
\* the five threads interleave (as long as exit() is not called).
ImplementsRecordStore == Store!Spec
=============================================================================
