----------------------------- MODULE KVAsyncCmd -----------------------------
(***************************************************************************)
(* nvme_kv_iosched_cmd: the asynchronous put, delete and get ioctl, and    *)
(* kv_hash_insert, which merges a command into the request that is already *)
(* buffered for the key or queues it behind the one that is in flight.     *)
(***************************************************************************)
EXTENDS KVState

\* init_kv_async_request: state 0, one reference, which the request keeps
\* until it is completed, invalidated or dropped from the read-ahead hash.
AllocRq(n) == ref' = [ref EXCEPT ![n] = 1]

AsyncWriteCmd(t, k, o) ==
    /\ IsWrite(o)
    /\ NewCmd(t, "async", k, o)
    /\ AllocRq(nops + 1)
    /\ Goto(t, "insert")
    /\ UNCHANGED <<bits, blk, memq, locked, hashVars, memqVars, buf, subVars,
                   compVars, devVars, done, res>>

AsyncGetCmd(t, k) ==
    /\ NewCmd(t, "async", k, "retrieve")
    /\ Goto(t, "ra_check")
    /\ UNCHANGED <<bits, ref, blk, memq, locked, hashVars, memqVars, buf, subVars,
                   compVars, devVars, done, res>>

\* kv_hash_find on the read-ahead hash, and the allocation when it finds nothing.
AsyncRaMiss(t) ==
    /\ pc[t] = "ra_check"
    /\ Hashed(raHash, key[me[t]]) = {}
    /\ AllocRq(me[t])
    /\ Goto(t, "insert")
    /\ UNCHANGED <<key, opc, ver, bits, blk, memq, locked, hashVars, memqVars, me,
                   buf, subVars, compVars, devVars, histVars>>

AsyncRaFound(t) ==
    /\ pc[t] = "ra_check"
    /\ \E x \in Hashed(raHash, key[me[t]]) :
        /\ IncRef(x)
        /\ buf' = [buf EXCEPT ![t] = x]
    /\ Goto(t, "ra_find")
    /\ UNCHANGED <<key, opc, ver, bits, blk, memq, locked, hashVars, memqVars, me,
                   subVars, compVars, devVars, histVars>>

\* kv_hash_find drops its reference; it searches again when that freed the request.
AsyncRaHit(t) ==
    /\ pc[t] = "ra_find"
    /\ buf[t] \notin locked
    /\ DecRef(buf[t])
    /\ IF ref[buf[t]] = 1
         THEN /\ Goto(t, "ra_check")
              /\ buf' = [buf EXCEPT ![t] = NULL]
              /\ UNCHANGED <<me, done>>
         ELSE Return(t)
    /\ UNCHANGED <<key, opc, ver, bits, blk, memq, locked, hashVars, memqVars,
                   subVars, compVars, devVars, nops, cmd, before, res>>

-----------------------------------------------------------------------------
\* Mutation: a pending request is not counted in nr_pending.
EnqueueNotPending(n, pending) ==
    LET m == active[TypeOf(opc[n])] IN
    /\ memq' = [memq EXCEPT ![n] = m]
    /\ mrq' = [mrq EXCEPT ![m] = <<n>> \o @]
    /\ nrrq' = [nrrq EXCEPT ![m] = @ + 1]
    /\ UNCHANGED <<npend, active, nmemq, mlist>>

\* Mutation: only pending requests are counted in nr_rq.
EnqueueUncounted(n, pending) ==
    LET m == active[TypeOf(opc[n])] IN
    /\ memq' = [memq EXCEPT ![n] = m]
    /\ mrq' = [mrq EXCEPT ![m] = <<n>> \o @]
    /\ nrrq' = IF pending THEN [nrrq EXCEPT ![m] = @ + 1] ELSE nrrq
    /\ npend' = IF pending THEN [npend EXCEPT ![m] = @ + 1] ELSE npend
    /\ UNCHANGED <<active, nmemq, mlist>>

\* list_add to the active memory queue of the command's type (at the head).
Enqueue(n, pending) ==
    LET m == active[TypeOf(opc[n])] IN
    /\ memq' = [memq EXCEPT ![n] = m]
    /\ mrq' = [mrq EXCEPT ![m] = <<n>> \o @]
    /\ nrrq' = [nrrq EXCEPT ![m] = @ + 1]
    /\ npend' = IF pending THEN [npend EXCEPT ![m] = @ + 1] ELSE npend
    /\ UNCHANGED <<active, nmemq, mlist>>

\* A put or delete still has to cancel the read-ahead of its key.
AfterEnqueue(n) == IF IsWrite(opc[n]) THEN "ra_del" ELSE "wake"

\* Mutation: the request searched for is hashed instead of the new one.
AsyncInsertWrongRq(t) ==
    LET n == me[t] IN
    /\ pc[t] = "insert"
    /\ hashLock[key[n]] = "none"
    /\ Hashed(rqHash, key[n]) = {}
    /\ rqHash' = rqHash \cup {buf[t]}
    /\ Enqueue(n, FALSE)
    /\ Goto(t, AfterEnqueue(n))
    /\ UNCHANGED <<key, opc, ver, bits, ref, blk, locked, hashLock, raHash, me, buf,
                   subVars, compVars, devVars, histVars>>

\* kv_hash_insert: no request with the key.
AsyncInsertNew(t) ==
    LET n == me[t] IN
    /\ pc[t] = "insert"
    /\ hashLock[key[n]] = "none"
    /\ Hashed(rqHash, key[n]) = {}
    /\ rqHash' = rqHash \cup {n}
    /\ Enqueue(n, FALSE)
    /\ Goto(t, AfterEnqueue(n))
    /\ UNCHANGED <<key, opc, ver, bits, ref, blk, locked, hashLock, raHash, me, buf,
                   subVars, compVars, devVars, histVars>>

\* kv_hash_insert: a request is found; the bucket stays locked while the
\* thread waits for the lock of the request.
AsyncInsertFound(t) ==
    LET n == me[t] IN
    /\ pc[t] = "insert"
    /\ hashLock[key[n]] = "none"
    /\ \E b \in Hashed(rqHash, key[n]) :
        /\ IncRef(b)
        /\ buf' = [buf EXCEPT ![t] = b]
    /\ hashLock' = [hashLock EXCEPT ![key[n]] = t]
    /\ Goto(t, "ins_lock")
    /\ UNCHANGED <<key, opc, ver, bits, blk, memq, locked, rqHash, raHash, memqVars,
                   me, subVars, compVars, devVars, histVars>>

\* The states in which the lookups give up the request and search again.
Unusable(b) == bits[b] \cap {"completed", "invalid", "blocking"} # {}

\* UNLOCK_AND_RESTART: free_kv_async_rq overwrites hash_key, so the bucket is
\* not the one unlocked when the reference was the last.
UnlockAndRestart(t, b, label) ==
    /\ DecRef(b)
    /\ hashLock' = IF ref[b] = 1 THEN hashLock
                   ELSE [hashLock EXCEPT ![key[me[t]]] = "none"]
    /\ Goto(t, label)
    /\ buf' = [buf EXCEPT ![t] = NULL]
    /\ UNCHANGED <<opc, ver, bits, blk, memq, rqHash, memqVars, me, done>>

\* Mutation: the in-flight request stays in the hash.
DisplaceNone(b, n) == rqHash' = rqHash \cup {n}
\* hlist_del_init of the in-flight request, hlist_add_head of the new one.
Displace(b, n) == rqHash' = (rqHash \ {b}) \cup {n}

\* Mutation: the in-flight request does not know that it blocks another one.
MarkNothing(b) == UNCHANGED bits
\* set_bit(KV_async_blocking_rq)
MarkBlocking(b) == bits' = [bits EXCEPT ![b] = @ \cup {"blocking"}]

\* Mutation: the new request is hashed but not pending.
InsertBeside(t, b) ==
    LET n == me[t] IN
    /\ Displace(b, n)
    /\ hashLock' = [hashLock EXCEPT ![key[n]] = "none"]
    /\ Enqueue(n, FALSE)
    /\ DecRef(b)
    /\ Goto(t, AfterEnqueue(n))
    /\ buf' = [buf EXCEPT ![t] = NULL]
    /\ UNCHANGED <<opc, ver, bits, blk, me, done>>

\* The request found is in flight: the new one takes its place in the hash
\* and is pending on it.
InsertBehind(t, b) ==
    LET n == me[t] IN
    /\ Displace(b, n)
    /\ hashLock' = [hashLock EXCEPT ![key[n]] = "none"]
    /\ MarkBlocking(b)
    /\ blk' = [blk EXCEPT ![n] = b]
    /\ Enqueue(n, TRUE)
    /\ DecRef(b)
    /\ Goto(t, AfterEnqueue(n))
    /\ buf' = [buf EXCEPT ![t] = NULL]
    /\ UNCHANGED <<opc, ver, me, done>>

\* Mutation: the data is moved but not the command.
MoveData(b, n) ==
    IF IsWrite(opc[n])
      THEN ver' = [ver EXCEPT ![b] = ver[n]] /\ UNCHANGED opc
      ELSE UNCHANGED <<opc, ver>>
\* A put or delete replaces the command and the data of the buffered request.
MoveCmd(b, n) ==
    IF IsWrite(opc[n])
      THEN /\ opc' = [opc EXCEPT ![b] = opc[n]]
           /\ ver' = [ver EXCEPT ![b] = ver[n]]
      ELSE UNCHANGED <<opc, ver>>

\* Mutation: the reference of the search is not dropped.
FreeNew(b, n) == ref' = [ref EXCEPT ![n] = @ - 1]
\* The reference of the search on the buffered request, the only one of the new.
DropBoth(b, n) == ref' = [ref EXCEPT ![b] = @ - 1, ![n] = @ - 1]

\* The request found is still buffered: a get is dropped, a put or delete is
\* merged into it; the new request is freed.
InsertMerge(t, b) ==
    LET n == me[t] IN
    /\ hashLock' = [hashLock EXCEPT ![key[n]] = "none"]
    /\ DropBoth(b, n)
    /\ MoveCmd(b, n)
    /\ Return(t)
    /\ UNCHANGED <<bits, blk, memq, rqHash, memqVars>>

AsyncInsertLocked(t) ==
    LET b == buf[t] IN
    /\ pc[t] = "ins_lock"
    /\ b \notin locked
    /\ IF Unusable(b) THEN UnlockAndRestart(t, b, "insert")
       ELSE IF "inFlight" \in bits[b] THEN InsertBehind(t, b)
       ELSE InsertMerge(t, b)
    /\ UNCHANGED <<key, locked, raHash, subVars, compVars, devVars, nops, cmd,
                   before, res>>

-----------------------------------------------------------------------------
\* kv_hash_find_and_del_readahead: the caller inherits the hash's reference.
TakeReadahead(t, hit, miss) ==
    LET found == Hashed(raHash, key[me[t]]) IN
    \/ /\ found = {}
       /\ Goto(t, miss)
       /\ UNCHANGED <<raHash, buf>>
    \/ \E x \in found :
        /\ raHash' = raHash \ {x}
        /\ buf' = [buf EXCEPT ![t] = x]
        /\ Goto(t, hit)

\* The lookup reads key and hash_key of the request, which is not locked any
\* more: when it was completed and freed meanwhile, hash_key is KV_HASH_SIZE and
\* the lock behind the array of bucket locks is taken (miss, or the thread dies).
AsyncRaDel(t) ==
    /\ pc[t] = "ra_del"
    /\ \/ ref[me[t]] > 0 /\ TakeReadahead(t, "ra_put", "wake")
       \/ /\ ref[me[t]] = 0
          /\ \E label \in {"wake", "oops"} : Goto(t, label)
          /\ UNCHANGED <<raHash, buf>>
    /\ UNCHANGED <<reqVars, locked, rqHash, hashLock, memqVars, me, subVars,
                   compVars, devVars, histVars>>

AsyncRaPut(t) ==
    /\ pc[t] = "ra_put"
    /\ buf[t] \notin locked
    /\ DecRef(buf[t])
    /\ buf' = [buf EXCEPT ![t] = NULL]
    /\ Goto(t, "wake")
    /\ UNCHANGED <<key, opc, ver, bits, blk, memq, locked, hashVars, memqVars, me,
                   subVars, compVars, devVars, histVars>>

\* kv_sched_wakeup_*: queue the scheduling daemon (at once or after a delay);
\* the check of the high watermark follows.
AsyncWake(t) ==
    /\ pc[t] = "wake"
    /\ schedQ' = schedQ \cup {TypeOf(cmd[me[t]].op)}
    /\ IF NrRq > HighWatermark
         THEN Goto(t, "full_set") /\ UNCHANGED <<me, buf, done>>
         ELSE Return(t)
    /\ UNCHANGED <<reqVars, locked, hashVars, memqVars, subQ, subPc, subCur, subRq,
                   wake, compVars, devVars, nops, cmd, before, res>>

AsyncFullSet(t) ==
    /\ pc[t] = "full_set"
    /\ queueFull' = TRUE
    /\ Goto(t, "full_wait")
    /\ UNCHANGED <<reqVars, locked, hashVars, memqVars, me, buf, subVars, compQ,
                   compPc, compCur, compBuf, fifo, inflight, congested, devVars,
                   histVars>>

\* wait_on_bit(KV_iosched_queue_full)
AsyncFullWait(t) ==
    /\ pc[t] = "full_wait"
    /\ ~queueFull
    /\ Return(t)
    /\ UNCHANGED <<reqVars, locked, hashVars, memqVars, subVars, compVars, devVars,
                   nops, cmd, before, res>>

AsyncStep(t) ==
    \/ AsyncRaMiss(t) \/ AsyncRaFound(t) \/ AsyncRaHit(t)
    \/ AsyncInsertNew(t) \/ AsyncInsertFound(t) \/ AsyncInsertLocked(t)
    \/ AsyncRaDel(t) \/ AsyncRaPut(t)
    \/ AsyncWake(t) \/ AsyncFullSet(t) \/ AsyncFullWait(t)
=============================================================================
