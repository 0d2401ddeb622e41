------------------------------ MODULE KVSyncCmd ------------------------------
(***************************************************************************)
(* nvme_kv_cmd: the synchronous put, delete and get ioctl.  It looks into  *)
(* the read-ahead hash (kv_do_readahead), then takes over, cancels or      *)
(* waits for the asynchronous request of the key (kv_hash_find_and_lock),  *)
(* and sends its own command to the device.                                *)
(***************************************************************************)
EXTENDS KVAsyncCmd

SyncCmd(t, k, o) ==
    /\ NewCmd(t, "sync", k, o)
    /\ Goto(t, "s_ra")
    /\ UNCHANGED <<bits, ref, blk, memq, locked, hashVars, memqVars, buf, subVars,
                   compVars, devVars, done, res>>

\* kv_do_readahead, before the lookup of the request hash and again after an
\* in-flight request was waited for.
SyncReadahead(t) ==
    /\ \/ pc[t] = "s_ra"  /\ TakeReadahead(t, "s_ra_put", "s_find")
       \/ pc[t] = "s_ra2" /\ TakeReadahead(t, "s_ra2_put", "s_issue")
    /\ UNCHANGED <<reqVars, locked, rqHash, hashLock, memqVars, me, subVars,
                   compVars, devVars, histVars>>

\* A get returns the data read ahead; a put or delete only removes it.
SyncReadaheadPut(t) ==
    LET n == me[t] IN
    /\ pc[t] \in {"s_ra_put", "s_ra2_put"}
    /\ buf[t] \notin locked
    /\ DecRef(buf[t])
    /\ IF IsWrite(opc[n])
         THEN /\ Goto(t, IF pc[t] = "s_ra_put" THEN "s_find" ELSE "s_issue")
              /\ buf' = [buf EXCEPT ![t] = NULL]
              /\ UNCHANGED <<me, done, res>>
         ELSE /\ res' = [res EXCEPT ![n] = ver[buf[t]]]
              /\ Return(t)
    /\ UNCHANGED <<key, opc, ver, bits, blk, memq, locked, hashVars, memqVars,
                   subVars, compVars, devVars, nops, cmd, before>>

-----------------------------------------------------------------------------
\* kv_hash_find_and_lock
SyncFindNone(t) ==
    /\ pc[t] = "s_find"
    /\ hashLock[key[me[t]]] = "none"
    /\ Hashed(rqHash, key[me[t]]) = {}
    /\ Goto(t, "s_issue")
    /\ UNCHANGED <<reqVars, locked, hashVars, memqVars, me, buf, subVars, compVars,
                   devVars, histVars>>

SyncFind(t) ==
    LET k == key[me[t]] IN
    /\ pc[t] = "s_find"
    /\ hashLock[k] = "none"
    /\ \E b \in Hashed(rqHash, k) :
        /\ IncRef(b)
        /\ buf' = [buf EXCEPT ![t] = b]
    /\ hashLock' = [hashLock EXCEPT ![k] = t]
    /\ Goto(t, "s_lock")
    /\ UNCHANGED <<key, opc, ver, bits, blk, memq, locked, rqHash, raHash, memqVars,
                   me, subVars, compVars, devVars, histVars>>

\* Mutation: the reference of the search is kept.
FindBusyKeeping(t, b, label) ==
    /\ hashLock' = [hashLock EXCEPT ![key[me[t]]] = "none"]
    /\ Goto(t, label)
    /\ UNCHANGED <<ref, opc, ver, bits, rqHash, buf>>

\* In flight, or pending on a request in flight: the reference is dropped and
\* only then the thread waits, through the pointer it keeps in buf.
FindBusy(t, b, label) ==
    /\ DecRef(b)
    /\ hashLock' = [hashLock EXCEPT ![key[me[t]]] = "none"]
    /\ Goto(t, label)
    /\ UNCHANGED <<opc, ver, bits, rqHash, buf>>

\* Mutations: the invalid request stays in the hash; or is not marked.
InvalidateHashed(b) ==
    /\ bits' = [bits EXCEPT ![b] = @ \cup {"invalid"}]
    /\ UNCHANGED rqHash
InvalidateUnmarked(b) ==
    /\ rqHash' = rqHash \ {b}
    /\ UNCHANGED bits
\* set_bit(KV_async_invalid_rq), hlist_del_init
Invalidate(b) ==
    /\ bits' = [bits EXCEPT ![b] = @ \cup {"invalid"}]
    /\ rqHash' = rqHash \ {b}

\* Mutation: a buffered delete is cancelled like a buffered get.
TakesOverStore(n, b) == ~IsWrite(opc[n]) /\ opc[b] = "store"
\* A get takes over a buffered put or delete.
TakesOver(n, b) == ~IsWrite(opc[n]) /\ IsWrite(opc[b])

\* Buffered: the request is invalidated.  A get takes over its put or delete
\* (kv_move_async_to_sync) and answers from it.
FindBuffered(t, b) ==
    LET n == me[t]
        takeOver == TakesOver(n, b)
    IN
    /\ Invalidate(b)
    /\ hashLock' = [hashLock EXCEPT ![key[n]] = "none"]
    /\ opc' = IF takeOver THEN [opc EXCEPT ![n] = opc[b]] ELSE opc
    /\ ver' = IF takeOver THEN [ver EXCEPT ![n] = ver[b]] ELSE ver
    /\ DecRef(b)
    /\ buf' = [buf EXCEPT ![t] = NULL]
    /\ Goto(t, "s_issue")

\* Mutation: a pending request is invalidated like a buffered one.
SyncFindLockedNoPending(t) ==
    LET b == buf[t] IN
    /\ pc[t] = "s_lock"
    /\ b \notin locked
    /\ IF Unusable(b) THEN UnlockAndRestart(t, b, "s_find")
       ELSE IF "inFlight" \in bits[b] THEN FindBusy(t, b, "s_wait")
       ELSE FindBuffered(t, b)
    /\ UNCHANGED <<key, blk, memq, locked, raHash, memqVars, me, subVars, compVars,
                   devVars, histVars>>

\* What kv_hash_find_and_lock does with the request it found and locked.
SyncFindLocked(t) ==
    LET b == buf[t] IN
    /\ pc[t] = "s_lock"
    /\ b \notin locked
    /\ IF Unusable(b) THEN UnlockAndRestart(t, b, "s_find")
       ELSE IF "inFlight" \in bits[b] THEN FindBusy(t, b, "s_wait")
       ELSE IF blk[b] # NULL THEN FindBusy(t, b, "s_blk")
       ELSE FindBuffered(t, b)
    /\ UNCHANGED <<key, blk, memq, locked, raHash, memqVars, me, subVars, compVars,
                   devVars, histVars>>

\* Mutation: the completion of the in-flight request is not waited for.
SyncWaitNot(t) ==
    /\ pc[t] = "s_wait"
    /\ buf' = [buf EXCEPT ![t] = NULL]
    /\ Goto(t, "s_ra2")
    /\ UNCHANGED <<reqVars, locked, hashVars, memqVars, me, subVars, compVars,
                   devVars, histVars>>

\* wait_on_bit(&rq->state, KV_async_inFlight_rq)
SyncWait(t) ==
    /\ pc[t] = "s_wait"
    /\ "inFlight" \notin bits[buf[t]]
    /\ buf' = [buf EXCEPT ![t] = NULL]
    /\ Goto(t, "s_ra2")
    /\ UNCHANGED <<reqVars, locked, hashVars, memqVars, me, subVars, compVars,
                   devVars, histVars>>

\* wait_on_bit(&rq->blocking_rq->state, KV_async_inFlight_rq): blocking_rq is
\* read after the locks were released; if it was cleared the kernel oopses.
SyncReadBlocking(t) ==
    /\ pc[t] = "s_blk"
    /\ buf' = [buf EXCEPT ![t] = blk[@]]
    /\ Goto(t, IF blk[buf[t]] = NULL THEN "oops" ELSE "s_wait_blk")
    /\ UNCHANGED <<reqVars, locked, hashVars, memqVars, me, subVars, compVars,
                   devVars, histVars>>

SyncWaitBlocking(t) ==
    /\ pc[t] = "s_wait_blk"
    /\ "inFlight" \notin bits[buf[t]]
    /\ buf' = [buf EXCEPT ![t] = NULL]
    /\ Goto(t, "s_find")
    /\ UNCHANGED <<reqVars, locked, hashVars, memqVars, me, subVars, compVars,
                   devVars, histVars>>

-----------------------------------------------------------------------------
\* __nvme_submit_kv_user_cmd: the device executes the command while the
\* thread waits.  opc is not the caller's when a put or delete was taken over.
SyncIssue(t) ==
    LET n == me[t] IN
    /\ pc[t] = "s_issue"
    /\ IF IsWrite(opc[n])
         THEN dev' = [dev EXCEPT ![key[n]] = ver[n]]
         ELSE UNCHANGED dev
    /\ res' = IF IsWrite(cmd[n].op) THEN res
              ELSE [res EXCEPT ![n] = IF IsWrite(opc[n]) THEN ver[n] ELSE dev[key[n]]]
    /\ Return(t)
    /\ UNCHANGED <<reqVars, locked, hashVars, memqVars, subVars, compVars, devQ, isr,
                   nops, cmd, before>>

SyncStep(t) ==
    \/ SyncReadahead(t) \/ SyncReadaheadPut(t)
    \/ SyncFindNone(t) \/ SyncFind(t) \/ SyncFindLocked(t)
    \/ SyncWait(t) \/ SyncReadBlocking(t) \/ SyncWaitBlocking(t) \/ SyncIssue(t)
=============================================================================
