------------------------------ MODULE KVDaemons ------------------------------
(***************************************************************************)
(* The daemons of kv_iosched.c and the device: kv_scheduling_workfn turns  *)
(* an active memory queue into a mutable one, kv_submission_workfn submits *)
(* mutable queues (__nvme_submit_iosched_kv_cmd), the device executes what *)
(* was submitted and its interrupt (kv_end_io_async_rq) fills the          *)
(* completion fifo, kv_completion_workfn drains it.                        *)
(***************************************************************************)
EXTENDS KVState

\* Scheduling daemon: an empty active queue is simply replaced by an empty one.
Schedule(y) ==
    LET m == active[y] IN
    /\ y \in schedQ
    /\ schedQ' = schedQ \ {y}
    /\ IF mrq[m] = <<>>
         THEN UNCHANGED <<active, nmemq, mlist, subQ>>
         ELSE /\ nmemq < MaxMemq
              /\ active' = [active EXCEPT ![y] = nmemq + 1]
              /\ nmemq' = nmemq + 1
              /\ mlist' = [mlist EXCEPT ![y] = Append(@, m)]
              /\ subQ' = subQ \cup {y}
    /\ UNCHANGED <<reqVars, locked, hashVars, mrq, npend, nrrq, thrVars, subPc,
                   subCur, subRq, wake, compVars, devVars, histVars>>

-----------------------------------------------------------------------------
\* Submission daemon y takes its queued work item.
SubmitStart(y) ==
    /\ subPc[y] = "idle"
    /\ y \in subQ
    /\ subQ' = subQ \ {y}
    /\ subPc' = [subPc EXCEPT ![y] = "loop"]
    /\ UNCHANGED <<reqVars, locked, hashVars, memqVars, thrVars, schedQ, subCur,
                   subRq, wake, compVars, devVars, histVars>>

SubmitEnd(y) ==
    /\ subPc[y] = "loop"
    /\ mlist[y] = <<>>
    /\ subPc' = [subPc EXCEPT ![y] = "idle"]
    /\ UNCHANGED <<reqVars, locked, hashVars, memqVars, thrVars, schedQ, subQ, subCur,
                   subRq, wake, compVars, devVars, histVars>>

\* The first queue holds pending requests: it goes to the tail of the list.
SubmitPark(y) ==
    /\ subPc[y] = "loop"
    /\ mlist[y] # <<>>
    /\ npend[Head(mlist[y])] > 0
    /\ mlist' = [mlist EXCEPT ![y] = Append(Tail(@), Head(@))]
    /\ subPc' = [subPc EXCEPT ![y] = "park"]
    /\ UNCHANGED <<reqVars, locked, hashVars, active, nmemq, mrq, npend, nrrq,
                   thrVars, schedQ, subQ, subCur, subRq, wake, compVars, devVars,
                   histVars>>

\* It kicks the completion daemon if there is work for it, ...
SubmitKick(y) ==
    /\ subPc[y] = "park"
    /\ compQ' = (compQ \/ fifo # <<>>)
    /\ subPc' = [subPc EXCEPT ![y] = "sleep"]
    /\ UNCHANGED <<reqVars, locked, hashVars, memqVars, thrVars, schedQ, subQ, subCur,
                   subRq, wake, compPc, compCur, compBuf, fifo, inflight, congested,
                   queueFull, devVars, histVars>>

\* ... asks to be woken (the write daemon's bit is always set) and leaves.
SubmitSleep(y) ==
    /\ subPc[y] = "sleep"
    /\ wake' = wake \cup {y, "WRITE"}
    /\ subPc' = [subPc EXCEPT ![y] = "idle"]
    /\ UNCHANGED <<reqVars, locked, hashVars, memqVars, thrVars, schedQ, subQ, subCur,
                   subRq, compVars, devVars, histVars>>

SubmitTake(y) ==
    /\ subPc[y] = "loop"
    /\ mlist[y] # <<>>
    /\ npend[Head(mlist[y])] = 0
    /\ subCur' = [subCur EXCEPT ![y] = Head(mlist[y])]
    /\ mlist' = [mlist EXCEPT ![y] = Tail(@)]
    /\ subPc' = [subPc EXCEPT ![y] = "submit"]
    /\ UNCHANGED <<reqVars, locked, hashVars, active, nmemq, mrq, npend, nrrq,
                   thrVars, schedQ, subQ, subRq, wake, compVars, devVars, histVars>>

\* __nvme_submit_iosched_kv_cmd goes through the requests of the queue.  A
\* request with blocking_rq set would end in BUG(): neither step is enabled.
\* A request that a sync command invalidated is dropped; its flushers wake up.
SubmitInvalid(y) ==
    LET m == subCur[y] r == Head(mrq[m]) IN
    /\ subPc[y] = "submit"
    /\ mrq[m] # <<>>
    /\ blk[r] = NULL
    /\ r \notin locked
    /\ "invalid" \in bits[r]
    /\ mrq' = [mrq EXCEPT ![m] = Tail(@)]
    /\ nrrq' = [nrrq EXCEPT ![m] = @ - 1]
    /\ bits' = [bits EXCEPT ![r] = @ \ {"flush_wakeup"}]
    /\ DecRef(r)
    /\ UNCHANGED <<key, opc, ver, blk, memq, locked, hashVars, active, nmemq, npend,
                   mlist, thrVars, subVars, compVars, devVars, histVars>>

\* A request becomes in-flight and is executed unless the limit is exceeded.
SubmitRq(y) ==
    LET m == subCur[y] r == Head(mrq[m]) IN
    /\ subPc[y] = "submit"
    /\ mrq[m] # <<>>
    /\ blk[r] = NULL
    /\ r \notin locked
    /\ "invalid" \notin bits[r]
    /\ mrq' = [mrq EXCEPT ![m] = Tail(@)]
    /\ bits' = [bits EXCEPT ![r] = @ \cup {"inFlight"}]
    /\ inflight' = inflight + 1
    /\ IF inflight + 1 > MaxInflight
         THEN /\ subRq' = [subRq EXCEPT ![y] = r]
              /\ subPc' = [subPc EXCEPT ![y] = "cong_set"]
              /\ UNCHANGED <<nrrq, devQ>>
         ELSE /\ devQ' = devQ \cup {r}
              /\ nrrq' = [nrrq EXCEPT ![m] = @ - 1]
              /\ UNCHANGED <<subRq, subPc>>
    /\ UNCHANGED <<key, opc, ver, ref, blk, memq, locked, hashVars, active, nmemq,
                   npend, mlist, thrVars, schedQ, subQ, subCur, wake, compQ, compPc,
                   compCur, compBuf, fifo, congested, queueFull, dev, isr,
                   histVars>>

SubmitCongested(y) ==
    /\ subPc[y] = "cong_set"
    /\ congested' = TRUE
    /\ subPc' = [subPc EXCEPT ![y] = "cong_wait"]
    /\ UNCHANGED <<reqVars, locked, hashVars, memqVars, thrVars, schedQ, subQ, subCur,
                   subRq, wake, compQ, compPc, compCur, compBuf, fifo, inflight,
                   queueFull, devVars, histVars>>

\* Mutation: nr_rq does not fall after a congestion.
SubmitResumeUncounted(y) ==
    /\ subPc[y] = "cong_wait"
    /\ ~congested
    /\ devQ' = devQ \cup {subRq[y]}
    /\ subRq' = [subRq EXCEPT ![y] = NULL]
    /\ subPc' = [subPc EXCEPT ![y] = "submit"]
    /\ UNCHANGED <<reqVars, locked, hashVars, memqVars, thrVars, schedQ, subQ, subCur,
                   wake, compVars, dev, isr, histVars>>

\* wait_on_bit(KV_iosched_congested), then blk_execute_rq_nowait.
SubmitResume(y) ==
    /\ subPc[y] = "cong_wait"
    /\ ~congested
    /\ devQ' = devQ \cup {subRq[y]}
    /\ nrrq' = [nrrq EXCEPT ![subCur[y]] = @ - 1]
    /\ subRq' = [subRq EXCEPT ![y] = NULL]
    /\ subPc' = [subPc EXCEPT ![y] = "submit"]
    /\ UNCHANGED <<reqVars, locked, hashVars, active, nmemq, mrq, npend, mlist,
                   thrVars, schedQ, subQ, subCur, wake, compVars, dev, isr, histVars>>

\* End of the list of the memory queue: it is freed, or queued again when
\* requests are left in it.
SubmitDone(y) ==
    LET m == subCur[y] IN
    /\ subPc[y] = "submit"
    /\ mrq[m] = <<>>
    /\ mlist' = IF nrrq[m] # 0 THEN [mlist EXCEPT ![y] = Append(@, m)] ELSE mlist
    /\ subCur' = [subCur EXCEPT ![y] = NULL]
    /\ subPc' = [subPc EXCEPT ![y] = "loop"]
    /\ UNCHANGED <<reqVars, locked, hashVars, active, nmemq, mrq, npend, nrrq,
                   thrVars, schedQ, subQ, subRq, wake, compVars, devVars, histVars>>

SubmitStep(y) ==
    \/ SubmitStart(y) \/ SubmitEnd(y) \/ SubmitPark(y) \/ SubmitKick(y)
    \/ SubmitSleep(y) \/ SubmitTake(y) \/ SubmitInvalid(y) \/ SubmitRq(y) \/ SubmitCongested(y)
    \/ SubmitResume(y) \/ SubmitDone(y)

-----------------------------------------------------------------------------
\* The device executes a command (in any order) and interrupts: the handler puts the
\* request into the fifo, ...  Interrupts are handled one at a time.
DeviceExec(r) ==
    /\ r \in devQ
    /\ isr = NULL
    /\ devQ' = devQ \ {r}
    /\ IF IsWrite(opc[r])
         THEN dev' = [dev EXCEPT ![key[r]] = ver[r]] /\ UNCHANGED ver
         ELSE ver' = [ver EXCEPT ![r] = dev[key[r]]] /\ UNCHANGED dev
    /\ fifo' = Append(fifo, r)
    /\ isr' = r
    /\ UNCHANGED <<key, opc, bits, ref, blk, memq, locked, hashVars, memqVars,
                   thrVars, subVars, compQ, compPc, compCur, compBuf, inflight,
                   congested, queueFull, histVars>>

\* ... and then counts itself and queues the completion work, which it finds through the request.
InterruptWake ==
    /\ isr # NULL
    /\ compQ' = TRUE
    /\ isr' = NULL
    /\ UNCHANGED <<reqVars, locked, hashVars, memqVars, thrVars, subVars, compPc,
                   compCur, compBuf, fifo, inflight, congested, queueFull, dev, devQ,
                   histVars>>

-----------------------------------------------------------------------------
CompleteStart ==
    /\ compPc = "idle"
    /\ compQ
    /\ compQ' = FALSE
    /\ compPc' = "drain"
    /\ UNCHANGED <<reqVars, locked, hashVars, memqVars, thrVars, subVars, compCur,
                   compBuf, fifo, inflight, congested, queueFull, devVars, histVars>>

\* Mutation: in_flight_rq does not fall.
CompleteDequeueUncounted ==
    /\ compPc = "drain"
    /\ fifo # <<>>
    /\ compCur' = Head(fifo)
    /\ fifo' = Tail(fifo)
    /\ congested' = FALSE
    /\ compPc' = "unhash"
    /\ UNCHANGED <<reqVars, locked, hashVars, memqVars, thrVars, subVars, compQ,
                   compBuf, inflight, queueFull, devVars, histVars>>

\* Dequeue; in_flight_rq falls and a congested submission daemon wakes up.
CompleteDequeue ==
    /\ compPc = "drain"
    /\ fifo # <<>>
    /\ compCur' = Head(fifo)
    /\ fifo' = Tail(fifo)
    /\ inflight' = inflight - 1
    /\ congested' = FALSE
    /\ compPc' = "unhash"
    /\ UNCHANGED <<reqVars, locked, hashVars, memqVars, thrVars, subVars, compQ,
                   compBuf, queueFull, devVars, histVars>>

\* Mutation: the completed request stays in the hash.
CompleteUnhashNot ==
    /\ compPc = "unhash"
    /\ hashLock[key[compCur]] = "none"
    /\ compPc' = "low"
    /\ UNCHANGED <<reqVars, locked, hashVars, memqVars, thrVars, subVars, compQ,
                   compCur, compBuf, fifo, inflight, congested, queueFull, devVars,
                   histVars>>

\* kv_hash_delete (a blocking request is unhashed already).
CompleteUnhash ==
    /\ compPc = "unhash"
    /\ hashLock[key[compCur]] = "none"
    /\ rqHash' = rqHash \ {compCur}
    /\ compPc' = "low"
    /\ UNCHANGED <<reqVars, locked, hashLock, raHash, memqVars, thrVars, subVars,
                   compQ, compCur, compBuf, fifo, inflight, congested, queueFull,
                   devVars, histVars>>

\* The check of the low watermark wakes the threads that wait for room.
CompleteLowWatermark ==
    /\ compPc = "low"
    /\ queueFull' = (queueFull /\ NrRq >= LowWatermark)
    /\ compPc' = "lock"
    /\ UNCHANGED <<reqVars, locked, hashVars, memqVars, thrVars, subVars, compQ,
                   compCur, compBuf, fifo, inflight, congested, devVars, histVars>>

\* Mutation: only the flushers are woken.
SignalledFlush(b) == b \ {"flush_wakeup", "blocking"}
\* Wake the sync commands and the flushers that wait for the request.
Signalled(b) == b \ {"inFlight", "flush_wakeup", "blocking"}
AfterSignal(r) == IF "blocking" \in bits[r] THEN "pend_find" ELSE "fini"

\* spin_lock(&rq->lock): completed; the data of a get goes to the read-ahead
\* hash unless there is data of the key in it.
CompleteLock ==
    LET r == compCur
        dup == Hashed(raHash, key[r])
        get == ~IsWrite(opc[r])
    IN
    /\ compPc = "lock"
    /\ r \notin locked
    /\ locked' = locked \cup {r}
    /\ IF get /\ dup # {}
         THEN /\ \E x \in dup : IncRef(x) /\ compBuf' = x
              /\ bits' = [bits EXCEPT ![r] = @ \cup {"completed"}]
              /\ compPc' = "ra_dup"
              /\ UNCHANGED raHash
         ELSE /\ raHash' = IF get THEN raHash \cup {r} ELSE raHash
              /\ bits' = [bits EXCEPT ![r] = Signalled(@) \cup {"completed"}
                                \cup (IF get THEN {"in_readahead"} ELSE {})]
              /\ compPc' = AfterSignal(r)
              /\ UNCHANGED <<ref, compBuf>>
    /\ UNCHANGED <<key, opc, ver, blk, memq, rqHash, hashLock, memqVars, thrVars,
                   subVars, compQ, compCur, fifo, inflight, congested, queueFull,
                   devVars, histVars>>

\* The reference on the duplicate is dropped before its lock is taken.
CompleteDuplicate ==
    /\ compPc = "ra_dup"
    /\ DecRef(compBuf)
    /\ compBuf' = NULL
    /\ bits' = [bits EXCEPT ![compCur] = Signalled(@)]
    /\ compPc' = AfterSignal(compCur)
    /\ UNCHANGED <<key, opc, ver, blk, memq, locked, hashVars, memqVars, thrVars,
                   subVars, compQ, compCur, fifo, inflight, congested, queueFull,
                   devVars, histVars>>

\* kv_hash_find_and_lock_pending_rq
CompleteFindPending ==
    LET found == Hashed(rqHash, key[compCur]) IN
    /\ compPc = "pend_find"
    /\ hashLock[key[compCur]] = "none"
    /\ IF found = {}
         THEN compPc' = "fini" /\ UNCHANGED <<ref, compBuf>>
         ELSE \E p \in found : IncRef(p) /\ compBuf' = p /\ compPc' = "pend_lock"
    /\ UNCHANGED <<key, opc, ver, bits, blk, memq, locked, hashVars, memqVars,
                   thrVars, subVars, compQ, compCur, fifo, inflight, congested,
                   queueFull, devVars, histVars>>

\* The pending request may be submitted from now on.
CompleteUnblock ==
    LET p == compBuf IN
    /\ compPc = "pend_lock"
    /\ p \notin locked
    /\ IF blk[p] # NULL
         THEN /\ blk' = [blk EXCEPT ![p] = NULL]
              /\ npend' = [npend EXCEPT ![memq[p]] = @ - 1]
         ELSE UNCHANGED <<blk, npend>>
    /\ DecRef(p)
    /\ compBuf' = NULL
    /\ compPc' = "fini"
    /\ UNCHANGED <<key, opc, ver, bits, memq, locked, hashVars, active, nmemq, mrq,
                   nrrq, mlist, thrVars, subVars, compQ, compCur, fifo, inflight,
                   congested, queueFull, devVars, histVars>>

\* The read-ahead hash keeps the request's reference, otherwise it is dropped.
CompleteFini ==
    /\ compPc = "fini"
    /\ IF "in_readahead" \in bits[compCur] THEN UNCHANGED ref ELSE DecRef(compCur)
    /\ locked' = locked \ {compCur}
    /\ compCur' = NULL
    /\ compPc' = "drain"
    /\ UNCHANGED <<key, opc, ver, bits, blk, memq, hashVars, memqVars, thrVars,
                   subVars, compQ, compBuf, fifo, inflight, congested, queueFull,
                   devVars, histVars>>

\* Nothing left: test_and_clear_bit of the need_to_wake bits, in order.  The counts of
\* interrupts and completions differ, and the daemon starts again, while a handler has
\* put its request into the fifo and not counted it yet.
CompleteWake(y) ==
    /\ \/ y = "READ" /\ compPc = "drain" /\ fifo = <<>> /\ isr = NULL /\ compPc' = "wake"
       \/ y = "WRITE" /\ compPc = "wake" /\ compPc' = "idle"
    /\ subQ' = IF y \in wake THEN subQ \cup {y} ELSE subQ
    /\ wake' = wake \ {y}
    /\ UNCHANGED <<reqVars, locked, hashVars, memqVars, thrVars, schedQ, subPc,
                   subCur, subRq, compQ, compCur, compBuf, fifo, inflight, congested,
                   queueFull, devVars, histVars>>

CompleteStep ==
    \/ CompleteStart \/ CompleteDequeue \/ CompleteUnhash
    \/ CompleteLowWatermark \/ CompleteLock
    \/ CompleteDuplicate \/ CompleteFindPending \/ CompleteUnblock \/ CompleteFini
    \/ \E y \in Type : CompleteWake(y)
=============================================================================
