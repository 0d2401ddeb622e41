----------------------------- MODULE KVFlushCmd -----------------------------
(***************************************************************************)
(* nvme_kv_flush_cmd: wait until the request of a key is completed, or     *)
(* (without a key) the last request of the last queue of the write         *)
(* submission daemon.  The command's opcode selects the memory queue that  *)
(* is pushed out; only a write flush waits.                                *)
(***************************************************************************)
EXTENDS KVState

FlushType(t) == TypeOf(cmd[me[t]].op)

FlushKeyCmd(t, k, o) ==
    /\ NewCmd(t, "flush", k, o)
    /\ Goto(t, "f_find")
    /\ UNCHANGED <<bits, ref, blk, memq, locked, hashVars, memqVars, buf, subVars,
                   compVars, devVars, done, res>>

\* kv_hash_find_refcnt finds nothing to wait for.
FlushNone(t) ==
    /\ pc[t] = "f_find"
    /\ hashLock[key[me[t]]] = "none"
    /\ Hashed(rqHash, key[me[t]]) = {}
    /\ Return(t)
    /\ UNCHANGED <<reqVars, locked, hashVars, memqVars, subVars, compVars, devVars,
                   nops, cmd, before, res>>

FlushFind(t) ==
    /\ pc[t] = "f_find"
    /\ hashLock[key[me[t]]] = "none"
    /\ \E b \in Hashed(rqHash, key[me[t]]) :
        /\ IncRef(b)
        /\ buf' = [buf EXCEPT ![t] = b]
    /\ Goto(t, "f_lock")
    /\ UNCHANGED <<key, opc, ver, bits, blk, memq, locked, hashVars, memqVars, me,
                   subVars, compVars, devVars, histVars>>

\* Mutation: a request the device already has is not waited for.
NotSubmitted(b) == bits[b] \cap {"completed", "inFlight"} = {}
\* !test_bit(KV_async_completed)
NotCompleted(b) == "completed" \notin bits[b]

\* Mutation: the wake-up is never asked for.
AskNothing(t, b) == UNCHANGED bits
\* A write flush sets KV_async_flush_wakeup.
AskWakeup(t, b) ==
    bits' = IF FlushType(t) = "WRITE"
            THEN [bits EXCEPT ![b] = @ \cup {"flush_wakeup"}] ELSE bits

\* Not completed yet: ask for the wake-up.
FlushMark(t) ==
    /\ pc[t] = "f_lock"
    /\ buf[t] \notin locked
    /\ NotCompleted(buf[t])
    /\ AskWakeup(t, buf[t])
    /\ Goto(t, "f_push")
    /\ UNCHANGED <<key, opc, ver, ref, blk, memq, locked, hashVars, memqVars, me, buf,
                   subVars, compVars, devVars, histVars>>

FlushCompleted(t) ==
    /\ pc[t] = "f_lock"
    /\ buf[t] \notin locked
    /\ ~NotCompleted(buf[t])
    /\ DecRef(buf[t])
    /\ Return(t)
    /\ UNCHANGED <<key, opc, ver, bits, blk, memq, locked, hashVars, memqVars,
                   subVars, compVars, devVars, nops, cmd, before, res>>

\* kv_sched_wakeup_immediately if the active queue of the type has requests.
FlushPush(t) ==
    LET y == FlushType(t) IN
    /\ pc[t] = "f_push" \/ (pc[t] = "fa_push" /\ NrRq # 0)
    /\ schedQ' = IF nrrq[active[y]] > 0 THEN schedQ \cup {y} ELSE schedQ
    /\ Goto(t, IF pc[t] = "f_push" THEN "f_drain" ELSE "fa_drain")
    /\ UNCHANGED <<reqVars, locked, hashVars, memqVars, me, buf, subQ, subPc, subCur,
                   subRq, wake, compVars, devVars, histVars>>

\* kv_sched_flush_workqueue waits for the scheduling daemon.
FlushDrain(t) ==
    /\ pc[t] \in {"f_drain", "fa_drain"}
    /\ FlushType(t) \notin schedQ
    /\ Goto(t, IF pc[t] = "f_drain" THEN "f_wait" ELSE "fa_pick")
    /\ UNCHANGED <<reqVars, locked, hashVars, memqVars, me, buf, subVars, compVars,
                   devVars, histVars>>

\* Mutation: the reference of kv_hash_find_refcnt is kept.
FlushDoneKeeping(t) ==
    /\ pc[t] = "f_wait"
    /\ FlushType(t) = "WRITE" => "flush_wakeup" \notin bits[buf[t]]
    /\ buf[t] \notin locked
    /\ Return(t)
    /\ UNCHANGED <<reqVars, locked, hashVars, memqVars, subVars, compVars, devVars,
                   nops, cmd, before, res>>

\* wait_on_bit_io(KV_async_flush_wakeup), then kv_decrease_req_refcnt.
FlushDone(t) ==
    /\ pc[t] = "f_wait"
    /\ FlushType(t) = "WRITE" => "flush_wakeup" \notin bits[buf[t]]
    /\ buf[t] \notin locked
    /\ DecRef(buf[t])
    /\ Return(t)
    /\ UNCHANGED <<key, opc, ver, bits, blk, memq, locked, hashVars, memqVars,
                   subVars, compVars, devVars, nops, cmd, before, res>>

-----------------------------------------------------------------------------
\* Without a key (the field keeps what it had).
FlushAllCmd(t, o) ==
    /\ NewCmd(t, "flushall", key[nops + 1], o)
    /\ Goto(t, "fa_push")
    /\ UNCHANGED <<bits, ref, blk, memq, locked, hashVars, memqVars, buf, subVars,
                   compVars, devVars, done, res>>

\* Nothing to do when the request hash is empty, nothing to wait for when the last
\* queue of the write daemon is.
FlushAllEmpty(t) ==
    /\ \/ pc[t] = "fa_push" /\ NrRq = 0
       \/ /\ pc[t] = "fa_pick"
          /\ mlist["WRITE"] # <<>> => mrq[mlist["WRITE"][Len(mlist["WRITE"])]] = <<>>
    /\ Return(t)
    /\ UNCHANGED <<reqVars, locked, hashVars, memqVars, subVars, compVars, devVars,
                   nops, cmd, before, res>>

\* The thread keeps a pointer to the request, not a reference.
FlushAllPick(t) ==
    LET l == mlist["WRITE"]
        q == mrq[l[Len(l)]]
        r == q[Len(q)]
    IN
    /\ pc[t] = "fa_pick"
    /\ l # <<>>
    /\ q # <<>>
    /\ r \notin locked
    /\ AskWakeup(t, r)
    /\ buf' = [buf EXCEPT ![t] = r]
    /\ Goto(t, "fa_wait")
    /\ UNCHANGED <<key, opc, ver, ref, blk, memq, locked, hashVars, memqVars, me,
                   subVars, compVars, devVars, histVars>>

FlushAllDone(t) ==
    /\ pc[t] = "fa_wait"
    /\ FlushType(t) = "WRITE" => "flush_wakeup" \notin bits[buf[t]]
    /\ Return(t)
    /\ UNCHANGED <<reqVars, locked, hashVars, memqVars, subVars, compVars, devVars,
                   nops, cmd, before, res>>

FlushStep(t) ==
    \/ FlushNone(t) \/ FlushFind(t) \/ FlushMark(t) \/ FlushCompleted(t)
    \/ FlushPush(t) \/ FlushDrain(t) \/ FlushDone(t)
    \/ FlushAllEmpty(t) \/ FlushAllPick(t) \/ FlushAllDone(t)
=============================================================================
