------------------------------ MODULE InsdbLog ------------------------------
(***************************************************************************)
(* Log clean-up thread of insdb: it takes the key blocks whose columns are *)
(* all recorded in tables off the logs of the workers and deletes those    *)
(* that nothing refers to.  A worker's log is two queues: the worker       *)
(* pushes to the active one, the thread empties the other one and swaps.   *)
(*                                                                         *)
(* The log record this thread writes is read by the recovery only.         *)
(***************************************************************************)
EXTENDS InsdbFlush

LogVars == <<trxnVars, userVars, snapVars, wk, ikeys, fl, sktdf, skt>>

\* Mutation: blocks are taken although some of their columns are not recorded.
RecordedAll(q) == Len(q)

\* The part of a queue in front of the first block with an unrecorded column.
Recorded(q) ==
    MaxOf({n \in 0..Len(q) : \A i \in 1..n : blk[q[i]].nrs = 0})

\* A round of the thread is over.
Round == [IdleLog EXCEPT !.n = lt.n - 1]

Later(w) == {v \in Worker : v > w}

\* On to the next worker; when there is none, to the blocks that were taken.
Onward(w, batch) ==
    IF Later(w) # {}
    THEN [lt EXCEPT !.pc = "scan", !.w = MinOf(Later(w)), !.batch = batch]
    ELSE IF batch = <<>> THEN Round
    ELSE [lt EXCEPT !.pc = "mark", !.w = 0, !.batch = batch]

\* WorkerLogCleanupInternal: the queue that is not active is emptied; when nothing is
\* left of it the queues are swapped (WorkerData::ChangeActive).
LogScan(w) ==
    LET a == logq[w].active
        q == logq[w].q[1 - a]
        n == Recorded(q)
        batch == lt.batch \o SubSeq(q, 1, n)
    IN  /\ logq' = [logq EXCEPT ![w] =
                       [q |-> [@.q EXCEPT ![1 - a] = SubSeq(q, n + 1, Len(q))],
                        active |-> IF n = Len(q) THEN 1 - a ELSE a]]
        /\ lt' = IF n = Len(q) THEN [lt EXCEPT !.pc = "rescan", !.w = w, !.batch = batch]
                 ELSE Onward(w, batch)
        /\ UNCHANGED <<LogVars, blk, kbm, kb>>

\* The queue is looked up once: after the swap the thread scans the same queue again,
\* which is now the active one.
LogRescan ==
    LET w == lt.w
        a == logq[w].active
        q == logq[w].q[a]
        n == Recorded(q)
    IN  /\ lt.pc = "rescan"
        /\ logq' = [logq EXCEPT ![w].q[a] = SubSeq(q, n + 1, Len(q))]
        /\ lt' = Onward(w, lt.batch \o SubSeq(q, 1, n))
        /\ UNCHANGED <<LogVars, blk, kbm, kb>>

\* Mutation: a block that no column in memory refers to is deleted.
GarbageByRef(b) == b.ref = 0

\* WorkerLogCleanupDelete for one block, under its submit protection.
Garbage(b) == b.bits = {} /\ b.ref = 0

LogMark ==
    LET b == Head(lt.batch) IN
    /\ lt.pc = "mark"
    /\ IF Garbage(blk[b])
       THEN blk' = Remove(blk, b)
       ELSE blk' = [blk EXCEPT ![b] = [@ EXCEPT !.inlog = FALSE, !.kbml = FALSE]]
    /\ lt' = [lt EXCEPT !.batch = Tail(@),
                        !.dels = IF Garbage(blk[b]) THEN @ \cup {b} ELSE @,
                        !.pc = IF Tail(lt.batch) = <<>> THEN "delete" ELSE @]
    /\ UNCHANGED <<LogVars, logq, kbm, kb>>

LogDelete ==
    /\ lt.pc = "delete"
    /\ kbm' = kbm \ lt.dels /\ kb' = kb \ lt.dels
    /\ lt' = Round
    /\ UNCHANGED <<LogVars, blk, logq>>

LogStart ==
    /\ lt.pc = "idle" /\ lt.n > 0
    /\ \E w \in Worker, a \in {0, 1} : logq[w].q[a] # <<>>
    /\ LogScan(MinOf(Worker))

LogNext == LogStart \/ (lt.pc = "scan" /\ LogScan(lt.w)) \/ LogRescan \/ LogMark \/ LogDelete
=============================================================================
