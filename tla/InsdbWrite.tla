----------------------------- MODULE InsdbWrite -----------------------------
(***************************************************************************)
(* The writers of insdb: WriteBatchInternal::Store under the column lock   *)
(* of its key, the request queue with its slow-down, and snapshots.        *)
(*                                                                         *)
(* The column lock is held from before the sequence number is taken until  *)
(* the column is in the list, and every reader of the column takes it, so  *)
(* a Store is one step.                                                    *)
(***************************************************************************)
EXTENDS InsdbState

Newest(k) == uk[k].cols[1]
NoColumns(k) == uk[k].cols = <<>>

\* The batch a writer is in, or the next one it writes (InitWBI).
Current(p) ==
    IF wr[p].b = NoBatch /\ wr[p].todo # <<>> THEN NewBatch(Head(wr[p].todo)) ELSE wr[p].b

NextOp(p) == Head(Current(p).ops)

\* The write is done; pc and request of the writer after it.
Written(p, b, pc, r) ==
    wr' = [wr EXCEPT ![p] =
              [pc |-> pc, rq |-> r,
               b |-> IF Tail(b.ops) = <<>> THEN NoBatch ELSE [b EXCEPT !.ops = Tail(@)],
               todo |-> IF @.b = NoBatch THEN Tail(@.todo) ELSE @.todo]]

\* The last write of a batch is stored whatever it is.
Forced(b) == b.count > 1 /\ b.sn = b.count - 1

\* A delete on top of a delete fails: kFailInsert.
Discards(k, op, b) == ~NoColumns(k) /\ op.del /\ Newest(k).del /\ ~Forced(b)

\* Mutation: a delete that fails is not taken out of its transaction group.
DiscardKept(p) ==
    LET b == Current(p) op == NextOp(p) IN
    /\ Discards(op.key, op, b)
    /\ seq' = seq + 1
    /\ UNCHANGED trxnVars
    /\ Written(p, [b EXCEPT !.count = @ - 1], "store", 0)
    /\ UNCHANGED <<uk, reqs, pending, slow, hist>>

\* The failed delete: it has used up a sequence number and leaves its group.
Discard(p) ==
    LET b == Current(p) op == NextOp(p) IN
    /\ Discards(op.key, op, b)
    /\ seq' = seq + 1
    /\ IF b.tid = NoTrxn THEN UNCHANGED trxnVars ELSE DecTrxnGroup(p, b.tid.g, 1)
    /\ Written(p, [b EXCEPT !.count = @ - 1], "store", 0)
    /\ UNCHANGED <<uk, reqs, pending, slow, hist>>

-----------------------------------------------------------------------------
\* UserKey::UpdateColumn on the newest column: a put ends where the new column
\* begins.  A merged column on top (its header has been flushed away) is taken for
\* a stored one, and the block meta it is given overwrites its value.
Superseded(c, s) ==
    [c EXCEPT !.end = IF ~c.del /\ c.end = MaxSeq THEN s ELSE @,
              !.st = IF @ = "merged" THEN "lost" ELSE @]

\* The newest column still waits for a worker: kHasBeenScheduled.
Scheduled(k) == ~NoColumns(k) /\ Newest(k).st = "pending"

NewRequest(k, tid) ==
    [key |-> k, trxns |-> IF tid = NoTrxn THEN <<>> ELSE <<tid>>,
     latest |-> 0, tgid |-> 0, built |-> FALSE]

\* The column that the first write of the group in this key must not be merged with
\* (SetTGIDSplit), and its request, which ends there.
SplitRequest(k) == [reqs[uk[k].req] EXCEPT !.latest = Newest(k).id]

\* The request the new column travels with: a new one, or the one of the column it
\* is put on when they are of the same group.  Where the request of a waiting column
\* has been closed already, the code goes through a null pointer for a transaction
\* (the process ends there) and uses no request otherwise.
Schedule(k, tid, s) ==
    IF ~Scheduled(k)
    THEN reqs' = With(reqs, s, NewRequest(k, tid))
    ELSE IF tid.g # uk[k].last
    THEN /\ uk[k].req # 0
         /\ reqs' = With([reqs EXCEPT ![uk[k].req] = SplitRequest(k)], s, NewRequest(k, tid))
    ELSE IF tid = NoTrxn THEN UNCHANGED reqs
    ELSE /\ uk[k].req # 0
         /\ reqs' = [reqs EXCEPT ![uk[k].req].trxns = Append(@, tid)]

Splits(k, tid) == Scheduled(k) /\ tid.g # uk[k].last

\* The older columns after the new one has been put in front of them.
Older(k, tid, s) ==
    IF NoColumns(k) THEN <<>>
    ELSE [uk[k].cols EXCEPT ![1] =
              [Superseded(Newest(k), s) EXCEPT !.split = IF Splits(k, tid) THEN TRUE ELSE @]]

\* WriteBatchInternal::Store of a write that is inserted.
Insert(p) ==
    LET b == Current(p)
        op == NextOp(p)
        k == op.key
        s == seq + 1
        first == b.count > 1 /\ b.tid = NoTrxn
        tid == IF first THEN nextTrxn ELSE b.tid
        new == ~Scheduled(k) \/ Splits(k, tid)
    IN  /\ ~Discards(k, op, b)
        /\ seq' = s
        /\ IF first THEN GetTrxnID(b.count) ELSE UNCHANGED trxnVars
        /\ Schedule(k, tid, s)
        /\ uk' = [uk EXCEPT ![k] =
                     [uk[k] EXCEPT !.present = TRUE, !.dirty = TRUE, !.last = tid.g,
                                   !.cols = <<Column(s, op.del, tid # NoTrxn)>> \o Older(k, tid, s),
                                   !.req = IF new THEN s ELSE @]]
        /\ Written(p, [b EXCEPT !.sn = @ + 1, !.tid = tid],
                   IF new THEN "push" ELSE "store", IF new THEN s ELSE 0)
        /\ hist' = With(hist, s, [key |-> k, del |-> op.del, tid |-> tid])
        /\ UNCHANGED <<pending, slow>>

Store(p) ==
    /\ wr[p].pc = "store" /\ adding[p] = 0 /\ Current(p).ops # <<>>
    /\ Discard(p) \/ Insert(p)
    /\ UNCHANGED <<snapVars, wk, blockVars, lt, fl, sktdf, devVars>>

-----------------------------------------------------------------------------
\* DBImpl::PutColumnNodeToRequestQueue.  The size and the flag are looked at without
\* a lock; the flag is then set, and the writer sleeps, under slowdown_mu_.
Enqueue(p) ==
    /\ pending' = Append(pending, wr[p].rq)
    /\ wr' = [wr EXCEPT ![p] = [@ EXCEPT !.pc = "store", !.rq = 0]]
    /\ UNCHANGED slow

MustSlowDown == Len(pending) + 1 >= SlowTrigger \/ slow

Push(p) ==
    /\ wr[p].pc = "push"
    /\ IF MustSlowDown
       THEN wr' = [wr EXCEPT ![p].pc = "slow"] /\ UNCHANGED <<pending, slow>>
       ELSE Enqueue(p)

SlowWait(p) ==
    /\ wr[p].pc = "slow"
    /\ slow' = TRUE
    /\ wr' = [wr EXCEPT ![p].pc = "asleep"]
    /\ UNCHANGED pending

Resume(p) == wr[p].pc = "go" /\ Enqueue(p)

PutColumnNodeToRequestQueue(p) ==
    /\ Push(p) \/ SlowWait(p) \/ Resume(p)
    /\ UNCHANGED <<trxnVars, seq, uk, reqs, hist, snapVars, wk, blockVars, lt, fl, sktdf, devVars>>

-----------------------------------------------------------------------------
\* Manifest::__CreateSnapshot: at the last sequence number; two at the same one share
\* an entry.  late (history): the tables a flush is building with an older list.
TakeSnapshot ==
    /\ nsnap > 0
    /\ nsnap' = nsnap - 1
    /\ snaps' = IF seq \in DOMAIN snaps THEN [snaps EXCEPT ![seq].ref = @ + 1]
                ELSE With(snaps, seq, [ref |-> 1,
                        late |-> {t \in Table : \E w \in Worker : fl[w].pc = "build" /\ fl[w].t = t}])
    /\ UNCHANGED <<trxnVars, userVars, wk, blockVars, lt, fl, sktdf, devVars>>

\* Manifest::DeleteSnapshot, __DisconnectSnapshot.
ReleaseSnapshot(s) ==
    /\ s \in DOMAIN snaps
    /\ snaps' = IF snaps[s].ref > 1 THEN [snaps EXCEPT ![s].ref = @ - 1] ELSE Remove(snaps, s)
    /\ UNCHANGED <<nsnap, trxnVars, userVars, wk, blockVars, lt, fl, sktdf, devVars>>
=============================================================================
