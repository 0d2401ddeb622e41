------------------------------ MODULE KVIosched ------------------------------
(***************************************************************************)
(* The KV I/O scheduler: user threads in the asynchronous, synchronous and *)
(* flush ioctls, the daemons and the device, on the shared state of        *)
(* KVState; and the properties that make it correct.                       *)
(***************************************************************************)
EXTENDS KVSyncCmd, KVFlushCmd, KVDaemons

CONSTANTS
    AsyncOps,   \* opcodes the threads issue asynchronously
    SyncOps,    \* opcodes the threads issue synchronously
    FlushOps,   \* opcodes of the flush commands with a key
    FlushAllOps \* opcodes of the flush commands without a key

ASSUME OpsAssumption ==
    /\ AsyncOps \subseteq Opcode /\ SyncOps \subseteq Opcode
    /\ FlushOps \subseteq Opcode /\ FlushAllOps \subseteq Opcode

\* A user thread calls an ioctl.
Invoke(t) ==
    \/ \E k \in Key, o \in AsyncOps : AsyncWriteCmd(t, k, o)
    \/ \E k \in Key : "retrieve" \in AsyncOps /\ AsyncGetCmd(t, k)
    \/ \E k \in Key, o \in SyncOps : SyncCmd(t, k, o)
    \/ \E k \in Key, o \in FlushOps : FlushKeyCmd(t, k, o)
    \/ \E o \in FlushAllOps : FlushAllCmd(t, o)

\* A thread goes on with the ioctl it is in.
ThreadStep(t) == AsyncStep(t) \/ SyncStep(t) \/ FlushStep(t)

Device == InterruptWake \/ \E r \in OpId : DeviceExec(r)

\* No work item can run and the device is idle (a submission daemon that waits
\* for the end of a congestion keeps its next work item queued).
Dormant ==
    /\ schedQ = {} /\ devQ = {} /\ isr = NULL /\ ~compQ /\ compPc = "idle"
    /\ \A y \in Type : subPc[y] = "cong_wait" \/ (subPc[y] = "idle" /\ y \notin subQ)

\* The bits a sleeping thread waits for, and a thread that died in the kernel.
Asleep == {"full_wait", "f_wait", "fa_wait", "oops"}

\* The driver rests: every thread is outside the ioctls or asleep.
Quiescent ==
    /\ Dormant
    /\ \A t \in Thread : pc[t] \in Asleep \/ (pc[t] = "idle" /\ nops = MaxOps)
    /\ UNCHANGED vars

Next ==
    \/ \E t \in Thread : Invoke(t) \/ ThreadStep(t)
    \/ \E y \in Type : Schedule(y) \/ SubmitStep(y)
    \/ Device
    \/ CompleteStep
    \/ Quiescent

Spec == Init /\ [][Next]_vars

\* The steps of a thread that take a bucket lock of the request hash or the lock
\* of the request found.
LockStep(t) ==
    \/ AsyncInsertNew(t) \/ AsyncInsertFound(t) \/ AsyncInsertLocked(t)
    \/ SyncFindNone(t) \/ SyncFind(t) \/ SyncFindLocked(t)

\* Work items that are queued run, the device answers, and the spin locks, which
\* are queued locks, are granted to everyone who waits for them.
Fairness ==
    /\ \A t \in Thread : WF_vars(ThreadStep(t)) /\ SF_vars(LockStep(t))
    /\ \A y \in Type : WF_vars(Schedule(y)) /\ WF_vars(SubmitStep(y))
    /\ WF_vars(Device)
    /\ SF_vars(CompleteStep)

FairSpec == Spec /\ Fairness

-----------------------------------------------------------------------------
ThreadPc ==
    {"idle", "ra_check", "ra_find", "insert", "ins_lock", "ra_del", "ra_put",
     "wake", "full_set", "full_wait",
     "s_ra", "s_ra_put", "s_find", "s_lock", "s_wait", "s_blk", "s_wait_blk",
     "s_ra2", "s_ra2_put", "s_issue", "oops",
     "f_find", "f_lock", "f_push", "f_drain", "f_wait", "fa_push", "fa_drain", "fa_pick",
     "fa_wait"}
SubmitPc == {"idle", "loop", "park", "sleep", "submit", "cong_set", "cong_wait"}
CompletePc ==
    {"idle", "drain", "unhash", "low", "lock", "ra_dup", "pend_find", "pend_lock",
     "fini", "wake"}
Kind == {"none", "async", "sync", "flush", "flushall"}

ReqOK ==
    /\ key \in [OpId -> Key]
    /\ opc \in [OpId -> Opcode]
    /\ ver \in [OpId -> Ptr]
    /\ bits \in [OpId -> SUBSET Bit]
    /\ ref \in [OpId -> Int]
    /\ blk \in [OpId -> Ptr]
    /\ memq \in [OpId -> Memq \cup {NULL}]
    /\ locked \subseteq Ptr
HashOK ==
    /\ rqHash \subseteq OpId
    /\ raHash \subseteq OpId
    /\ hashLock \in [Key -> Thread \cup {"none"}]
MemqOK ==
    /\ active \in [Type -> Memq]
    /\ nmemq \in Memq
    /\ mrq \in [Memq -> Seq(OpId)]
    /\ npend \in [Memq -> Int]
    /\ nrrq \in [Memq -> Int]
    /\ mlist \in [Type -> Seq(Memq)]
ThrOK ==
    /\ pc \in [Thread -> ThreadPc]
    /\ me \in [Thread -> Ptr]
    /\ buf \in [Thread -> Ptr]
SubOK ==
    /\ schedQ \subseteq Type
    /\ subQ \subseteq Type
    /\ wake \subseteq Type
    /\ subPc \in [Type -> SubmitPc]
    /\ subCur \in [Type -> Memq \cup {NULL}]
    /\ subRq \in [Type -> Ptr]
CompOK ==
    /\ compQ \in BOOLEAN
    /\ compPc \in CompletePc
    /\ compCur \in Ptr
    /\ compBuf \in Ptr
    /\ fifo \in Seq(OpId)
    /\ inflight \in Int
    /\ congested \in BOOLEAN
    /\ queueFull \in BOOLEAN
DevOK ==
    /\ dev \in [Key -> Ptr]
    /\ devQ \subseteq OpId
    /\ isr \in Ptr
HistOK ==
    /\ nops \in Ptr
    /\ cmd \in [OpId -> [kind : Kind, op : Opcode]]
    /\ done \subseteq OpId
    /\ before \in [OpId -> SUBSET OpId]
    /\ res \in [OpId -> -1..MaxOps]

\* Every variable has its type.
TypeOK ==
    ReqOK /\ HashOK /\ MemqOK /\ ThrOK /\ SubOK /\ CompOK /\ DevOK /\ HistOK

-----------------------------------------------------------------------------
(* The request hash. *)

\* "Invalid or blocking rq can not exist in the request hash" (kv_hash.c), nor
\* can a completed one: the restart branches of the lookups are never taken.
HashUsable == \A r \in rqHash : ~Unusable(r)

\* The request hash holds at most one request per key, so the request a lookup
\* finds is the only one new commands of the key may meet.
HashUnique == \A r, s \in rqHash : key[r] = key[s] => r = s

-----------------------------------------------------------------------------
(* Lifetime of a request. *)

SeqRange(s) == {s[i] : i \in DOMAIN s}

\* The places that keep the reference init_kv_async_request gave the request:
\* a thread that is inserting it or took it from the read-ahead hash, ...
KeeperThreads(r) ==
    {t \in Thread : \/ me[t] = r /\ pc[t] \in {"insert", "ins_lock"}
                    \/ buf[t] = r /\ pc[t] \in {"ra_put", "s_ra_put", "s_ra2_put"}}
\* ... a memory queue, a congested submission daemon, ...
KeeperQueues(r) == {m \in Memq : r \in SeqRange(mrq[m])}
KeeperSubmitters(r) == {y \in Type : subRq[y] = r}
\* ... the device, the fifo, the completion daemon, the read-ahead hash.
KeeperStages(r) ==
    {stage \in {"device", "fifo", "complete", "readahead"} :
        \/ stage = "device" /\ r \in devQ
        \/ stage = "fifo" /\ r \in SeqRange(fifo)
        \/ stage = "complete" /\ r = compCur /\ "in_readahead" \notin bits[r]
        \/ stage = "readahead" /\ r \in raHash}

\* The threads that hold a reference taken by kv_hash_search.
UserThreads(r) ==
    {t \in Thread : buf[t] = r /\
        pc[t] \in {"ra_find", "ins_lock", "s_lock", "f_lock", "f_push", "f_drain", "f_wait"}}

\* refcount is exactly the number of places that keep or use the request: none
\* of them is left with a freed request, and the last one frees it.
RefExact ==
    \A r \in OpId : ref[r] =
        Cardinality(KeeperThreads(r)) + Cardinality(KeeperQueues(r))
        + Cardinality(KeeperSubmitters(r)) + Cardinality(KeeperStages(r))
        + Cardinality(UserThreads(r)) + (IF compBuf = r THEN 1 ELSE 0)

-----------------------------------------------------------------------------
(* Requests pending behind the one in flight. *)

\* The request that blocks another is in flight, marked, still referenced, and
\* has exactly one request behind it, the one in the hash.
Unblocking(b) == compCur = b /\ compPc \in {"pend_find", "pend_lock"}
PendingPair ==
    /\ \A r \in OpId : blk[r] # NULL =>
        /\ r \in rqHash /\ "inFlight" \notin bits[r]
        /\ key[blk[r]] = key[r] /\ ref[blk[r]] > 0
        /\ "blocking" \in bits[blk[r]] \/ Unblocking(blk[r])
    /\ \A b \in OpId : "blocking" \in bits[b] =>
        \E r \in OpId : blk[r] = b /\ \A s \in OpId : blk[s] = b => s = r

\* nr_pending counts the requests of the queue that are blocked, so a queue is
\* submitted exactly when none of its requests is.
PendingCount ==
    /\ \A m \in Memq : npend[m] = Cardinality({r \in OpId : blk[r] # NULL /\ memq[r] = m})
    /\ \A y \in Type : subPc[y] = "submit" =>
          \A r \in SeqRange(mrq[subCur[y]]) : blk[r] = NULL

\* The device never has two asynchronous commands of one key at a time.
OneInFlight ==
    \A r, s \in devQ \cup ({subRq[y] : y \in Type} \ {NULL}) : key[r] = key[s] => r = s

\* nr_rq is the number of requests of the queue that were not handed to the
\* device, so no queue is freed or queued again by mistake.
QueueCount ==
    \A m \in Memq : nrrq[m] = Len(mrq[m])
        + Cardinality({y \in Type : subCur[y] = m /\ subPc[y] \in {"cong_set", "cong_wait"}})

-----------------------------------------------------------------------------
(* Limits. *)

\* in_flight_rq counts the requests between their submission and their
\* completion, so the daemons throttle themselves on the real load and the
\* count returns to 0 when the device is idle.
InflightCount ==
    inflight = Cardinality(devQ) + Len(fifo) + Cardinality({y \in Type : subRq[y] # NULL})

-----------------------------------------------------------------------------
(* What the callers see. *)

\* Writes reach the device in the order their callers can observe: a value is
\* never overwritten by one whose command had returned before it was invoked.
WriteOrder ==
    [][\A k \in Key : dev'[k] # dev[k] => ~Older(dev'[k], dev[k])]_vars

\* A synchronous get never returns a value older than a write that had returned
\* when the get was invoked.
FreshRead ==
    \A n \in done : res[n] # -1 => \A w \in before[n] : ~Older(res[n], w)

\* When a flush of a key has returned, the device holds the writes to the key
\* that had returned before it, or newer ones.
FlushDurable ==
    \A n \in done : cmd[n].kind = "flush" /\ IsWrite(cmd[n].op) =>
        \A w \in before[n] : ~Older(dev[key[n]], w)

\* The asynchronous commands alone implement the write-back buffer of KVCoalesce:
\* the slot under way is the write the device (or a congested daemon) has, the
\* waiting slot the buffered or pending write of the request hash.
UnderWay(k) ==
    {r \in devQ \cup {subRq[y] : y \in Type} : r # NULL /\ key[r] = k /\ IsWrite(opc[r])}
Buffered(k) == {r \in rqHash : key[r] = k /\ "inFlight" \notin bits[r] /\ IsWrite(opc[r])}
Newest(S) == IF S = {} THEN NULL ELSE ver[CHOOSE r \in S : TRUE]
Inserting == {me[t] : t \in {u \in Thread : pc[u] \in {"insert", "ins_lock"}}}

Coalesce == INSTANCE KVCoalesce WITH
    Key <- Key,
    Write <- OpId,
    store <- dev,
    flying <- [k \in Key |-> Newest(UnderWay(k))],
    waiting <- [k \in Key |-> Newest(Buffered(k))],
    accepted <- Writes \ Inserting
CoalesceSpec == Coalesce!Spec

-----------------------------------------------------------------------------
(* Progress, under FairSpec. *)

\* A command that does not flush returns: no thread waits for a lock, or for a
\* request that another one keeps from completing, forever.
CommandEnds == \A t \in Thread : pc[t] # "idle" ~> pc[t] \in {"idle", "oops"}

-----------------------------------------------------------------------------
(* What comments in the code say and the code does not keep. *)

\* KV_iosched_congested is set when "the limit number of in-flight request has been
\* reached": the device never has more commands than KV_MAX_INFLIGHT_REQUEST.
InflightLimited == Cardinality(devQ) <= MaxInflight

\* The same bit: a submission daemon waits for its end only while commands are in
\* flight, whose completion clears it.
CongestionEnds ==
    \A y \in Type : subPc[y] = "cong_wait" /\ congested => devQ # {} \/ fifo # <<>>

\* kv_hash_search counts a reference "to prevent freeing the request": a
\* request is live as long as a thread, or the interrupt handler that has put it into
\* the fifo, goes on to read it.
LiveTarget ==
    /\ isr # NULL => ref[isr] > 0
    /\ \A t \in Thread :
        /\ pc[t] = "ra_del" => ref[me[t]] > 0
        /\ pc[t] \in {"s_wait", "s_blk", "s_wait_blk", "fa_wait"} => ref[buf[t]] > 0

\* The completion daemon unblocks what was pending on the request and wakes the
\* submission daemon that had to leave it: no memory queue is left behind.
NothingStranded == Dormant => \A y \in Type : mlist[y] = <<>>

\* A flusher is woken "when this rq is completed": the request it sleeps on
\* still has its completion, or its removal from the queue, ahead of it.
FlusherServed ==
    \A t \in Thread : pc[t] = "f_wait" /\ "flush_wakeup" \in bits[buf[t]] =>
        \/ KeeperQueues(buf[t]) # {}
        \/ KeeperSubmitters(buf[t]) # {}
        \/ KeeperStages(buf[t]) # {}

\* A put or delete "removes the data from the readahead hash": what is left
\* there is not older than a write that has returned.
ReadAheadFresh ==
    \A x \in raHash : \A w \in done \cap Writes :
        key[w] = key[x] => ~Older(ver[x], w)
=============================================================================
