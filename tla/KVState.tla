------------------------------- MODULE KVState -------------------------------
(***************************************************************************)
(* State of the KV I/O scheduler of the NVMe driver: struct                *)
(* kv_async_request, kv_memqueue_struct, kv_hash and kv_iosched_struct of  *)
(* kv_iosched.h, the local variables of the user threads that are inside   *)
(* an ioctl, and the contents of the device.                               *)
(*                                                                         *)
(* A command is named by the order of its invocation, 1..MaxOps, and an    *)
(* asynchronous command's kv_async_request by the number of the command,   *)
(* so a request that was freed keeps its name and is never mistaken for a  *)
(* later one.  The value a store carries (or the tombstone of a delete) is *)
(* the number of the command; 0 is what the device held initially.         *)
(*                                                                         *)
(* A critical section that cannot block while it holds its spin locks is   *)
(* one atomic step.  The lock of a request is held across steps only by    *)
(* the completion daemon (variable locked), a bucket lock of the request   *)
(* hash only by a thread that waits for the lock of the request it found   *)
(* (variable hashLock).  One bucket per key, one CPU.                      *)
(***************************************************************************)
EXTENDS Integers, Sequences, FiniteSets

CONSTANTS
    Key,            \* keys of the store
    Thread,         \* user threads that issue ioctls
    MaxOps,         \* bound on the number of commands
    HighWatermark,  \* KV_PENDING_QUEU_HIGH_WATERMARK
    LowWatermark,   \* KV_PENDING_QUEU_LOW_WATERMARK
    MaxInflight     \* KV_MAX_INFLIGHT_REQUEST

ASSUME ConstantsAssumption ==
    /\ Key # {}
    /\ MaxOps \in Nat
    /\ HighWatermark \in Nat /\ LowWatermark \in Nat /\ MaxInflight \in Nat
    /\ "none" \notin Thread

ASSUME ThreadAssumption == IsFiniteSet(Thread)

NULL == 0
OpId == 1..MaxOps
Ptr == 0..MaxOps
\* Bound on the memory queues ever allocated: the two initial ones and one for
\* every command, since only a queue that holds a request is replaced.
MaxMemq == MaxOps + 2
Memq == 1..MaxMemq

Opcode == {"store", "delete", "retrieve"}
IsWrite(o) == o \in {"store", "delete"}

\* One scheduling daemon, one active memory queue, one submission daemon each.
Type == {"READ", "WRITE"}
TypeOf(o) == IF o = "retrieve" THEN "READ" ELSE "WRITE"

\* enum kv_async_rq_state
Bit == {"invalid", "blocking", "inFlight", "flush_wakeup", "in_readahead", "completed"}

VARIABLES
    \* struct kv_async_request (key and opc also hold a sync command's own)
    key, opc, ver, bits, ref, blk, memq, locked,
    \* kv_hash[KV_RQ_HASH], its bucket locks, and kv_hash[KV_RA_HASH]
    rqHash, hashLock, raHash,
    \* percpu_memq[ACTIVE_*], and of every memory queue its rq list, nr_pending
    \* and nr_rq; the mumemq_list of the submission daemons
    active, nmemq, mrq, npend, nrrq, mlist,
    \* user threads
    pc, me, buf,
    \* queued work and position of the scheduling and submission daemons;
    \* wake holds the KV_iosched_need_to_wake_*_submit_daemon bits
    schedQ, subQ, subPc, subCur, subRq, wake,
    \* completion daemon, complete_fifo, in_flight_rq, and the bits
    \* KV_iosched_congested and KV_iosched_queue_full
    compQ, compPc, compCur, compBuf, fifo, inflight, congested, queueFull,
    \* the device: value of every key, commands it has accepted, the request whose
    \* interrupt handler is running
    dev, devQ, isr,
    \* history: commands issued, what they are, which have returned, the
    \* writes to the same key that had returned when a command was invoked,
    \* and what a read returned (-1 before it returns)
    nops, cmd, done, before, res

reqVars  == <<key, opc, ver, bits, ref, blk, memq>>
hashVars == <<rqHash, hashLock, raHash>>
memqVars == <<active, nmemq, mrq, npend, nrrq, mlist>>
thrVars  == <<pc, me, buf>>
subVars  == <<schedQ, subQ, subPc, subCur, subRq, wake>>
compVars == <<compQ, compPc, compCur, compBuf, fifo, inflight, congested, queueFull>>
devVars  == <<dev, devQ, isr>>
histVars == <<nops, cmd, done, before, res>>
vars == <<reqVars, locked, hashVars, memqVars, thrVars, subVars, compVars,
          devVars, histVars>>

\* kv_iosched_init: empty hashes and lists, two empty active memory queues.
Init ==
    /\ key = [r \in OpId |-> CHOOSE k \in Key : TRUE]
    /\ opc = [r \in OpId |-> "retrieve"]
    /\ ver = [r \in OpId |-> 0]
    /\ bits = [r \in OpId |-> {}]
    /\ ref = [r \in OpId |-> 0]
    /\ blk = [r \in OpId |-> NULL]
    /\ memq = [r \in OpId |-> NULL]
    /\ locked = {}
    /\ rqHash = {} /\ raHash = {}
    /\ hashLock = [k \in Key |-> "none"]
    /\ active = [y \in Type |-> IF y = "READ" THEN 1 ELSE 2]
    /\ nmemq = 2
    /\ mrq = [m \in Memq |-> <<>>]
    /\ npend = [m \in Memq |-> 0]
    /\ nrrq = [m \in Memq |-> 0]
    /\ mlist = [y \in Type |-> <<>>]
    /\ pc = [t \in Thread |-> "idle"]
    /\ me = [t \in Thread |-> NULL]
    /\ buf = [t \in Thread |-> NULL]
    /\ schedQ = {} /\ subQ = {} /\ wake = {}
    /\ subPc = [y \in Type |-> "idle"]
    /\ subCur = [y \in Type |-> NULL]
    /\ subRq = [y \in Type |-> NULL]
    /\ compQ = FALSE /\ compPc = "idle" /\ compCur = NULL /\ compBuf = NULL
    /\ fifo = <<>> /\ inflight = 0 /\ congested = FALSE /\ queueFull = FALSE
    /\ dev = [k \in Key |-> 0] /\ devQ = {} /\ isr = NULL
    /\ nops = 0
    /\ cmd = [n \in OpId |-> [kind |-> "none", op |-> "retrieve"]]
    /\ done = {}
    /\ before = [n \in OpId |-> {}]
    /\ res = [n \in OpId |-> -1]

-----------------------------------------------------------------------------
\* kv_hash_search: the requests of a hash with key k.
Hashed(hash, k) == {r \in hash : key[r] = k}

\* atomic_inc / atomic_dec_and_test of refcount; a request whose count falls
\* to 0 is freed by whoever dropped it.
IncRef(r) == ref' = [ref EXCEPT ![r] = @ + 1]
DecRef(r) == ref' = [ref EXCEPT ![r] = @ - 1]

\* Number of entries of the request hash (kv_hash.nr_rq).
NrRq == Cardinality(rqHash)

\* Commands that write, and the real-time order of writes to one key: v had
\* returned before w was invoked.
Writes == {n \in OpId : cmd[n].kind \in {"async", "sync"} /\ IsWrite(cmd[n].op)}
Older(v, w) == v # w /\ w # 0 /\ (v = 0 \/ v \in before[w])

\* A thread enters an ioctl with command o on key k.
NewCmd(t, kind, k, o) ==
    LET n == nops + 1 IN
    /\ pc[t] = "idle"
    /\ nops < MaxOps
    /\ nops' = n
    /\ me' = [me EXCEPT ![t] = n]
    /\ key' = [key EXCEPT ![n] = k]
    /\ opc' = [opc EXCEPT ![n] = o]
    /\ ver' = [ver EXCEPT ![n] = IF IsWrite(o) THEN n ELSE 0]
    /\ cmd' = [cmd EXCEPT ![n] = [kind |-> kind, op |-> o]]
    /\ before' = [before EXCEPT ![n] = {w \in done \cap Writes : key[w] = k}]

Goto(t, label) == pc' = [pc EXCEPT ![t] = label]

\* The ioctl of thread t returns.
Return(t) ==
    /\ pc' = [pc EXCEPT ![t] = "idle"]
    /\ me' = [me EXCEPT ![t] = NULL]
    /\ buf' = [buf EXCEPT ![t] = NULL]
    /\ done' = done \cup {me[t]}
=============================================================================
