----------------------------- MODULE InsdbState -----------------------------
(***************************************************************************)
(* State of insdb: user keys with their lists of columns (versions), the   *)
(* requests that carry columns to the worker threads, key blocks with      *)
(* their meta data, the sorted-key tables in memory and on the device, the *)
(* logs of the workers, snapshots; and what a read returns.                *)
(*                                                                         *)
(* There is one column id per key, and no TTL.  A value is identified by   *)
(* the sequence number of the write that brought it.                       *)
(***************************************************************************)
EXTENDS InsdbTrxn, FiniteSets

CONSTANTS
    Writer,        \* user threads that write batches
    Worker,        \* ids of the worker threads, 1..n
    Key,           \* user keys, numbers in the order of the comparator
    Table,         \* sorted-key tables
    TableOf,       \* the table a key belongs to
    Workloads,     \* what may be done: the keys stored when the database is opened, the
                   \* batches of each writer; bounds: the number of snapshots and of
                   \* rounds of the log clean-up thread
    MaxReq,        \* kMaxRequestPerKeyBlock
    SlowTrigger,   \* kSlowdownTrigger
    SlowLow,       \* kSlowdownLowWaterMark
    MaxSeq         \* ULONG_MAX, above every sequence number

ASSUME StateAssumption ==
    /\ Thread = Writer \cup Worker /\ Writer \cap Worker = {}
    /\ TableOf \in [Key -> Table]
    /\ Key \subseteq Nat \ {0} /\ \E n \in Worker : Worker = 1..n
    /\ MaxReq \in Nat \ {0} /\ SlowTrigger \in Nat /\ SlowLow \in Nat
    /\ MaxSeq \in Nat

\* A run starts from finitely many stored keys, of which one is the largest (an empty
\* table counts as 0), and gives every writer batches of puts and deletes.
ASSUME WorkloadAssumption ==
    \A load \in Workloads :
        /\ load.stored \subseteq Key
        /\ \E n \in load.stored \cup {0} : \A k \in load.stored : k <= n
        /\ load.batches \in [Writer -> Seq(Seq([key : Key, del : BOOLEAN]))]

VARIABLES
    seq,       \* sequence_number_
    uk,        \* user keys, in key_hashmap_ if present
    reqs,      \* request nodes in use, named by their first column
    pending,   \* pending_req_
    wr,        \* writers: the batches left and the batch under way
    slow,      \* slowdown_
    snaps,     \* snapshot_simplelist_: reference counts by sequence number
    nsnap,     \* bound: snapshots that may still be taken
    wk,        \* workers: the key block under construction
    blk,       \* key blocks: KeyBlockPrimaryMeta and KeyBlockMetaLog
    ikeys,     \* next_InSDBKey_seq_num_, and the key each worker uses next
    logq,      \* the two queues of a worker's log and the active one
    lt,        \* log clean-up thread
    fl,        \* table flush a worker is in
    sktdf,     \* rows of the tables in memory
    skt,       \* rows of the tables on the device
    kbm, kb,   \* key block metas and key blocks on the device
    hist       \* history: every write that was inserted

userVars == <<seq, uk, reqs, pending, wr, slow, hist>>
snapVars == <<snaps, nsnap>>
blockVars == <<blk, ikeys, logq>>
devVars == <<skt, kbm, kb>>
vars == <<trxnVars, userVars, snapVars, wk, blockVars, lt, fl, sktdf, devVars>>

Empty == [x \in {} |-> x]
Remove(f, x) == [y \in DOMAIN f \ {x} |-> f[y]]
With(f, x, v) == [y \in DOMAIN f \cup {x} |-> IF y = x THEN v ELSE f[y]]
MinOf(S) == CHOOSE x \in S : \A y \in S : x <= y
MaxOf(S) == CHOOSE x \in S : \A y \in S : y <= x

-----------------------------------------------------------------------------
\* ColumnNode.  st stands for ikey_seq_: 0 (pending), a worker's id (submitting),
\* ULONG_MAX (merged; lost once its value has been overwritten) or the key of its
\* block (stored).  kbm tells whether it
\* points to its block's KeyBlockMetaLog or KeyBlockPrimaryMeta.
Column(s, del, trxn) ==
    [id |-> s, begin |-> s, end |-> IF del THEN s ELSE MaxSeq, del |-> del,
     st |-> "pending", ikey |-> 0, kbm |-> "none", trxn |-> trxn, split |-> FALSE,
     committed |-> FALSE, holding |-> FALSE, recdel |-> FALSE]

\* A column built from a row of a table (UserKey::InsertColumnNodes).
FetchedColumn(row, end) ==
    [Column(row.id, FALSE, FALSE) EXCEPT !.begin = row.begin, !.end = end,
        !.st = "stored", !.ikey = row.ikey, !.committed = TRUE]

NoUserKey ==
    [present |-> FALSE, fetched |-> FALSE, dirty |-> FALSE, cols |-> <<>>, req |-> 0, last |-> 0]

IdleWorker == [pc |-> "idle", list |-> <<>>, pos |-> 1, log |-> Empty, ikey |-> 0]
NoFlush == [pc |-> "none", t |-> 0, snaps |-> {}, todo |-> {}, rows |-> Empty, ents |-> {},
            keys |-> {}]
IdleLog == [pc |-> "idle", w |-> 0, batch |-> <<>>, dels |-> {}, n |-> 0]

\* References a user key has beside the ones readers hold for a moment: those of
\* its requests that no worker has put into a key block.
Referenced(k) == \E r \in DOMAIN reqs : reqs[r].key = k /\ ~reqs[r].built

Rows(t) == sktdf[t]
Row(k) == sktdf[TableOf[k]][k]
HasRow(k) == k \in DOMAIN sktdf[TableOf[k]]

\* Ids are recorded for the whole batch; a batch of one write is no transaction.
NewBatch(ops) == [count |-> Len(ops), sn |-> 0, tid |-> NoTrxn, ops |-> ops]
NoBatch == NewBatch(<<>>)

\* The database that is opened (Manifest::DecodeManifest, InitNextInSDBKeySeqNum): each
\* key of a set has been put once, all in one key block, and its table has a row for
\* it.  The sequence number of a row is not used before its table has been flushed.
FirstBlock == 1
OpenedTables(S) ==
    [t \in Table |-> [k \in {x \in S : TableOf[x] = t} |-> [id |-> k, begin |-> 0, ikey |-> FirstBlock]]]
OpenedBlock(S) ==
    [bits |-> S, trx |-> {}, ref |-> 0, nrs |-> 0, inlog |-> FALSE, kbml |-> FALSE, wbits |-> {}]
Opened(S) ==
    /\ seq = MaxOf(S \cup {0})
    /\ hist = [k \in S |-> [key |-> k, del |-> FALSE, tid |-> NoTrxn]]
    /\ sktdf = OpenedTables(S) /\ skt = OpenedTables(S)
    /\ kb = (IF S = {} THEN {} ELSE {FirstBlock}) /\ kbm = kb
    /\ blk = [b \in kb |-> OpenedBlock(S)]
    /\ ikeys = [next |-> FirstBlock + MaxOf(Worker) + 1, own |-> [w \in Worker |-> FirstBlock + w]]

InitState ==
    /\ TrxnInit
    /\ slow = FALSE /\ pending = <<>> /\ reqs = Empty
    /\ uk = [k \in Key |-> NoUserKey]
    /\ \E load \in Workloads :
          /\ Opened(load.stored)
          /\ wr = [p \in Writer |-> [pc |-> "store", b |-> NoBatch, todo |-> load.batches[p],
                                     rq |-> 0]]
          /\ nsnap = load.snaps
          /\ lt = [IdleLog EXCEPT !.n = load.rounds]
    /\ snaps = Empty
    /\ wk = [w \in Worker |-> IdleWorker]
    /\ logq = [w \in Worker |-> [q |-> [i \in {0, 1} |-> <<>>], active |-> 0]]
    /\ fl = [w \in Worker |-> NoFlush]

-----------------------------------------------------------------------------
\* UserKey::GetColumnNode: the columns that hold at a sequence number.
Holds(c, s) == c.begin <= s /\ (c.end = MaxSeq \/ s < c.end \/ c.del)
Visible(k, s) == {i \in DOMAIN uk[k].cols : Holds(uk[k].cols[i], s)}

\* SKTableMem::GetColumnInfo.
ReadTable(k, s) == IF HasRow(k) /\ Row(k).begin <= s THEN Row(k).id ELSE 0

\* DBImpl::Get at a sequence number (MaxSeq without a snapshot): the write whose
\* value is returned, 0 for NotFound.  That the newest column which holds is a
\* delete is not looked at: the table is read unless the key has been fetched.
Get(k, s) ==
    LET V == IF uk[k].present THEN Visible(k, s) ELSE {}
        c == uk[k].cols[MinOf(V)]
    IN  IF V # {} /\ ~c.del THEN (IF c.st = "lost" THEN 0 ELSE c.id)
        ELSE IF uk[k].present /\ uk[k].fetched THEN 0
        ELSE ReadTable(k, s)
=============================================================================
