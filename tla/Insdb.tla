-------------------------------- MODULE Insdb --------------------------------
(***************************************************************************)
(* insdb as a whole: writers, snapshots, workers, table flushes, the log   *)
(* clean-up thread and the transaction groups they share, and what must    *)
(* hold of them together.                                                  *)
(***************************************************************************)
EXTENDS InsdbLog

Init == InitState

\* The end of a DecTrxnGroup that emptied a group.
Publish(t) ==
    /\ AddCompletedTrxnGroupRange(t)
    /\ UNCHANGED <<userVars, snapVars, wk, blockVars, lt, fl, sktdf, devVars>>

Next ==
    \/ \E p \in Writer : Store(p) \/ PutColumnNodeToRequestQueue(p)
    \/ TakeSnapshot
    \/ \E s \in DOMAIN snaps : ReleaseSnapshot(s)
    \/ \E w \in Worker : WorkerNext(w) \/ FlushNext(w)
    \/ LogNext
    \/ \E t \in Thread : Publish(t)

Spec == Init /\ [][Next]_vars

-----------------------------------------------------------------------------
\* The state has its shape: columns newest first, the queue holds requests in use,
\* groups in the table have a positive count, and each request is of one key.
InsdbTypeOK ==
    /\ nextTrxn.g \in 1..LastGroup /\ nextTrxn.i \in 0..(GroupSize - 1)
    /\ \A g \in DOMAIN uncompleted : uncompleted[g] > 0
    /\ adding \in [Thread -> Nat]
    /\ seq \in Nat /\ slow \in BOOLEAN /\ nsnap \in Nat
    /\ \A k \in Key : \A i \in DOMAIN uk[k].cols :
          /\ uk[k].cols[i].id \in DOMAIN hist
          /\ \A j \in DOMAIN uk[k].cols : i < j => uk[k].cols[j].begin < uk[k].cols[i].begin
    /\ \A i \in DOMAIN pending : pending[i] \in DOMAIN reqs
    /\ \A r \in DOMAIN reqs : reqs[r].key \in Key
    /\ \A b \in DOMAIN blk : blk[b].ref \in Nat /\ blk[b].nrs \in Nat
    /\ kb \subseteq Nat /\ kbm \subseteq Nat

Sites(P(_, _)) == {x \in Key \X (1..Cardinality(DOMAIN hist)) :
                      x[2] \in DOMAIN uk[x[1]].cols /\ P(x[1], x[2])}

\* Requests of a worker whose header still counts in a group or is not yet updated.
OpenRequests(w, from) ==
    {wk[w].list[i] : i \in {j \in DOMAIN wk[w].list : j >= from}}
Undecreased(w) == OpenRequests(w, IF wk[w].pc = "update" THEN wk[w].pos + 1
                                  ELSE IF wk[w].pc = "submit" THEN wk[w].pos ELSE 1)

\* Columns of the group that no worker has accounted for, headers under submission,
\* and the writes that a batch of the group still has to do.
GroupMembers(g) ==
    LET waiting(k, i) == uk[k].cols[i].trxn /\ hist[uk[k].cols[i].id].tid.g = g
        batches == {p \in Writer : wr[p].b.tid.g = g}
    IN  Cardinality(Sites(waiting))
          + Cardinality({r \in UNION {Undecreased(w) : w \in Worker} : reqs[r].tgid = g})
          + Cardinality(UNION {{p} \X (1..(wr[p].b.count - wr[p].b.sn)) : p \in batches})

\* The count of a group that GetTrxnID raises for a whole batch and failed deletes,
\* merges and submissions lower, in several threads, is the number of writes of the
\* group that are outstanding; a group leaves the table exactly when there is none
\* (manifest.cc 3595-3658).
GroupCount ==
    \A g \in 1..(LastGroup - 1) : Outstanding(g) = GroupMembers(g)

\* The comment at userkey.cc 364-368: the transactions of merged columns never empty
\* the group, because the header's is still counted.
HeaderHoldsGroup == \A w \in Worker : wk[w].pc \in {"merge", "put"} => adding[w] = 0

\* The transaction a key block's log gets for a column is the one that wrote it,
\* although a request keeps the transactions of its columns apart from them and is
\* filled by several writers (userkey.cc 304-372, RequestNode::GetTrxn).
TrxnLogged ==
    \A w \in Worker : \A r \in DOMAIN wk[w].log : \A i \in DOMAIN wk[w].log[r] :
        wk[w].log[r][i].trxn = hist[wk[w].log[r][i].col].tid

\* The transaction groups, seen through their tables, are opened, closed and published
\* once each.
TG == INSTANCE TrxnGroups WITH
    Group <- 1..(LastGroup - 1),
    open <- DOMAIN uncompleted,
    closed <- {adding[t] : t \in Thread} \ {0},
    published <- {g \in 1..(LastGroup - 1) : IsCompleted(g)}
TrxnGroupsSpec == TG!Spec

-----------------------------------------------------------------------------
\* What a reader at a sequence number must see: the last write up to there.
Expect(k, s) ==
    LET W == {i \in DOMAIN hist : hist[i].key = k /\ i <= s} IN
    IF W = {} \/ hist[MaxOf(W)].del THEN 0 ELSE MaxOf(W)

\* A key that was deleted but not fetched: Get goes on to the table.
StaleDelete(k, s) ==
    /\ uk[k].present /\ ~uk[k].fetched /\ HasRow(k)
    /\ Visible(k, s) # {} /\ uk[k].cols[MinOf(Visible(k, s))].del

\* The snapshot was taken while the key's table was being built.
Late(k, s) == s \in DOMAIN snaps /\ TableOf[k] \in snaps[s].late

\* The delete that a snapshot should see has left the list of columns: merged into a newer
\* write, or dropped by a flush (the value it deleted is then no longer in the table).
DeleteMerged(k, s) ==
    LET W == {i \in DOMAIN hist : hist[i].key = k} IN
    /\ s \in DOMAIN snaps
    /\ \E d \in W : /\ d <= s /\ hist[d].del
                    /\ \A i \in DOMAIN uk[k].cols : uk[k].cols[i].id # d
                    /\ \E n \in W : s < n /\ \A i \in W : i <= d \/ n <= i

\* The value of a merged column of the key has been overwritten.
ValueLost(k) == \E i \in DOMAIN uk[k].cols : uk[k].cols[i].st = "lost"

\* Whatever merges, flushes, evictions and deletions of blocks are under way, Get returns
\* the last write, or the last one before the snapshot, but for the cases above
\* (DBImpl::Get with UserKey::GetColumnNode and SKTableMem::GetColumnInfo).
ReadsRight ==
    \A k \in Key, s \in DOMAIN snaps \cup {MaxSeq} :
        \/ Get(k, s) = Expect(k, s)
        \/ StaleDelete(k, s) \/ Late(k, s) \/ DeleteMerged(k, s) \/ ValueLost(k)

\* Get returns the last write before the snapshot, but for the cases that X allows.
SnapshotReads(X(_, _)) ==
    \A k \in Key, s \in DOMAIN snaps : Get(k, s) = Expect(k, s) \/ X(k, s)

\* "Snapshots provide consistent read-only views" (doc/index.md): a deleted key stays
\* deleted in a snapshot when DoVerticalMerge drops the delete for a newer write.
DeleteSeen ==
    LET other(k, s) == StaleDelete(k, s) \/ Late(k, s) \/ ValueLost(k) IN SnapshotReads(other)

\* The same of a snapshot taken while FlushSKTableMem builds a table from a list of
\* snapshots that it has read before.
LateSeen ==
    LET other(k, s) == StaleDelete(k, s) \/ DeleteMerged(k, s) \/ ValueLost(k)
    IN  SnapshotReads(other)

\* The same of a merged column that DoVerticalMerge keeps for the snapshot, with its
\* value in memory only, when UpdateColumn puts a newer column on it.
ValueSeen ==
    LET other(k, s) == StaleDelete(k, s) \/ Late(k, s) \/ DeleteMerged(k, s)
    IN  SnapshotReads(other)

\* db.h: Delete removes the entry, and Get reports NotFound for a key that is not there.
GetLatest == \A k \in Key : Get(k, MaxSeq) = Expect(k, MaxSeq)

-----------------------------------------------------------------------------
Entries(kinds) == UNION {{e \in fl[w].ents : e.kind \in kinds} : w \in Worker}

\* Requests in block b whose column has not been updated yet.
Unsubmitted(b) == UNION {OpenRequests(w, wk[w].pos) : w \in
                            {v \in Worker : wk[v].pc \in {"submit", "update"} /\ wk[v].ikey = b}}

\* The count of unrecorded columns, lowered by the workers that flush the tables of the
\* columns, is exact; while it is positive the block has its log entry, which a column
\* that is not committed points to (sktable.cc 3017-3055, 2033-2075, manifest.cc 2882).
NRSExact ==
    \A b \in DOMAIN blk :
        LET unrecorded(k, i) == /\ uk[k].cols[i].st = "stored" /\ uk[k].cols[i].ikey = b
                                /\ ~uk[k].cols[i].committed
        IN  /\ blk[b].nrs = Cardinality(Sites(unrecorded)) + Cardinality(Unsubmitted(b))
                              + Cardinality({e \in Entries({"itr", "upd", "del"}) : e.ikey = b /\ e.dec})
            /\ blk[b].nrs > 0 => blk[b].kbml

\* A block is referenced once by every column in memory that is in it and by every
\* column that a flush has removed and not yet given up (KeyBlockPrimaryMeta::ref_cnt_):
\* the log thread and the flushes decide on it whether to delete the block.
KBRefExact ==
    \A b \in DOMAIN blk :
        LET attached(k, i) == uk[k].cols[i].st = "stored" /\ uk[k].cols[i].ikey = b IN
        blk[b].ref = Cardinality(Sites(attached)) + Cardinality(Unsubmitted(b))
                       + Cardinality({e \in Entries({"upd", "del"}) : e.ikey = b})

\* Nothing that a reader or a reopened database can reach points to a key block that has
\* been deleted: rows of tables in memory and on the device, and columns of user keys,
\* the ones only a snapshot sees included.
BlockKept ==
    /\ \A t \in Table : \A k \in DOMAIN sktdf[t] : sktdf[t][k].ikey \in kb \cap kbm \cap DOMAIN blk
    /\ \A t \in Table : \A k \in DOMAIN skt[t] : skt[t][k].ikey \in kb
    /\ \A k \in Key : \A i \in DOMAIN uk[k].cols :
          LET c == uk[k].cols[i] IN
          c.st = "stored" => c.ikey \in DOMAIN blk /\ (c.del \/ c.ikey \in kb)

\* A clean user key, which may be evicted, is exactly its row: one recorded column
\* (UserKeyCleanup gives up one column only; its assertion on their number cannot fail).
CleanKey ==
    \A k \in Key : uk[k].present /\ ~uk[k].dirty =>
        /\ Len(uk[k].cols) = 1 /\ uk[k].fetched
        /\ Newest(k).st = "stored" /\ Newest(k).committed /\ Newest(k).kbm = "prim"
        /\ LET F == {w \in Worker : fl[w].pc # "none" /\ k \in fl[w].keys \ fl[w].todo}
               rows == IF F = {} THEN Rows(TableOf[k]) ELSE fl[MinOf(F)].rows
           IN  k \in DOMAIN rows /\ rows[k].id = Newest(k).id /\ rows[k].ikey = Newest(k).ikey
=============================================================================
