----------------------------- MODULE InsdbFlush -----------------------------
(***************************************************************************)
(* SKTableMem::FlushSKTableMem of insdb: a worker rebuilds a sorted-key    *)
(* table from its rows and the columns of its user keys, writes it, then   *)
(* deletes or rewrites the meta data of key blocks that have lost columns, *)
(* gives up their references, and evicts clean user keys.                  *)
(*                                                                         *)
(* A table keeps its range of keys: it is neither split nor deleted.       *)
(***************************************************************************)
EXTENDS InsdbWorker

KeysOf(t) == {k \in Key : TableOf[k] = t}
PresentKeys(t) == {k \in KeysOf(t) : uk[k].present}

\* Rows of keys that are not in memory are copied.
Copied(t) == [k \in DOMAIN Rows(t) \ PresentKeys(t) |-> Row(k)]

\* A worker takes a dirty table off the cache; nobody else flushes it then.  The list
\* of snapshots is read once.
FlushStart(w, t) ==
    /\ Idle(w)
    /\ \A v \in Worker : fl[v].pc = "none" \/ fl[v].t # t
    /\ \E k \in PresentKeys(t) : uk[k].dirty
    /\ fl' = [fl EXCEPT ![w] =
                 [pc |-> "build", t |-> t, snaps |-> DOMAIN snaps, keys |-> PresentKeys(t),
                  todo |-> PresentKeys(t), ents |-> {}, rows |-> Copied(t)]]
    /\ UNCHANGED <<trxnVars, userVars, snapVars, wk, blockVars, lt, sktdf, devVars>>

-----------------------------------------------------------------------------
\* The columns of a key, the one of its row included: InsertColumnNodes unless the key
\* has been fetched, then GetKBPM for the new column.
Fetches(k) == HasRow(k) /\ ~uk[k].fetched
RowColumn(k) ==
    LET cols == uk[k].cols IN
    [FetchedColumn(Row(k), IF cols = <<>> THEN MaxSeq ELSE cols[Len(cols)].begin)
        EXCEPT !.kbm = "prim"]
Columns(k) == IF Fetches(k) THEN Append(uk[k].cols, RowColumn(k)) ELSE uk[k].cols

\* Mutation: a column that a worker is submitting is judged like a stored one.
SkippedPending(c) == c.st = "pending"

\* Columns without a key block stay as they are.
Skipped(c) == c.st \in {"pending", "submitting"}

\* What becomes of column i (CheckColumnStatus): the newest stored one is recorded in
\* the table if it is a put and nothing newer has been deleted; another one stays
\* while a snapshot of the list sees it, or is deleted.
IsFirstStored(cols, i) ==
    cols[i].st = "stored" /\ \A j \in 1..(i - 1) : cols[j].st # "stored"

Verdict(cols, S, i) ==
    LET drop(j) == cols[j].st = "merged" /\ ~Seen(cols, S, 1, j) IN
    IF Skipped(cols[i]) THEN "skip"
    ELSE IF /\ IsFirstStored(cols, i) /\ ~cols[i].del /\ ~cols[i].recdel
            /\ \A j \in 1..(i - 1) : ~drop(j)
    THEN "valid"
    ELSE IF Seen(cols, S, 1, i) THEN "iter" ELSE "drop"

\* The column after the scan.  A deleted column marks all the older ones.
Scanned(cols, S, i) ==
    LET v == Verdict(cols, S, i)
        c == [cols[i] EXCEPT !.recdel = @ \/ \E j \in 1..(i - 1) : Verdict(cols, S, j) = "drop"]
    IN  IF c.st # "stored" \/ v \notin {"valid", "iter"} THEN c
        ELSE [c EXCEPT !.committed = TRUE, !.kbm = "prim", !.holding = @ \/ v = "iter"]

\* Mutation: columns that only a snapshot sees do not keep the key dirty.
StaysDirtyUnseen(cols, S) == \E i \in DOMAIN cols : Verdict(cols, S, i) = "skip"

\* A key with columns that are not in the table stays dirty.
StaysDirty(cols, S) == \E i \in DOMAIN cols : Verdict(cols, S, i) \in {"skip", "iter"}

\* Stored columns of a key that lose their place in block b with a given verdict.
Hit(cols, S, b, V) ==
    {i \in DOMAIN cols : cols[i].st = "stored" /\ cols[i].ikey = b /\ Verdict(cols, S, i) \in V}

\* Mutation: the count of unrecorded columns is left to the release of the entry, which
\* a column recorded in the table does not have.
ScannedBlockUncounted(w, cols, S, b, fetched) ==
    LET lost == Hit(cols, S, b, {"iter", "drop"})
        done == Hit(cols, S, b, {"iter", "drop", "valid"})
    IN  [blk[b] EXCEPT
            !.bits = @ \ {cols[i].id : i \in {j \in lost : ~cols[j].holding}},
            !.trx = @ \ {cols[i].id : i \in done},
            !.ref = IF fetched THEN @ + 1 ELSE @,
            !.wbits = IF lost = {} THEN @ ELSE @ \cup {w}]

\* Block b after the scan of a key; the bit of a column is cleared when it is first
\* found to be invalid.
ScannedBlock(w, cols, S, b, fetched) ==
    LET lost == Hit(cols, S, b, {"iter", "drop"})
        done == Hit(cols, S, b, {"iter", "drop", "valid"})
    IN  [blk[b] EXCEPT
            !.bits = @ \ {cols[i].id : i \in {j \in lost : ~cols[j].holding}},
            !.trx = @ \ {cols[i].id : i \in done},
            !.ref = IF fetched THEN @ + 1 ELSE @,
            !.nrs = @ - Cardinality({i \in Hit(cols, S, b, {"valid"}) : ~cols[i].committed}),
            !.wbits = IF lost = {} THEN @ ELSE @ \cup {w}]

\* Mutation: the columns that are still valid in the block are not looked at.
EntryKindAlone(c, b) ==
    IF (c.kbm = "log" /\ b.trx # {}) \/ b.inlog \/ b.ref > 1 THEN "upd" ELSE "del"

\* The list a column goes to: its block is deleted when it holds nothing else.
EntryKind(c, b) ==
    IF b.bits # {} \/ (c.kbm = "log" /\ b.trx # {}) \/ b.inlog \/ b.ref > 1 THEN "upd" ELSE "del"

\* The row of a column that is recorded.  A column that begins at 0, built from a row of
\* an opened table, gets the mark of a sequence number and no number after it; the
\* decoder is then at the end of the row, which has one column, and reads 0.
NewRow(c) == [id |-> c.id, begin |-> c.begin, ikey |-> c.ikey]

Entry(c, kind) == [id |-> c.id, ikey |-> c.ikey, kind |-> kind, dec |-> ~c.committed]

\* SKTableMem::DeviceFormatBuilder for the next key in memory, under its column lock.
\* A clean key keeps its row.  The row of a dirty one is cleared in memory, so that
\* nobody reads it; a key without columns leaves the memory.
\* A column whose value was overwritten has a block meta that cannot be loaded: abort().
FlushBuild(w) ==
    LET k == MinOf(fl[w].todo)
        t == fl[w].t
        S == fl[w].snaps
        cols == Columns(k)
        lost(V) == {i \in DOMAIN cols : cols[i].st = "stored" /\ Verdict(cols, S, i) \in V}
        used == {cols[i].ikey : i \in {j \in DOMAIN cols : cols[j].st = "stored"}}
        nblk == [b \in DOMAIN blk |->
                    IF b \in used
                    THEN ScannedBlock(w, cols, S, b, Fetches(k) /\ b = Row(k).ikey) ELSE blk[b]]
        rest == Keep([i \in DOMAIN cols |-> Scanned(cols, S, i)],
                     {i \in DOMAIN cols : Verdict(cols, S, i) = "drop"})
        valid == {i \in DOMAIN cols : Verdict(cols, S, i) = "valid"}
        ents == {Entry(cols[i], "itr") : i \in lost({"iter"})}
                  \cup {Entry(cols[i], EntryKind(cols[i], nblk[cols[i].ikey])) : i \in lost({"drop"})}
    IN  /\ fl[w].pc = "build" /\ fl[w].todo # {}
        /\ IF HasRow(k) /\ ~uk[k].dirty
           THEN /\ fl' = [fl EXCEPT ![w].todo = @ \ {k}, ![w].rows = With(@, k, Row(k))]
                /\ UNCHANGED <<uk, blk, sktdf>>
           ELSE /\ \A i \in DOMAIN cols : cols[i].st # "lost"
                /\ fl' = [fl EXCEPT ![w] =
                             [fl[w] EXCEPT !.todo = @ \ {k}, !.ents = @ \cup ents,
                                           !.rows = IF valid = {} THEN @
                                                    ELSE With(@, k, NewRow(cols[MinOf(valid)]))]]
                /\ uk' = [uk EXCEPT ![k] =
                             IF rest = <<>> THEN NoUserKey
                             ELSE [uk[k] EXCEPT !.fetched = TRUE, !.dirty = StaysDirty(cols, S), !.cols = rest]]
                /\ blk' = nblk
                /\ sktdf' = [sktdf EXCEPT ![t] = Remove(@, k)]
        /\ UNCHANGED <<trxnVars, seq, reqs, pending, wr, slow, hist, snapVars, wk, ikeys, logq, lt,
                       devVars>>

-----------------------------------------------------------------------------
FlushVars == <<trxnVars, userVars, snapVars, wk, ikeys, logq, lt>>
Moved(w, pc) == fl' = [fl EXCEPT ![w].pc = pc]

FlushWrite(w) ==
    /\ fl[w].pc = "build" /\ fl[w].todo = {}
    /\ skt' = [skt EXCEPT ![fl[w].t] = fl[w].rows]
    /\ Moved(w, IF fl[w].ents = {} THEN "end" ELSE "delete")
    /\ UNCHANGED <<FlushVars, blk, sktdf, kbm, kb>>

\* GetUpdatedKBMList: the blocks of these entries that no other worker has written
\* since this one marked them.
Mine(w, kinds) ==
    {b \in {e.ikey : e \in {x \in fl[w].ents : x.kind \in kinds}} : w \in blk[b].wbits}
Unmarked(S) == [b \in DOMAIN blk |-> IF b \in S THEN [blk[b] EXCEPT !.wbits = {}] ELSE blk[b]]

FlushDelete(w) ==
    LET S == Mine(w, {"del"}) IN
    /\ fl[w].pc = "delete"
    /\ kbm' = kbm \ S /\ kb' = kb \ S
    /\ blk' = Unmarked(S)
    /\ Moved(w, "update")
    /\ UNCHANGED <<FlushVars, sktdf, skt>>

FlushUpdate(w) ==
    LET S == Mine(w, {"upd", "itr"}) IN
    /\ fl[w].pc = "update"
    /\ kbm' = kbm \cup S
    /\ blk' = Unmarked(S)
    /\ Moved(w, "release")
    /\ UNCHANGED <<FlushVars, sktdf, skt, kb>>

\* Entries in the order they are given up: those of snapshots, updates, deletions.
Rank(e) == IF e.kind = "itr" THEN 0 ELSE IF e.kind = "upd" THEN 1 ELSE 2
FirstEntry(w) ==
    CHOOSE e \in fl[w].ents :
        \A f \in fl[w].ents : Rank(e) < Rank(f) \/ (Rank(e) = Rank(f) /\ e.id <= f.id)

\* The count of unrecorded columns goes down first, then the reference of the column.
\* A column that a snapshot keeps alive keeps its reference too.
ReleaseNRS(w) ==
    LET e == FirstEntry(w) IN
    /\ fl[w].pc = "release" /\ fl[w].ents # {} /\ e.dec
    /\ blk' = [blk EXCEPT ![e.ikey].nrs = @ - 1]
    /\ fl' = [fl EXCEPT ![w].ents = (@ \ {e}) \cup
                 (IF e.kind = "itr" THEN {} ELSE {[e EXCEPT !.dec = FALSE]})]
    /\ UNCHANGED <<FlushVars, sktdf, devVars>>

\* Mutation: a column that a snapshot keeps gives up its reference all the same.
ReleaseRefAll(w) ==
    LET e == FirstEntry(w) IN
    /\ fl[w].pc = "release" /\ fl[w].ents # {} /\ ~e.dec
    /\ blk' = [blk EXCEPT ![e.ikey].ref = @ - 1]
    /\ fl' = [fl EXCEPT ![w].ents = @ \ {e}]
    /\ UNCHANGED <<FlushVars, sktdf, devVars>>

ReleaseRef(w) ==
    LET e == FirstEntry(w) IN
    /\ fl[w].pc = "release" /\ fl[w].ents # {} /\ ~e.dec
    /\ blk' = IF e.kind = "itr" THEN blk ELSE [blk EXCEPT ![e.ikey].ref = @ - 1]
    /\ fl' = [fl EXCEPT ![w].ents = @ \ {e}]
    /\ UNCHANGED <<FlushVars, sktdf, devVars>>

\* The user keys of the flush that are in keymap_ at its end.  One that the flush removed
\* and a writer created again since has not been fetched; it waits in a key queue.
InKeymap(w) == {k \in fl[w].keys : uk[k].present /\ uk[k].fetched}

\* The new rows replace the old ones; EvictCleanUserKeyFromKeymap takes keys in order
\* and ends at the first one that is dirty or in use.
Busy(k) == uk[k].dirty \/ Referenced(k)
Evicted(w) == {k \in InKeymap(w) : \A j \in InKeymap(w) : j <= k => ~Busy(j)}

\* Mutation: the reference of an evicted key is not given up.
ReferencesKept(b, S) == 0

\* UserKeyCleanup gives up the reference of one column.
References(b, S) ==
    Cardinality({k \in S : ~NoColumns(k) /\ Newest(k).kbm # "none" /\ Newest(k).ikey = b})

FlushEnd(w) ==
    /\ fl[w].pc = "end" \/ (fl[w].pc = "release" /\ fl[w].ents = {})
    /\ sktdf' = [sktdf EXCEPT ![fl[w].t] = fl[w].rows]
    /\ uk' = [k \in Key |-> IF k \in Evicted(w) THEN NoUserKey ELSE uk[k]]
    /\ blk' = [b \in DOMAIN blk |-> [blk[b] EXCEPT !.ref = @ - References(b, Evicted(w))]]
    /\ fl' = [fl EXCEPT ![w] = NoFlush]
    /\ UNCHANGED <<trxnVars, seq, reqs, pending, wr, slow, hist, snapVars, wk, ikeys, logq, lt,
                   devVars>>

FlushNext(w) ==
    \/ \E t \in Table : FlushStart(w, t)
    \/ FlushBuild(w) \/ FlushWrite(w) \/ FlushDelete(w) \/ FlushUpdate(w)
    \/ ReleaseNRS(w) \/ ReleaseRef(w) \/ FlushEnd(w)
=============================================================================
