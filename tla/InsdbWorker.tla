----------------------------- MODULE InsdbWorker -----------------------------
(***************************************************************************)
(* DBImpl::WorkerThread of insdb up to the flush of tables: take requests, *)
(* merge the waiting columns of each key into its newest one, write the    *)
(* key block and its meta data, return the transactions, update columns.   *)
(*                                                                         *)
(* Values are small: a key block is full by number of requests only.       *)
(***************************************************************************)
EXTENDS InsdbWrite

\* The column with a given id.
At(k, id) == CHOOSE i \in DOMAIN uk[k].cols : uk[k].cols[i].id = id

\* The column a request submits: the newest one, unless the request has been closed.
Header(r) == IF reqs[r].latest = 0 THEN Newest(reqs[r].key).id ELSE reqs[r].latest
HeaderColumn(r) == uk[reqs[r].key].cols[At(reqs[r].key, Header(r))]

\* How many of the first n requests submit a delete, or a put.
CountOf(n, del) == Cardinality({i \in 1..n : HeaderColumn(pending[i]).del = del})
Full(n) == CountOf(n, TRUE) = MaxReq \/ CountOf(n, FALSE) = MaxReq

Taken ==
    MinOf({n \in 1..Len(pending) : Full(n) \/ n = Len(pending)})

\* The slow-down ends: slowdown_cv_.SignalAll().
Woken == [p \in Writer |-> IF wr[p].pc = "asleep" THEN [wr[p] EXCEPT !.pc = "go"] ELSE wr[p]]
WakeIf(cond) ==
    IF cond /\ slow THEN slow' = FALSE /\ wr' = Woken ELSE UNCHANGED <<slow, wr>>

Idle(w) == wk[w].pc = "idle" /\ fl[w].pc = "none" /\ adding[w] = 0

\* The columns of the requests that are taken are marked with the worker's id.
Submitting(cols, heads) ==
    [i \in DOMAIN cols |-> IF cols[i].id \in heads
                          THEN [cols[i] EXCEPT !.st = "submitting", !.split = FALSE] ELSE cols[i]]

\* Requests are taken off the queue under the worker lock; the mark on their columns
\* makes the next write of the key start a new request.
Pop(w) ==
    LET n == Taken
        mine == {pending[i] : i \in 1..n}
        heads == {Header(r) : r \in mine}
    IN  /\ Idle(w) /\ pending # <<>>
        /\ pending' = SubSeq(pending, n + 1, Len(pending))
        /\ reqs' = [r \in DOMAIN reqs |->
                       IF r \in mine THEN [reqs[r] EXCEPT !.latest = Header(r)] ELSE reqs[r]]
        /\ uk' = [k \in Key |->
                     [uk[k] EXCEPT !.req = IF @ \in mine THEN 0 ELSE @,
                                   !.cols = Submitting(@, heads)]]
        /\ wk' = [wk EXCEPT ![w].pc = "merge", ![w].list = SubSeq(pending, 1, n)]
        /\ WakeIf(Len(pending) - n < SlowLow)
        /\ UNCHANGED <<trxnVars, seq, hist, snapVars, blockVars, lt, fl, sktdf, devVars>>

\* Between two rounds: a worker that finds work, or times out while a table is dirty.
WakeIdle(w) ==
    /\ Idle(w) /\ slow /\ Len(pending) < SlowLow
    /\ pending # <<>> \/ \E k \in Key : uk[k].dirty
    /\ WakeIf(TRUE)
    /\ UNCHANGED <<trxnVars, seq, uk, reqs, pending, hist, snapVars, wk, blockVars, lt, fl,
                   sktdf, devVars>>

-----------------------------------------------------------------------------
\* A snapshot sees column i of a list, and no newer column from position h on.
Seen(cols, S, h, i) ==
    /\ ~cols[i].del
    /\ \E s \in S : /\ cols[i].begin <= s /\ s < cols[i].end
                    /\ \A j \in h..(i - 1) : s < cols[j].begin

\* Where the merge below position h stops: at a column that has been taken, or at the
\* newest one of another transaction group.
StopsMerge(c) == c.st # "pending" \/ c.split
MergeEnd(cols, h) ==
    MinOf({i \in (h + 1)..(Len(cols) + 1) : i = Len(cols) + 1 \/ StopsMerge(cols[i])})

\* Element of a list of columns that is not dropped, in its order.
Keep(cols, S) ==
    LET kept == DOMAIN cols \ S
        nth(n) == CHOOSE i \in kept : Cardinality({j \in kept : j <= i}) = n
    IN  [n \in 1..Cardinality(kept) |-> cols[nth(n)]]

\* Mutation: a merged column is dropped although a snapshot sees it.
AfterMergeBlind(cols, h, e) ==
    Keep([i \in DOMAIN cols |->
             IF i = h THEN [cols[i] EXCEPT !.trxn = FALSE]
             ELSE IF i = e THEN [cols[i] EXCEPT !.split = FALSE]
             ELSE cols[i]],
         {i \in (h + 1)..(e - 1) : TRUE})

\* The list after the merge: what no snapshot sees is gone.
AfterMerge(cols, h, e) ==
    Keep([i \in DOMAIN cols |->
             IF i = h THEN [cols[i] EXCEPT !.trxn = FALSE]
             ELSE IF i = e THEN [cols[i] EXCEPT !.split = FALSE]
             ELSE IF h < i /\ i < e
             THEN [cols[i] EXCEPT !.st = "merged", !.committed = TRUE, !.trxn = FALSE]
             ELSE cols[i]],
         {i \in (h + 1)..(e - 1) : ~Seen(cols, DOMAIN snaps, h, i)})

\* Mutation: a request gives its transactions back in the order they came.
PoppedFirst(r, n) == [i \in 1..n |-> reqs[r].trxns[i]]

\* The n transactions a request gives back (GetTrxn): the latest one first.
Popped(r, n) == [i \in 1..n |-> reqs[r].trxns[Len(reqs[r].trxns) + 1 - i]]

\* Mutation: the transaction of the header leaves its group with the merged ones.
LeavingAll(cols, h, e) == Cardinality({i \in h..(e - 1) : cols[i].trxn})

\* Transactions of merged columns, which leave their group at once.
Leaving(cols, h, e) == Cardinality({i \in (h + 1)..(e - 1) : cols[i].trxn})

\* Another request submits the column: its mark was cleared by the merge that stopped
\* at it, whose own column has been flushed away since.
Claimed(r, id) == \E x \in DOMAIN reqs : x # r /\ reqs[x].latest = id

\* BuildKeyBlock for one request: UserKey::DoVerticalMerge under the column lock.  The
\* transactions of the merged columns leave their group here, the one of the header
\* when its column is updated.  Where the code would free a column that another
\* request submits, what follows is undefined: the process ends there.
Merge(w) ==
    LET r == wk[w].list[wk[w].pos]
        k == reqs[r].key
        cols == uk[k].cols
        h == At(k, reqs[r].latest)
        e == MergeEnd(cols, h)
        merged == Leaving(cols, h, e)
        head == cols[h].trxn
        ids == Keep(cols, {i \in DOMAIN cols : i < h \/ i >= e \/ ~cols[i].trxn})
        trxns == Popped(r, Len(ids))
        last == wk[w].pos = Len(wk[w].list)
    IN  /\ wk[w].pc = "merge" /\ adding[w] = 0
        /\ \A i \in (h + 1)..(e - 1) : ~Claimed(r, cols[i].id)
        /\ uk' = [uk EXCEPT ![k].cols = AfterMerge(cols, h, e)]
        /\ reqs' = [reqs EXCEPT ![r].built = TRUE, ![r].tgid = IF head THEN trxns[1].g ELSE 0]
        /\ IF merged = 0 THEN UNCHANGED trxnVars
           ELSE DecTrxnGroup(w, trxns[Len(trxns)].g, merged)
        /\ wk' = [wk EXCEPT ![w] =
                     [wk[w] EXCEPT !.pc = IF last THEN "put" ELSE "merge",
                                   !.pos = IF last THEN 1 ELSE @ + 1,
                                   !.log = With(@, r, [i \in DOMAIN ids |->
                                              [col |-> ids[i].id, trxn |-> trxns[i]]])]]
        /\ UNCHANGED <<seq, pending, wr, slow, hist, snapVars, blockVars, lt, fl, sktdf, devVars>>

-----------------------------------------------------------------------------
Heads(w) == {reqs[wk[w].list[i]].latest : i \in DOMAIN wk[w].list}
IsPut(id) == ~hist[id].del

\* The key block and its meta data: bits for the puts, trx for the requests with
\* transactions, a reference and a count of what no table records for each column;
\* the block takes the key the worker has reserved, and the worker the next one.
NewBlock(w) ==
    [bits |-> {id \in Heads(w) : IsPut(id)},
     trx |-> {reqs[r].latest : r \in {x \in DOMAIN wk[w].log : wk[w].log[x] # <<>>}},
     ref |-> Cardinality(Heads(w)), nrs |-> Cardinality(Heads(w)), inlog |-> TRUE,
     kbml |-> TRUE, wbits |-> {}]

Put(w) ==
    LET b == ikeys.own[w]
        a == logq[w].active
    IN  /\ wk[w].pc = "put"
        /\ blk' = With(blk, b, NewBlock(w))
        /\ ikeys' = [next |-> ikeys.next + 1, own |-> [ikeys.own EXCEPT ![w] = ikeys.next]]
        /\ logq' = [logq EXCEPT ![w].q[a] = Append(@, b)]
        /\ kbm' = kbm \cup {b}
        /\ kb' = IF NewBlock(w).bits = {} THEN kb ELSE kb \cup {b}
        /\ wk' = [wk EXCEPT ![w].pc = "submit", ![w].ikey = b]
        /\ UNCHANGED <<trxnVars, userVars, snapVars, lt, fl, sktdf, skt>>

\* The header's transaction leaves its group before its column is updated.
Decrease(w) ==
    LET g == reqs[wk[w].list[wk[w].pos]].tgid IN
    /\ wk[w].pc = "submit" /\ adding[w] = 0 /\ g # 0
    /\ DecTrxnGroup(w, g, 1)
    /\ wk' = [wk EXCEPT ![w].pc = "update"]
    /\ UNCHANGED <<userVars, snapVars, blockVars, lt, fl, sktdf, devVars>>

\* ColumnNode::UpdateColumnNode, and the request is freed.
Update(w) ==
    LET r == wk[w].list[wk[w].pos]
        k == reqs[r].key
        h == At(k, reqs[r].latest)
        last == wk[w].pos = Len(wk[w].list)
    IN  /\ adding[w] = 0
        /\ wk[w].pc = "update" \/ (wk[w].pc = "submit" /\ reqs[r].tgid = 0)
        /\ uk' = [uk EXCEPT ![k].cols[h] =
                     [@ EXCEPT !.st = "stored", !.ikey = wk[w].ikey, !.kbm = "log"]]
        /\ reqs' = Remove(reqs, r)
        /\ wk' = [wk EXCEPT ![w] = IF last THEN IdleWorker
                                   ELSE [wk[w] EXCEPT !.pc = "submit", !.pos = @ + 1]]
        /\ UNCHANGED <<trxnVars, seq, pending, wr, slow, hist, snapVars, blockVars, lt, fl, sktdf,
                       devVars>>

WorkerNext(w) == Pop(w) \/ WakeIdle(w) \/ Merge(w) \/ Put(w) \/ Decrease(w) \/ Update(w)
=============================================================================
