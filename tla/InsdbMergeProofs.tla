-------------------------- MODULE InsdbMergeProofs --------------------------
(***************************************************************************)
(* Proof that the log of a key block has for every column the transaction  *)
(* that wrote it (TrxnLogged).  A request collects the transactions of its *)
(* columns apart from the columns, and a worker takes them from there, one *)
(* for each column it merges; writers, other workers and flushes change    *)
(* the list of columns in between.  MergeInv states that the two stay      *)
(* together.                                                               *)
(***************************************************************************)
EXTENDS InsdbColumnProofs

-----------------------------------------------------------------------------
(* Transactions of the columns that wait. *)

\* A request submits the column.
HasRequest(id) == \E x \in DOMAIN reqs : reqs[x].latest = id

\* The column that a worker submits and has not merged the older ones into.
Unmerged(c) ==
    c.st = "submitting" /\ \E x \in DOMAIN reqs : reqs[x].latest = c.id /\ ~reqs[x].built

\* A waiting column that no closed request submits is the newest one, or is below one
\* that it will be merged into; where a group ends a request does.
Stacked(k, j) ==
    uk[k].cols[j].st = "pending" =>
        /\ uk[k].cols[j].split => HasRequest(uk[k].cols[j].id)
        /\ \/ HasRequest(uk[k].cols[j].id) \/ j = 1
           \/ uk[k].cols[j - 1].st = "pending" \/ Unmerged(uk[k].cols[j - 1])

\* Every waiting column does.
StackInv == \A k \in Key : \A j \in DOMAIN uk[k].cols : Stacked(k, j)

\* The columns below h down to j of key k are merged when request r submits column h.
Joins(r, k, h, j) ==
    \A i \in (h + 1)..j : ~StopsMerge(uk[k].cols[i]) /\ ~Claimed(r, uk[k].cols[i].id)

\* The transaction of the column that comes n columns below the one that is submitted,
\* when the request has transactions T: the latest is the last one.
Given(trxn, tid, T, n) ==
    /\ trxn <=> T # <<>>
    /\ tid # NoTrxn <=> T # <<>>
    /\ T # <<>> => n < Len(T) /\ tid = T[Len(T) - n]

\* The transactions of a request are those of the columns it will merge.
Matches(r, k, h, j) ==
    Given(uk[k].cols[j].trxn, hist[uk[k].cols[j].id].tid, reqs[r].trxns, j - h)

\* All those columns of key k, for request r.
TrxnsMatch(r, k) ==
    \A h \in DOMAIN uk[k].cols : uk[k].cols[h].id = Header(r) =>
        \A j \in h..Len(uk[k].cols) : Joins(r, k, h, j) => Matches(r, k, h, j)

\* Every request that no worker has been through.
MatchInv == \A r \in DOMAIN reqs : ~reqs[r].built => TrxnsMatch(r, reqs[r].key)

\* The open request of a key is of the group of the key's last write.
LastInv ==
    \A k \in Key : uk[k].req # 0 => uk[k].last = hist[Newest(k).id].tid.g

\* Group 0 is no group.
GroupsInv ==
    /\ \A i \in DOMAIN hist : hist[i].tid.g = 0 => hist[i].tid = NoTrxn
    /\ \A p \in Writer : wr[p].b.tid.g = 0 => wr[p].b.tid = NoTrxn

\* The requests that a worker has been through are built, and no others.
BuiltInv ==
    /\ \A i \in DOMAIN pending : ~reqs[pending[i]].built
    /\ \A p \in Writer : wr[p].pc # "store" => ~reqs[wr[p].rq].built
    /\ \A w \in Worker : \A i \in Todo(w) :
          reqs[wk[w].list[i]].built <=> (wk[w].pc # "merge" \/ i < wk[w].pos)

\* The columns that a worker submits are marked.
Marked(r) ==
    \A j \in DOMAIN uk[reqs[r].key].cols :
        uk[reqs[r].key].cols[j].id = reqs[r].latest => uk[reqs[r].key].cols[j].st = "submitting"

\* All requests that a worker has popped and not finished.
TakenInv == \A w \in Worker : \A i \in Todo(w) : Marked(wk[w].list[i])

\* What has been put into the log is right.
IsLogged(l) ==
    \A r \in DOMAIN l : \A i \in DOMAIN l[r] :
        l[r][i].col \in DOMAIN hist /\ l[r][i].trxn = hist[l[r][i].col].tid

\* The logs of all workers are.
LoggedInv == \A w \in Worker : IsLogged(wk[w].log)

\* What depends on the columns of the keys alone.
ListsInv == StackInv /\ MatchInv /\ LastInv

\* The inductive invariant: requests and the columns they will merge stay together.
MergeInv == ListsInv /\ GroupsInv /\ BuiltInv /\ TakenInv /\ LoggedInv

-----------------------------------------------------------------------------
(* What leaves the columns alone. *)

\* Column j of the new list of key k was column i, as far below the column that request
\* r submits.
Comes(r, k, h, j) ==
    \E g \in DOMAIN uk[k].cols : \E i \in g..Len(uk[k].cols) :
        /\ uk[k].cols[g].id = Header(r) /\ Joins(r, k, g, i) /\ i - g = j - h
        /\ uk[k].cols[i].id = uk'[k].cols[j].id /\ uk[k].cols[i].trxn = uk'[k].cols[j].trxn

\* A request keeps its transactions while no column gets between those it merges.
LEMMA MatchFrom ==
  ASSUME UserType, ColumnsInv, NEW r, NEW k \in Key, TrxnsMatch(r, k), reqs'[r].trxns = reqs[r].trxns,
         \A i \in DOMAIN hist : hist'[i].tid = hist[i].tid,
         \A h \in DOMAIN uk'[k].cols : uk'[k].cols[h].id = Header(r)' =>
             \A j \in h..Len(uk'[k].cols) : Joins(r, k, h, j)' => Comes(r, k, h, j)
  PROVE  TrxnsMatch(r, k)'
<1> SUFFICES ASSUME NEW h \in DOMAIN uk'[k].cols, uk'[k].cols[h].id = Header(r)',
                    NEW j \in h..Len(uk'[k].cols), Joins(r, k, h, j)'
             PROVE  Matches(r, k, h, j)'
  BY DEF TrxnsMatch
<1>1. Comes(r, k, h, j) OBVIOUS
<1>2. PICK g \in DOMAIN uk[k].cols : \E i \in g..Len(uk[k].cols) :
        /\ uk[k].cols[g].id = Header(r) /\ Joins(r, k, g, i) /\ i - g = j - h
        /\ uk[k].cols[i].id = uk'[k].cols[j].id /\ uk[k].cols[i].trxn = uk'[k].cols[j].trxn
  BY <1>1 DEF Comes
<1>3. PICK i \in g..Len(uk[k].cols) :
        /\ uk[k].cols[g].id = Header(r) /\ Joins(r, k, g, i) /\ i - g = j - h
        /\ uk[k].cols[i].id = uk'[k].cols[j].id /\ uk[k].cols[i].trxn = uk'[k].cols[j].trxn
  BY <1>2
<1>4. Matches(r, k, g, i) BY <1>3 DEF TrxnsMatch
<1>5. uk[k].cols[i].id \in DOMAIN hist
  <2>0. uk[k].cols \in Seq(ColumnNode) BY DEF UserType, UserKey
  <2>1. i \in DOMAIN uk[k].cols BY <1>3, <2>0
  <2> QED BY <2>1 DEF ColumnsInv
<1> QED BY <1>3, <1>4, <1>5 DEF Matches

\* So it does where the columns stay, and those that another request submits are still so.
LEMMA MatchKept ==
  ASSUME UserType, ColumnsInv, NEW r, NEW k \in Key, TrxnsMatch(r, k),
         reqs'[r].trxns = reqs[r].trxns, \A i \in DOMAIN hist : hist'[i].tid = hist[i].tid,
         uk'[k].cols = uk[k].cols, Header(r)' = Header(r),
         \A i \in DOMAIN uk[k].cols : Claimed(r, uk[k].cols[i].id) => Claimed(r, uk[k].cols[i].id)'
  PROVE  TrxnsMatch(r, k)'
<1>0. uk[k].cols \in Seq(ColumnNode) BY DEF UserType, UserKey
<1>1. ASSUME NEW h \in DOMAIN uk'[k].cols, uk'[k].cols[h].id = Header(r)',
             NEW j \in h..Len(uk'[k].cols), Joins(r, k, h, j)'
      PROVE  Comes(r, k, h, j)
  <2>1. h \in DOMAIN uk[k].cols /\ j \in h..Len(uk[k].cols) BY <1>1
  <2>2. \A i \in (h + 1)..j : i \in DOMAIN uk[k].cols BY <1>0, <2>1
  <2>3. Joins(r, k, h, j) BY <1>1, <2>2 DEF Joins, StopsMerge
  <2> QED BY <1>1, <2>1, <2>3 DEF Comes
<1> QED BY <1>1, MatchFrom

\* Steps that leave columns, requests and history alone.
LEMMA ListsFrame ==
  ASSUME ListsInv, UNCHANGED <<uk, reqs, hist>>
  PROVE  ListsInv'
<1>1. StackInv' BY DEF ListsInv, StackInv, Stacked, HasRequest, Unmerged
<1>2. MatchInv'
  <2>1. ASSUME NEW r, NEW k, TrxnsMatch(r, k) PROVE TrxnsMatch(r, k)'
    <3>1. \A id : Claimed(r, id)' <=> Claimed(r, id) BY DEF Claimed
    <3>2. \A h, j : Joins(r, k, h, j)' <=> Joins(r, k, h, j) BY <3>1 DEF Joins, StopsMerge
    <3>3. \A h, j : Matches(r, k, h, j)' <=> Matches(r, k, h, j) BY DEF Matches
    <3>4. Header(r)' = Header(r) BY DEF Header, Newest
    <3> QED BY <2>1, <3>2, <3>3, <3>4 DEF TrxnsMatch
  <2> QED BY <2>1 DEF ListsInv, MatchInv
<1>3. LastInv' BY DEF ListsInv, LastInv, Newest
<1> QED BY <1>1, <1>2, <1>3 DEF ListsInv

\* Writers wait, workers do not move.
LEMMA QueuedFrame ==
  ASSUME MergeInv, UNCHANGED <<uk, reqs, hist, wk>>,
         \A p \in Writer : wr'[p].b.tid \in {wr[p].b.tid, NoTrxn},
         \A i \in DOMAIN pending' : ~reqs[pending'[i]].built,
         \A p \in Writer : wr'[p].pc # "store" => ~reqs[wr'[p].rq].built
  PROVE  MergeInv'
<1>1. ListsInv' BY ListsFrame DEF MergeInv
<1>2. GroupsInv' BY DEF MergeInv, GroupsInv, NoTrxn
<1>3. \A w \in Worker : Todo(w)' = Todo(w) BY DEF Todo, From
<1>4. BuiltInv' BY <1>3 DEF MergeInv, BuiltInv
<1>5. TakenInv' BY <1>3 DEF MergeInv, TakenInv, Marked
<1>6. LoggedInv' BY DEF MergeInv, LoggedInv, IsLogged
<1> QED BY <1>1, <1>2, <1>4, <1>5, <1>6 DEF MergeInv

\* Steps that leave writers, workers and the queue alone too.
LEMMA OtherMerge ==
  ASSUME MergeInv, UNCHANGED <<uk, reqs, hist, wk, wr, pending>>
  PROVE  MergeInv'
BY QueuedFrame DEF MergeInv, BuiltInv

\* A failed delete.
LEMMA DiscardMerge ==
  ASSUME ColumnInv, MergeInv, NEW p \in Writer, Store(p), Discard(p)
  PROVE  MergeInv'
<1> DEFINE b == Current(p)
           nb == [b EXCEPT !.count = @ - 1]
<1>1. /\ UserType /\ UNCHANGED <<uk, reqs, pending, hist, wk>> /\ wr[p].pc = "store" /\ b.ops # <<>>
      /\ Written(p, nb, "store", 0)
  BY DEF ColumnInv, Store, Discard
<1>2. /\ b \in Batch /\ b.count = b.sn + Len(b.ops) /\ Len(b.ops) \in Nat \ {0}
      /\ b.tid = wr[p].b.tid
  BY <1>1, CurrentFacts
<1>3. nb \in Batch /\ nb.ops = b.ops /\ nb.count + 1 = nb.sn + Len(nb.ops) /\ nb.tid = b.tid
  <2> HIDE DEF b
  <2>1. nb.tid = b.tid BY <1>2 DEF Batch
  <2> QED BY <1>2, <2>1, BatchShrunk
<1>4. /\ \A q \in Writer : q # p => wr'[q] = wr[q]
      /\ wr'[p].pc = "store" /\ wr'[p].b.tid \in {nb.tid, NoTrxn}
  <2> HIDE DEF nb
  <2>1. nb.ops = Current(p).ops BY <1>3
  <2> QED BY <1>1, <1>3, <2>1, WrittenFacts
<1>5. \A q \in Writer : wr'[q].b.tid \in {wr[q].b.tid, NoTrxn} BY <1>2, <1>3, <1>4
<1>6. /\ \A i \in DOMAIN pending : ~reqs[pending[i]].built
      /\ \A q \in Writer : wr[q].pc # "store" => ~reqs[wr[q].rq].built
  BY DEF MergeInv, BuiltInv
<1>7. \A q \in Writer : wr'[q].pc # "store" => ~reqs[wr'[q].rq].built BY <1>4, <1>6
<1> QED BY <1>1, <1>5, <1>6, <1>7, QueuedFrame

\* A writer puts its request into the queue, or waits.
LEMMA QueueMerge ==
  ASSUME ColumnInv, MergeInv, NEW p \in Writer, PutColumnNodeToRequestQueue(p)
  PROVE  MergeInv'
<1>1. /\ UserType /\ wr \in [Writer -> WriterState] /\ pending \in Seq(Nat)
      /\ UNCHANGED <<uk, reqs, hist, wk>> /\ wr[p].pc # "store"
  BY DEF ColumnInv, UserType, PutColumnNodeToRequestQueue, Push, SlowWait, Resume
<1>2. /\ \A i \in DOMAIN pending : ~reqs[pending[i]].built
      /\ \A q \in Writer : wr[q].pc # "store" => ~reqs[wr[q].rq].built
  BY DEF MergeInv, BuiltInv
<1>3. CASE Enqueue(p)
  <2>1. wr' = [wr EXCEPT ![p] = [wr[p] EXCEPT !.pc = "store", !.rq = 0]] BY <1>3 DEF Enqueue
  <2>2. wr'[p].pc = "store" /\ wr'[p].b = wr[p].b BY <1>1, <2>1 DEF WriterState
  <2>3. \A q \in Writer : q # p => wr'[q] = wr[q] BY <1>1, <2>1
  <2>4. wr[p].rq \in Nat BY <1>1 DEF WriterState
  <2>5. pending' = Append(pending, wr[p].rq) BY <1>3 DEF Enqueue
  <2>6. \A i \in DOMAIN pending' : pending'[i] = wr[p].rq \/ (i \in DOMAIN pending /\ pending'[i] = pending[i])
    BY <1>1, <2>4, <2>5
  <2>7. \A i \in DOMAIN pending' : ~reqs[pending'[i]].built BY <1>1, <1>2, <2>6
  <2> QED BY <1>1, <1>2, <2>2, <2>3, <2>7, QueuedFrame
<1>4. CASE ~Enqueue(p)
  <2>1. pending' = pending /\ \E to : wr' = [wr EXCEPT ![p].pc = to]
    BY <1>4 DEF PutColumnNodeToRequestQueue, Push, SlowWait, Resume
  <2>2. PICK to : wr' = [wr EXCEPT ![p].pc = to] BY <2>1
  <2>3. \A q \in Writer : wr'[q].b = wr[q].b /\ wr'[q].rq = wr[q].rq /\ (q # p => wr'[q] = wr[q])
    BY <1>1, <2>2 DEF WriterState
  <2>4. \A q \in Writer : wr'[q].pc # "store" => ~reqs[wr'[q].rq].built BY <1>1, <1>2, <2>3
  <2> QED BY <1>1, <1>2, <2>1, <2>3, <2>4, QueuedFrame
<1> QED BY <1>3, <1>4

\* Writers are woken.
LEMMA WokenMerge ==
  ASSUME UserType, BuiltInv, NEW x, x \in {wr, Woken}
  PROVE  \A p \in Writer : /\ x[p].b = wr[p].b /\ x[p].rq = wr[p].rq
                           /\ x[p].pc = "store" <=> wr[p].pc = "store"
<1>1. wr \in [Writer -> WriterState] BY DEF UserType
<1>2. CASE x = wr BY <1>2
<1>3. CASE x = Woken
  <2> TAKE p \in Writer
  <2>1. wr[p] \in WriterState BY <1>1
  <2>2. CASE wr[p].pc = "asleep"
    <3>1. x[p] = [wr[p] EXCEPT !.pc = "go"] BY <1>3, <2>2 DEF Woken
    <3>2. x[p].b = wr[p].b /\ x[p].rq = wr[p].rq /\ x[p].pc = "go" BY <2>1, <3>1 DEF WriterState
    <3> QED BY <2>2, <3>2
  <2>3. CASE wr[p].pc # "asleep" BY <1>3, <2>3 DEF Woken
  <2> QED BY <2>2, <2>3
<1> QED BY <1>2, <1>3

\* An idle worker wakes the writers that are asleep.
LEMMA WakeIdleMerge ==
  ASSUME ColumnInv, MergeInv, NEW w \in Worker, WakeIdle(w)
  PROVE  MergeInv'
<1>1. UserType /\ UNCHANGED <<uk, reqs, hist, wk, pending>> /\ wr' \in {wr, Woken}
  BY DEF ColumnInv, WakeIdle, WakeIf
<1>2. \A p \in Writer : /\ wr'[p].b = wr[p].b /\ wr'[p].rq = wr[p].rq
                        /\ wr'[p].pc = "store" <=> wr[p].pc = "store"
  <2>1. PICK x : x = wr' OBVIOUS
  <2>2. \A p \in Writer : /\ x[p].b = wr[p].b /\ x[p].rq = wr[p].rq
                          /\ x[p].pc = "store" <=> wr[p].pc = "store"
    BY <1>1, <2>1, WokenMerge DEF MergeInv
  <2> QED BY <2>1, <2>2
<1>3. /\ \A i \in DOMAIN pending : ~reqs[pending[i]].built
      /\ \A q \in Writer : wr[q].pc # "store" => ~reqs[wr[q].rq].built
  BY DEF MergeInv, BuiltInv
<1>4. \A q \in Writer : wr'[q].pc # "store" => ~reqs[wr'[q].rq].built BY <1>1, <1>2, <1>3
<1> QED BY <1>1, <1>2, <1>3, <1>4, QueuedFrame

\* A worker moves on, with what it has to do.
LEMMA MovedMerge ==
  ASSUME ColumnInv, MergeInv, UNCHANGED <<uk, reqs, hist, pending, wr>>,
         NEW w \in Worker, NEW x, wk' = [wk EXCEPT ![w] = x],
         x.list = wk[w].list, x.pos = wk[w].pos, x.log = wk[w].log, x.pc \in {"submit", "update"},
         wk[w].pc \in {"put", "submit"}
  PROVE  MergeInv'
<1>1. ListsInv' BY ListsFrame DEF MergeInv
<1>2. GroupsInv' BY DEF MergeInv, GroupsInv
<1>3. wk'[w] = x /\ (\A v \in Worker : v # w => wk'[v] = wk[v])
  BY DEF ColumnInv, WorkerType
<1>4. ASSUME NEW v \in Worker
      PROVE  /\ Todo(v)' = Todo(v) /\ wk'[v].list = wk[v].list /\ wk'[v].log = wk[v].log
             /\ wk'[v].pos = wk[v].pos /\ (wk'[v].pc = "merge" <=> wk[v].pc = "merge")
  <2>1. CASE v = w
    <3>1. wk[w].pc = "put" => wk[w].pos = 1 BY DEF ColumnInv, WorkerPlaces
    <3> QED BY <1>3, <2>1, <3>1 DEF Todo, From
  <2>2. CASE v # w BY <1>3, <2>2 DEF Todo, From
  <2> QED BY <2>1, <2>2
<1>5. BuiltInv' BY <1>4 DEF MergeInv, BuiltInv
<1>6. TakenInv'
  <2>1. \A r : Marked(r)' <=> Marked(r) BY DEF Marked
  <2> QED BY <1>4, <2>1 DEF MergeInv, TakenInv
<1>7. LoggedInv' BY <1>4 DEF MergeInv, LoggedInv, IsLogged
<1> QED BY <1>1, <1>2, <1>5, <1>6, <1>7 DEF MergeInv

\* A worker puts its key block.
LEMMA PutMerge ==
  ASSUME ColumnInv, MergeInv, NEW w \in Worker, Put(w)
  PROVE  MergeInv'
<1> DEFINE y == [wk[w] EXCEPT !.pc = "submit"]
           x == [y EXCEPT !.ikey = ikeys.own[w]]
<1>1. /\ wk[w].pc = "put" /\ UNCHANGED <<uk, reqs, hist, pending, wr>>
      /\ wk' = [wk EXCEPT ![w] = x]
  BY DEF Put, userVars
<1>2. IsWorker(wk[w]) /\ ikeys.own[w] \in Nat BY DEF ColumnInv, WorkerType
<1>3. IsWorker(y) /\ y.list = wk[w].list /\ y.pos = wk[w].pos /\ y.log = wk[w].log /\ y.pc = "submit"
  BY <1>2 DEF IsWorker
<1> HIDE DEF y
<1>4. x.list = wk[w].list /\ x.pos = wk[w].pos /\ x.log = wk[w].log /\ x.pc = "submit"
  BY <1>2, <1>3 DEF IsWorker
<1> HIDE DEF x
<1> QED BY <1>1, <1>4, MovedMerge

\* The transaction of the column that a worker submits leaves its group.
LEMMA DecreaseMerge ==
  ASSUME ColumnInv, MergeInv, NEW w \in Worker, Decrease(w)
  PROVE  MergeInv'
<1> DEFINE x == [wk[w] EXCEPT !.pc = "update"]
<1>1. /\ wk[w].pc = "submit" /\ UNCHANGED <<uk, reqs, hist, pending, wr>>
      /\ wk' = [wk EXCEPT ![w] = x]
  BY DEF Decrease, userVars
<1>2. IsWorker(wk[w]) BY DEF ColumnInv, WorkerType
<1>3. x.list = wk[w].list /\ x.pos = wk[w].pos /\ x.log = wk[w].log /\ x.pc = "update"
  BY <1>2 DEF IsWorker
<1> HIDE DEF x
<1> QED BY <1>1, <1>3, MovedMerge

-----------------------------------------------------------------------------
(* A write is inserted. *)

\* Requests that are closed stay so.
RequestsKept ==
    \A x \in DOMAIN reqs :
        /\ x \in DOMAIN reqs' /\ reqs'[x].built = reqs[x].built
        /\ reqs[x].latest # 0 => reqs'[x].latest = reqs[x].latest

\* The columns that other requests submit are still so.
LEMMA ClaimsKept ==
  ASSUME RequestsKept
  PROVE  /\ \A id : id # 0 /\ HasRequest(id) => HasRequest(id)'
         /\ \A r, id : id # 0 /\ Claimed(r, id) => Claimed(r, id)'
         /\ \A c : c.id # 0 /\ Unmerged(c) => Unmerged(c)'
BY DEF RequestsKept, HasRequest, Claimed, Unmerged

\* The columns of a key and their writes.
LEMMA ColumnListFacts ==
  ASSUME UserType, ColumnsInv, NEW k \in Key
  PROVE  /\ uk[k] \in UserKey /\ uk[k].cols \in Seq(ColumnNode) /\ Len(uk[k].cols) \in Nat
         /\ DOMAIN uk[k].cols = 1..Len(uk[k].cols)
         /\ \A i \in DOMAIN uk[k].cols :
               /\ uk[k].cols[i] \in ColumnNode /\ uk[k].cols[i].id \in DOMAIN hist
               /\ uk[k].cols[i].id # 0 /\ uk[k].cols[i].id # seq + 1
         /\ \A i, j \in DOMAIN uk[k].cols : uk[k].cols[i].id = uk[k].cols[j].id => i = j
<1>1. uk[k] \in UserKey BY DEF UserType
<1>2. uk[k].cols \in Seq(ColumnNode) BY <1>1 DEF UserKey
<1> DEFINE A == uk[k].cols
<1>3. \A i \in DOMAIN A : A[i].id \in DOMAIN hist BY DEF ColumnsInv
<1>4. \A i, j \in DOMAIN A : i < j => A[j].id < A[i].id BY DEF ColumnsInv
<1>5. DOMAIN hist \subseteq 1..seq /\ seq \in Nat BY DEF UserType
<1> HIDE DEF A
<1>6. A \in Seq(ColumnNode) BY <1>2 DEF A
<1>7. Len(A) \in Nat /\ DOMAIN A = 1..Len(A) /\ \A i \in DOMAIN A : A[i] \in ColumnNode BY <1>6
<1>8. \A i \in DOMAIN A : A[i].id \in 1..seq BY <1>3, <1>5
<1>9. \A i \in DOMAIN A : A[i].id # 0 /\ A[i].id # seq + 1 BY <1>5, <1>8
<1>10. \A i, j \in DOMAIN A : A[i].id = A[j].id => i = j BY <1>4, <1>7, <1>8
<1> QED BY <1>1, <1>3, <1>6, <1>7, <1>9, <1>10 DEF A

\* The new column is the newest, above one that it merges with or that a request ends at.
LEMMA InsertStack ==
  ASSUME UserType, ColumnsInv, OpenInv, StackInv, NEW k \in Key, NEW tid, NEW c, Pushed(k, tid, c),
         Scheduling(k, tid), RequestsKept, c.st = "pending", c.split = FALSE
  PROVE  StackInv'
<1>0. PICK A, B : A = uk[k].cols /\ B = uk'[k].cols OBVIOUS
<1>1. ASSUME NEW j \in Key, j # k, NEW i \in DOMAIN uk'[j].cols PROVE Stacked(j, i)'
  <2>1. uk'[j] = uk[j] BY <1>1 DEF Pushed
  <2>2. Stacked(j, i) BY <1>1, <2>1 DEF StackInv
  <2>3. /\ uk[j].cols[i].id # 0
        /\ i # 1 => i - 1 \in DOMAIN uk[j].cols /\ uk[j].cols[i - 1].id # 0
    BY <1>1, <2>1, ColumnListFacts
  <2> QED BY <2>1, <2>2, <2>3, ClaimsKept DEF Stacked
<1>2. /\ Len(A) \in Nat /\ DOMAIN A = 1..Len(A) /\ DOMAIN B = 1..(Len(A) + 1) /\ B[1] = c
      /\ \A i \in DOMAIN A :
            /\ B[i + 1].id = A[i].id
            /\ i # 1 => B[i + 1] = A[i]
            /\ B[i + 1].st = IF i = 1 /\ A[i].st = "merged" THEN "lost" ELSE A[i].st
            /\ B[i + 1].split = (A[i].split \/ (i = 1 /\ Splits(k, tid)))
  BY <1>0 DEF Pushed
<1>3. \A i \in DOMAIN A : A[i].id # 0 BY <1>0, ColumnListFacts
<1>4. Stacked(k, 1)' BY <1>0, <1>2 DEF Stacked
<1>5. ASSUME NEW i \in DOMAIN A PROVE Stacked(k, i + 1)'
  <2>1. SUFFICES ASSUME B[i + 1].st = "pending"
                 PROVE  /\ B[i + 1].split => HasRequest(B[i + 1].id)'
                        /\ HasRequest(B[i + 1].id)' \/ B[i].st = "pending" \/ Unmerged(B[i])'
    <3>1. (i + 1) - 1 = i BY <1>2
    <3> QED BY <1>0, <2>1, <3>1 DEF Stacked
  <2>2. A[i].st = "pending" BY <1>2, <2>1
  <2>3. Stacked(k, i) BY <1>0 DEF StackInv
  <2>4. HasRequest(A[i].id) => HasRequest(A[i].id)' BY <1>3, ClaimsKept
  <2>5. B[i + 1].split => HasRequest(A[i].id)'
    <3>1. CASE A[i].split BY <1>0, <2>2, <2>3, <2>4, <3>1 DEF Stacked
    <3>2. CASE i = 1 /\ Splits(k, tid)
      <4>1. uk[k].req # 0 BY <3>2 DEF Scheduling
      <4>2. uk[k].req \in DOMAIN reqs BY <4>1 DEF OpenInv
      <4>3. uk[k].req \in DOMAIN reqs' BY <4>2 DEF RequestsKept
      <4>4. reqs'[uk[k].req].latest = A[1].id BY <1>0, <3>2, <4>2 DEF Scheduling, Newest
      <4> QED BY <3>2, <4>3, <4>4 DEF HasRequest
    <3> QED BY <1>2, <3>1, <3>2
  <2>6. HasRequest(A[i].id)' \/ B[i].st = "pending" \/ Unmerged(B[i])'
    <3>1. CASE i = 1 BY <1>2, <3>1
    <3>2. CASE i # 1
      <4>1. i - 1 \in DOMAIN A /\ (i - 1) + 1 = i BY <1>2, <3>2
      <4>2. B[i].id = A[i - 1].id /\ (A[i - 1].st # "merged" => B[i].st = A[i - 1].st)
        <5>1. B[(i - 1) + 1].id = A[i - 1].id BY <1>2, <4>1
        <5>2. A[i - 1].st # "merged" => B[(i - 1) + 1].st = A[i - 1].st BY <1>2, <4>1
        <5> QED BY <4>1, <5>1, <5>2
      <4>3. Unmerged(A[i - 1]) => Unmerged(B[i])'
        <5>1. A[i - 1].id # 0 BY <1>3, <4>1
        <5>2. Unmerged(A[i - 1]) => Unmerged(A[i - 1])' BY <5>1, ClaimsKept
        <5> QED BY <4>2, <5>2 DEF Unmerged, RequestsKept
      <4> QED BY <1>0, <2>2, <2>3, <2>4, <3>2, <4>2, <4>3 DEF Stacked
    <3> QED BY <3>1, <3>2
  <2> QED BY <1>2, <2>5, <2>6
<1>6. ASSUME NEW i \in DOMAIN B PROVE Stacked(k, i)'
  <2>1. i = 1 \/ (i - 1 \in DOMAIN A /\ (i - 1) + 1 = i) BY <1>2
  <2>2. CASE i = 1 BY <1>4, <2>2
  <2>3. CASE i - 1 \in DOMAIN A /\ (i - 1) + 1 = i
    <3>1. PICK m \in DOMAIN A : m + 1 = i BY <2>3
    <3>2. Stacked(k, m + 1)' BY <1>5
    <3> QED BY <3>1, <3>2
  <2> QED BY <2>1, <2>2, <2>3
<1> QED BY <1>0, <1>1, <1>6 DEF StackInv

\* The transactions of the requests that were there, but for the open one of the key.
LEMMA InsertMatchOld ==
  ASSUME UserType, ColumnsInv, OpenInv, ClosedInv, MatchInv, NEW k \in Key, NEW tid, NEW c,
         Pushed(k, tid, c), Scheduling(k, tid), RequestsKept, c.id = seq + 1,
         \A i \in DOMAIN hist : hist'[i].tid = hist[i].tid,
         NEW r \in DOMAIN reqs, ~reqs[r].built, r # uk[k].req \/ Splits(k, tid)
  PROVE  TrxnsMatch(r, reqs[r].key)'
<1>1. PICK j : j = reqs[r].key /\ j \in Key BY DEF UserType, AreRequests, IsRequest
<1>2. TrxnsMatch(r, j) BY <1>1 DEF MatchInv
<1>3. /\ reqs'[r].key = j /\ reqs'[r].trxns = reqs[r].trxns
      /\ reqs'[r].latest = IF r = uk[k].req /\ Splits(k, tid) THEN Newest(k).id ELSE reqs[r].latest
  BY <1>1 DEF Scheduling, New
<1>4. reqs[r].latest = 0 => uk[j].req = r BY <1>1 DEF OpenInv
<1>5. r = uk[k].req /\ Splits(k, tid) => j = k /\ reqs[r].latest = 0
  <2>1. Splits(k, tid) => uk[k].req # 0 BY DEF Scheduling
  <2> QED BY <1>1, <2>1 DEF OpenInv
<1>6. Header(r) \in DOMAIN hist /\ Header(r) # 0 /\ Header(r) # seq + 1
  <2>1. Header(r) \in DOMAIN hist BY HeaderFacts
  <2> QED BY <2>1 DEF UserType
<1>7. CASE j # k
  <2>1. uk'[j] = uk[j] BY <1>1, <1>7 DEF Pushed
  <2>2. reqs'[r].latest = reqs[r].latest BY <1>3, <1>5, <1>7
  <2>3. Header(r)' = Header(r) BY <1>1, <1>3, <2>1, <2>2 DEF Header, Newest
  <2>4. PICK A : A = uk[j].cols OBVIOUS
  <2>5. \A i \in DOMAIN A : A[i].id # 0 BY <1>1, <2>4, ColumnListFacts
  <2>6. \A i \in DOMAIN A : Claimed(r, A[i].id) => Claimed(r, A[i].id)' BY <2>5, ClaimsKept
  <2>7. \A i \in DOMAIN uk[j].cols : Claimed(r, uk[j].cols[i].id) => Claimed(r, uk[j].cols[i].id)'
    BY <2>1, <2>4, <2>6
  <2>8. TrxnsMatch(r, j)' BY <1>1, <1>2, <1>3, <2>1, <2>3, <2>7, MatchKept
  <2> QED BY <1>1, <1>3, <2>8
<1>8. CASE j = k
  <2>1. Header(r)' = Header(r)
    <3>1. CASE r = uk[k].req /\ Splits(k, tid)
      <4>1. reqs[r].latest = 0 /\ Header(r) = Newest(k).id BY <1>1, <1>5, <1>8, <3>1 DEF Header
      <4>2. reqs'[r].latest = Header(r) BY <1>3, <3>1, <4>1
      <4> QED BY <1>6, <4>2 DEF Header
    <3>2. CASE ~(r = uk[k].req /\ Splits(k, tid))
      <4>1. reqs[r].latest # 0 BY <1>4, <1>8, <3>2
      <4> QED BY <1>3, <3>2, <4>1 DEF Header
    <3> QED BY <3>1, <3>2
  <2>2. PICK A, B : A = uk[k].cols /\ B = uk'[k].cols OBVIOUS
  <2>3. /\ Len(A) \in Nat /\ DOMAIN A = 1..Len(A) /\ DOMAIN B = 1..(Len(A) + 1) /\ B[1] = c
        /\ Len(B) = Len(A) + 1
        /\ \A i \in DOMAIN A : B[i + 1].id = A[i].id /\ B[i + 1].trxn = A[i].trxn
        /\ \A i \in DOMAIN A : i # 1 => B[i + 1] = A[i]
    BY <2>2 DEF Pushed
  <2>4. \A i \in DOMAIN A : A[i].id # 0 BY <2>2, ColumnListFacts
  <2>5. ASSUME NEW h \in DOMAIN B, B[h].id = Header(r), NEW m \in h..Len(B), Joins(r, k, h, m)'
        PROVE  Comes(r, k, h, m)
    <3>1. h # 1 BY <1>6, <2>3, <2>5
    <3>2. PICK g \in DOMAIN A : h = g + 1
      <4>1. h - 1 \in DOMAIN A /\ h = (h - 1) + 1 BY <2>3, <3>1
      <4> QED BY <4>1
    <3>3. PICK i \in g..Len(A) : m = i + 1
      <4>1. m - 1 \in g..Len(A) /\ m = (m - 1) + 1 BY <2>3, <2>5, <3>2
      <4> QED BY <4>1
    <3>4. A[g].id = Header(r) /\ A[i].id = B[m].id /\ A[i].trxn = B[m].trxn /\ i - g = m - h
      <4>1. i \in DOMAIN A BY <2>3, <3>2, <3>3
      <4>2. i - g = m - h BY <2>3, <3>2, <3>3
      <4> QED BY <2>3, <2>5, <3>2, <3>3, <4>1, <4>2
    <3>5. ASSUME NEW n \in (g + 1)..i PROVE ~StopsMerge(A[n]) /\ ~Claimed(r, A[n].id)
      <4>1. n \in DOMAIN A /\ n # 1 /\ n + 1 \in (h + 1)..m BY <2>3, <3>2, <3>3
      <4>2. B[n + 1] = A[n] BY <2>3, <4>1
      <4>3. ~StopsMerge(B[n + 1]) /\ ~Claimed(r, B[n + 1].id)' BY <2>2, <2>5, <4>1 DEF Joins, StopsMerge
      <4>4. ~Claimed(r, A[n].id)' BY <4>2, <4>3
      <4>5. ~Claimed(r, A[n].id) BY <2>4, <4>1, <4>4, ClaimsKept
      <4> QED BY <4>2, <4>3, <4>5
    <3>6. Joins(r, k, g, i) BY <2>2, <3>5 DEF Joins
    <3> QED BY <2>2, <3>2, <3>3, <3>4, <3>6 DEF Comes
  <2>6. TrxnsMatch(r, k)' BY <1>2, <1>3, <1>8, <2>1, <2>2, <2>5, MatchFrom
  <2> QED BY <1>1, <1>3, <1>8, <2>6
<1> QED BY <1>7, <1>8

\* The open request of the key takes the new column.
LEMMA InsertMatchOpen ==
  ASSUME UserType, ColumnsInv, OpenInv, ClosedInv, MatchInv, LastInv, NEW k \in Key, NEW tid, NEW c,
         Pushed(k, tid, c), Scheduling(k, tid), c.id = seq + 1, c.trxn = (tid # NoTrxn),
         tid \in TrxnId, tid.g = 0 => tid = NoTrxn,
         \A i \in DOMAIN hist : hist[i].tid.g = 0 => hist[i].tid = NoTrxn,
         \A i \in DOMAIN hist : hist'[i].tid = hist[i].tid, hist'[seq + 1].tid = tid, RequestsKept,
         NEW r \in DOMAIN reqs, ~reqs[r].built, r = uk[k].req, r # 0, ~Splits(k, tid)
  PROVE  TrxnsMatch(r, k)'
<1>1. reqs[r].key = k /\ reqs[r].latest = 0 BY DEF OpenInv
<1>2. ~NoColumns(k) /\ Newest(k).st = "pending" BY <1>1 DEF OpenInv
<1>3. ~New(k, tid) /\ tid.g = uk[k].last BY <1>2 DEF New, Scheduled, Splits
<1>4. PICK T : T = reqs[r].trxns /\ T \in Seq(TrxnId) BY DEF UserType, AreRequests, IsRequest
<1>5. reqs'[r].trxns = (IF tid # NoTrxn THEN Append(T, tid) ELSE T)
  BY <1>3, <1>4 DEF Scheduling
<1>6. reqs'[r].latest = 0 /\ reqs'[r].key = k BY <1>1 DEF Scheduling
<1>7. PICK A, B : A = uk[k].cols /\ B = uk'[k].cols OBVIOUS
<1>8. /\ Len(A) \in Nat /\ DOMAIN A = 1..Len(A) /\ DOMAIN B = 1..(Len(A) + 1) /\ B[1] = c
      /\ Len(B) = Len(A) + 1
      /\ \A i \in DOMAIN A : B[i + 1].id = A[i].id /\ B[i + 1].trxn = A[i].trxn
      /\ \A i \in DOMAIN A : i # 1 => B[i + 1] = A[i]
  BY <1>7 DEF Pushed
<1>9. /\ \A i \in DOMAIN A : A[i].id # 0 /\ A[i].id # seq + 1 /\ A[i].id \in DOMAIN hist
      /\ 1 \in DOMAIN A
  <2>1. A \in Seq(ColumnNode) /\ A # <<>> BY <1>2, <1>7, ColumnListFacts DEF NoColumns
  <2>2. 1 \in DOMAIN A BY <2>1
  <2> QED BY <1>7, <2>2, ColumnListFacts
<1>10. Header(r)' = seq + 1 /\ Header(r) = A[1].id BY <1>1, <1>6, <1>7, <1>8 DEF Header, Newest
<1>11. TrxnsMatch(r, k) BY <1>1 DEF MatchInv
<1>12. ASSUME NEW i \in 1..Len(A), \A n \in 2..i : ~StopsMerge(A[n]) /\ ~Claimed(r, A[n].id)
       PROVE  Given(A[i].trxn, hist[A[i].id].tid, T, i - 1)
  <2>1. Joins(r, k, 1, i) BY <1>7, <1>12 DEF Joins
  <2>2. Matches(r, k, 1, i) BY <1>7, <1>8, <1>9, <1>10, <1>11, <1>12, <2>1 DEF TrxnsMatch
  <2> QED BY <1>4, <1>7, <2>2 DEF Matches
<1>13. tid # NoTrxn <=> T # <<>>
  <2>1. Given(A[1].trxn, hist[A[1].id].tid, T, 1 - 1)
    <3>1. 1 \in 1..Len(A) /\ \A n \in 2..1 : FALSE BY <1>8, <1>9
    <3> QED BY <1>12, <3>1
  <2>2. hist[A[1].id].tid # NoTrxn <=> T # <<>> BY <2>1 DEF Given
  <2>3. tid.g = hist[A[1].id].tid.g BY <1>3, <1>7 DEF LastInv, Newest
  <2>4. hist[A[1].id].tid.g = 0 => hist[A[1].id].tid = NoTrxn BY <1>9
  <2>5. NoTrxn.g = 0 BY DEF NoTrxn
  <2> QED BY <2>2, <2>3, <2>4, <2>5
<1>14. ASSUME NEW j \in 1..Len(B), \A n \in 2..j : ~StopsMerge(B[n]) /\ ~Claimed(r, B[n].id)'
       PROVE  Given(B[j].trxn, hist'[B[j].id].tid, reqs'[r].trxns, j - 1)
  <2>1. CASE j = 1
    <3>1. hist'[B[j].id].tid = tid /\ B[j].trxn = (tid # NoTrxn) BY <1>8, <2>1
    <3>2. CASE tid = NoTrxn
      <4>1. reqs'[r].trxns = <<>> BY <1>5, <1>13, <3>2
      <4> QED BY <3>1, <3>2, <4>1 DEF Given
    <3>3. CASE tid # NoTrxn
      <4>1. PICK U : U = Append(T, tid) OBVIOUS
      <4>0. U \in Seq(TrxnId) /\ Len(U) = Len(T) + 1 /\ Len(T) \in Nat /\ U[Len(T) + 1] = tid
        BY <1>4, <4>1
      <4>2. U # <<>> /\ Len(U) \in Nat /\ 0 < Len(U) /\ U[Len(U)] = tid BY <4>0
      <4>3. j - 1 = 0 /\ Len(U) - (j - 1) = Len(U) BY <2>1, <4>2
      <4> QED BY <1>5, <3>1, <3>3, <4>1, <4>2, <4>3 DEF Given
    <3> QED BY <3>2, <3>3
  <2>2. CASE j # 1
    <3>1. PICK i \in 1..Len(A) : j = i + 1
      <4>1. j - 1 \in 1..Len(A) /\ j = (j - 1) + 1 BY <1>8, <2>2
      <4> QED BY <4>1
    <3>2. ASSUME NEW n \in 2..i PROVE ~StopsMerge(A[n]) /\ ~Claimed(r, A[n].id)
      <4>1. n \in DOMAIN A /\ n # 1 /\ n + 1 \in 2..j BY <1>8, <3>1
      <4>2. B[n + 1] = A[n] BY <1>8, <4>1
      <4>3. ~StopsMerge(B[n + 1]) /\ ~Claimed(r, B[n + 1].id)' BY <1>14, <4>1
      <4>4. ~Claimed(r, A[n].id)' BY <4>2, <4>3
      <4>5. ~Claimed(r, A[n].id) BY <1>9, <4>1, <4>4, ClaimsKept
      <4> QED BY <4>2, <4>3, <4>5
    <3>3. Given(A[i].trxn, hist[A[i].id].tid, T, i - 1) BY <1>12, <3>2
    <3>4. B[j].trxn = A[i].trxn /\ hist'[B[j].id].tid = hist[A[i].id].tid BY <1>8, <1>9, <3>1
    <3>5. CASE T = <<>>
      <4>1. reqs'[r].trxns = <<>> BY <1>5, <1>13, <3>5
      <4> QED BY <3>3, <3>4, <3>5, <4>1 DEF Given
    <3>6. CASE T # <<>>
      <4>1. PICK U : U = Append(T, tid) OBVIOUS
      <4>2. i - 1 < Len(T) /\ hist[A[i].id].tid = T[Len(T) - (i - 1)] /\ A[i].trxn
            /\ hist[A[i].id].tid # NoTrxn
        BY <3>3, <3>6 DEF Given
      <4>3. /\ Len(T) \in Nat /\ U # <<>> /\ Len(U) = Len(T) + 1
            /\ \A n \in 1..Len(T) : U[n] = T[n]
        BY <1>4, <4>1
      <4>4. /\ j - 1 < Len(U) /\ Len(U) - (j - 1) = Len(T) - (i - 1)
            /\ Len(T) - (i - 1) \in 1..Len(T)
        BY <1>8, <3>1, <4>2, <4>3
      <4>5. U[Len(U) - (j - 1)] = T[Len(T) - (i - 1)] BY <4>3, <4>4
      <4>6. reqs'[r].trxns = U BY <1>5, <1>13, <3>6, <4>1
      <4> QED BY <3>4, <4>2, <4>3, <4>4, <4>5, <4>6 DEF Given
    <3> QED BY <3>5, <3>6
  <2> QED BY <2>1, <2>2
<1>15. ASSUME NEW h \in DOMAIN B, B[h].id = Header(r)', NEW j \in h..Len(B), Joins(r, k, h, j)'
       PROVE  Matches(r, k, h, j)'
  <2>1. h = 1
    <3>1. CASE h # 1
      <4>1. h - 1 \in DOMAIN A /\ h = (h - 1) + 1 BY <1>8, <3>1
      <4>2. PICK i \in DOMAIN A : h = i + 1 BY <4>1
      <4>3. B[h].id = A[i].id BY <1>8, <4>2
      <4> QED BY <1>9, <1>10, <1>15, <4>3
    <3> QED BY <3>1
  <2>2. j \in 1..Len(B) BY <1>8, <2>1
  <2>3. \A n \in 2..j : ~StopsMerge(B[n]) /\ ~Claimed(r, B[n].id)'
    BY <1>7, <1>15, <2>1 DEF Joins, StopsMerge
  <2>4. Given(B[j].trxn, hist'[B[j].id].tid, reqs'[r].trxns, j - 1) BY <1>14, <2>2, <2>3
  <2> QED BY <1>7, <2>1, <2>4 DEF Matches, Given
<1> QED BY <1>7, <1>15 DEF TrxnsMatch

\* A new request has the transaction of the new column only.
LEMMA InsertMatchNew ==
  ASSUME UserType, ColumnsInv, NEW k \in Key, NEW tid \in TrxnId, NEW c,
         Pushed(k, tid, c), Scheduling(k, tid), c.id = seq + 1, c.trxn = (tid # NoTrxn),
         hist'[seq + 1].tid = tid, New(k, tid), NEW r, r = seq + 1
  PROVE  TrxnsMatch(r, k)'
<1>2. reqs'[r] = NewRequest(k, tid) BY DEF Scheduling
<1>3. /\ reqs'[r].key = k /\ reqs'[r].latest = 0
      /\ reqs'[r].trxns = IF tid = NoTrxn THEN <<>> ELSE <<tid>>
  BY <1>2, NewRequestType
<1>4. PICK A, B : A = uk[k].cols /\ B = uk'[k].cols OBVIOUS
<1>5. /\ Len(A) \in Nat /\ DOMAIN A = 1..Len(A) /\ DOMAIN B = 1..(Len(A) + 1) /\ B[1] = c
      /\ Len(B) = Len(A) + 1
      /\ \A i \in DOMAIN A :
            /\ B[i + 1].id = A[i].id
            /\ B[i + 1].st = IF i = 1 /\ A[i].st = "merged" THEN "lost" ELSE A[i].st
            /\ B[i + 1].split = (A[i].split \/ (i = 1 /\ Splits(k, tid)))
  BY <1>4 DEF Pushed
<1>6. \A i \in DOMAIN A : A[i].id # seq + 1 BY <1>4, ColumnListFacts
<1>7. Header(r)' = seq + 1 BY <1>3, <1>4, <1>5 DEF Header, Newest
<1>8. 2 \in DOMAIN B => StopsMerge(B[2])
  <2>1. SUFFICES ASSUME 2 \in DOMAIN B PROVE StopsMerge(B[2]) OBVIOUS
  <2>2. 1 \in DOMAIN A /\ 1 + 1 = 2 BY <1>5, <2>1
  <2>3. /\ B[2].st = IF A[1].st = "merged" THEN "lost" ELSE A[1].st
        /\ B[2].split = (A[1].split \/ Splits(k, tid))
    BY <1>5, <2>2
  <2>4. CASE Splits(k, tid) BY <2>3, <2>4 DEF StopsMerge
  <2>5. CASE ~Scheduled(k)
    <3>1. A # <<>> BY <2>2
    <3>2. A[1].st # "pending" BY <1>4, <2>5, <3>1 DEF Scheduled, NoColumns, Newest
    <3> QED BY <2>3, <3>2 DEF StopsMerge
  <2> QED BY <2>4, <2>5 DEF New
<1>9. ASSUME NEW h \in DOMAIN B, B[h].id = Header(r)', NEW j \in h..Len(B), Joins(r, k, h, j)'
      PROVE  Matches(r, k, h, j)'
  <2>1. h = 1
    <3>1. CASE h # 1
      <4>1. h - 1 \in DOMAIN A /\ h = (h - 1) + 1 BY <1>5, <3>1
      <4>2. PICK i \in DOMAIN A : h = i + 1 BY <4>1
      <4>3. B[h].id = A[i].id BY <1>5, <4>2
      <4> QED BY <1>6, <1>7, <1>9, <4>3
    <3> QED BY <3>1
  <2>2. j = 1
    <3>1. CASE j # 1
      <4>1. 2 \in (h + 1)..j /\ 2 \in DOMAIN B BY <1>5, <2>1, <3>1
      <4>2. ~StopsMerge(B[2]) BY <1>4, <1>9, <4>1 DEF Joins, StopsMerge
      <4> QED BY <1>8, <4>1, <4>2
    <3> QED BY <3>1
  <2>3. hist'[B[1].id].tid = tid /\ B[1].trxn = (tid # NoTrxn) BY <1>5
  <2>4. CASE tid = NoTrxn
    <3>1. reqs'[r].trxns = <<>> BY <1>3, <2>4
    <3> QED BY <1>4, <2>1, <2>2, <2>3, <2>4, <3>1 DEF Matches, Given
  <2>5. CASE tid # NoTrxn
    <3>1. PICK U : U = <<tid>> OBVIOUS
    <3>2. U # <<>> /\ Len(U) = 1 /\ U[1] = tid /\ j - h = 0 /\ 0 < 1 /\ 1 - 0 = 1 BY <2>1, <2>2, <3>1
    <3>3. reqs'[r].trxns = U BY <1>3, <2>5, <3>1
    <3> QED BY <1>4, <2>1, <2>2, <2>3, <2>5, <3>2, <3>3 DEF Matches, Given
  <2> QED BY <2>4, <2>5
<1> QED BY <1>4, <1>9 DEF TrxnsMatch

\* A write is inserted.
LEMMA InsertMerge ==
  ASSUME ColumnInv, TableInv, MergeInv, NEW p \in Writer, Store(p), Insert(p)
  PROVE  MergeInv'
<1>1. /\ UserType /\ WorkerType /\ ColumnsInv /\ Places /\ WorkerPlaces /\ OpenInv /\ ClosedInv
      /\ StackInv /\ MatchInv /\ LastInv /\ GroupsInv /\ BuiltInv /\ TakenInv /\ LoggedInv
  BY DEF ColumnInv, MergeInv, ListsInv
<1>2. PICK k \in Key : \E tid, c : Inserts(p, k, tid, c) BY <1>1, InsertIs
<1>3. PICK tid, c : Inserts(p, k, tid, c) BY <1>2
<1>4. Pushed(k, tid, c) /\ Scheduling(k, tid) BY <1>1, <1>3, InsertPushes, InsertSchedules
<1>5. /\ c.id = seq + 1 /\ c.st = "pending" /\ c.split = FALSE /\ c.trxn = (tid # NoTrxn)
      /\ tid \in TrxnId /\ tid \in {nextTrxn, wr[p].b.tid}
      /\ \E h \in HistNode : h.key = k /\ h.tid = tid /\ hist' = With(hist, seq + 1, h)
      /\ \A q \in Writer : q # p => wr'[q] = wr[q]
      /\ wr'[p].pc = (IF New(k, tid) THEN "push" ELSE "store")
      /\ wr'[p].rq = (IF New(k, tid) THEN seq + 1 ELSE 0)
      /\ wr'[p].b.tid \in {tid, NoTrxn}
      /\ pending' = pending /\ wk' = wk
  BY <1>3 DEF Inserts
<1>6. tid.g = 0 => tid = NoTrxn
  <2>1. nextTrxn.g # 0 BY DEF TableInv
  <2>2. wr[p].b.tid.g = 0 => wr[p].b.tid = NoTrxn BY <1>1 DEF GroupsInv
  <2> QED BY <1>5, <2>1, <2>2
<1>7. /\ \A i \in DOMAIN hist : hist'[i] = hist[i] /\ i \in DOMAIN hist'
      /\ hist'[seq + 1].tid = tid
      /\ \A i \in DOMAIN hist' : i \in DOMAIN hist \/ i = seq + 1
  <2>1. \A i \in DOMAIN hist : i # seq + 1
    <3>1. DOMAIN hist \subseteq 1..seq /\ seq \in Nat BY <1>1 DEF UserType
    <3> QED BY <3>1
  <2> QED BY <1>5, <2>1 DEF With
<1>8. RequestsKept
  <2>1. ASSUME NEW x \in DOMAIN reqs
        PROVE  /\ x \in DOMAIN reqs' /\ reqs'[x].built = reqs[x].built
               /\ reqs[x].latest # 0 => reqs'[x].latest = reqs[x].latest
    <3>1. x \in DOMAIN reqs' /\ reqs'[x].built = reqs[x].built BY <1>4 DEF Scheduling
    <3>2. x = uk[k].req /\ Splits(k, tid) => reqs[x].latest = 0
      <4>1. Splits(k, tid) => uk[k].req # 0 BY <1>4 DEF Scheduling
      <4> QED BY <1>1, <4>1 DEF OpenInv
    <3>3. reqs'[x].latest = IF x = uk[k].req /\ Splits(k, tid) THEN Newest(k).id ELSE reqs[x].latest
      BY <1>4 DEF Scheduling
    <3> QED BY <3>1, <3>2, <3>3
  <2> QED BY <2>1 DEF RequestsKept
<1>9. StackInv' BY <1>1, <1>4, <1>5, <1>8, InsertStack
<1>10. MatchInv'
  <2> SUFFICES ASSUME NEW r \in DOMAIN reqs', ~reqs'[r].built, NEW j, j = reqs'[r].key
               PROVE  TrxnsMatch(r, j)'
    BY DEF MatchInv
  <2>1. CASE r \in DOMAIN reqs
    <3>1. ~reqs[r].built /\ reqs'[r].key = reqs[r].key BY <1>4, <2>1 DEF Scheduling
    <3>2. CASE r # uk[k].req \/ Splits(k, tid)
      <4>1. TrxnsMatch(r, reqs[r].key)'
        BY <1>1, <1>4, <1>5, <1>7, <1>8, <2>1, <3>1, <3>2, InsertMatchOld
      <4> QED BY <4>1
    <3>3. CASE r = uk[k].req /\ ~Splits(k, tid)
      <4>1. r # 0
        <5>1. DOMAIN reqs \subseteq 1..seq /\ seq \in Nat BY <1>1 DEF UserType
        <5> QED BY <2>1, <5>1
      <4>2. reqs[r].key = k BY <1>1, <3>3, <4>1 DEF OpenInv
      <4>3. \A i \in DOMAIN hist : hist[i].tid.g = 0 => hist[i].tid = NoTrxn BY <1>1 DEF GroupsInv
      <4>4. TrxnsMatch(r, k)'
        BY <1>1, <1>4, <1>5, <1>6, <1>7, <1>8, <2>1, <3>1, <3>3, <4>1, <4>3, InsertMatchOpen
      <4> QED BY <3>1, <4>2, <4>4
    <3> QED BY <3>2, <3>3
  <2>2. CASE r \notin DOMAIN reqs
    <3>1. r = seq + 1 /\ New(k, tid) BY <1>4, <2>2 DEF Scheduling
    <3>2. reqs'[r] = NewRequest(k, tid) BY <1>4, <3>1 DEF Scheduling
    <3>3. reqs'[r].key = k BY <1>5, <3>2, NewRequestType
    <3>4. TrxnsMatch(r, k)' BY <1>1, <1>4, <1>5, <1>7, <3>1, InsertMatchNew
    <3> QED BY <3>3, <3>4
  <2> QED BY <2>1, <2>2
<1>11. LastInv'
  <2>1. ASSUME NEW j \in Key, uk'[j].req # 0
        PROVE  uk'[j].last = hist'[uk'[j].cols[1].id].tid.g
    <3>1. CASE j = k
      <4>1. uk'[j].last = tid.g /\ uk'[j].cols[1] = c BY <1>4, <3>1 DEF Pushed
      <4> QED BY <1>5, <1>7, <4>1
    <3>2. CASE j # k
      <4>1. uk'[j] = uk[j] BY <1>4, <3>2 DEF Pushed
      <4>2. uk[j].req \in DOMAIN reqs /\ reqs[uk[j].req].key = j /\ reqs[uk[j].req].latest = 0
        BY <1>1, <2>1, <4>1 DEF OpenInv
      <4>3. uk[j].cols # <<>> BY <1>1, <4>2 DEF OpenInv, NoColumns
      <4>4. uk[j].cols[1].id \in DOMAIN hist BY <1>1, <4>3, NewestWrite
      <4> QED BY <1>1, <1>7, <2>1, <4>1, <4>4 DEF LastInv, Newest
    <3> QED BY <3>1, <3>2
  <2> QED BY <2>1 DEF LastInv, Newest
<1>12. GroupsInv'
  <2>1. \A i \in DOMAIN hist' : hist'[i].tid.g = 0 => hist'[i].tid = NoTrxn
    BY <1>1, <1>6, <1>7 DEF GroupsInv
  <2>2. \A q \in Writer : wr'[q].b.tid.g = 0 => wr'[q].b.tid = NoTrxn
    BY <1>1, <1>5, <1>6 DEF GroupsInv
  <2> QED BY <2>1, <2>2 DEF GroupsInv
<1>13. BuiltInv'
  <2>0. \A x \in DOMAIN reqs : reqs'[x].built = reqs[x].built BY <1>8 DEF RequestsKept
  <2>1. \A i \in DOMAIN pending' : ~reqs'[pending'[i]].built
    BY <1>1, <1>5, <2>0 DEF BuiltInv, Places
  <2>2. ASSUME NEW q \in Writer, wr'[q].pc # "store" PROVE ~reqs'[wr'[q].rq].built
    <3>1. CASE q = p
      <4>1. New(k, tid) /\ wr'[q].rq = seq + 1 BY <1>5, <2>2, <3>1
      <4>2. reqs'[seq + 1] = NewRequest(k, tid) BY <1>4, <4>1 DEF Scheduling
      <4>3. ~NewRequest(k, tid).built BY <1>5, NewRequestType
      <4> QED BY <4>1, <4>2, <4>3
    <3>2. CASE q # p
      <4>1. wr'[q] = wr[q] BY <1>5, <3>2
      <4>2. wr[q].rq \in DOMAIN reqs BY <1>1, <2>2, <4>1 DEF Places
      <4> QED BY <1>1, <2>0, <2>2, <4>1, <4>2 DEF BuiltInv
    <3> QED BY <3>1, <3>2
  <2>3. \A w \in Worker : Todo(w)' = Todo(w) BY <1>5 DEF Todo, From
  <2>4. \A w \in Worker : \A i \in Todo(w) : wk[w].list[i] \in DOMAIN reqs BY <1>1 DEF WorkerPlaces
  <2>5. \A w \in Worker : \A i \in Todo(w) :
          reqs'[wk[w].list[i]].built <=> (wk[w].pc # "merge" \/ i < wk[w].pos)
    BY <1>1, <2>0, <2>4 DEF BuiltInv
  <2> QED BY <1>5, <2>1, <2>2, <2>3, <2>5 DEF BuiltInv
<1>14. TakenInv'
  <2>1. \A w \in Worker : Todo(w)' = Todo(w) BY <1>5 DEF Todo, From
  <2>2. ASSUME NEW r \in DOMAIN reqs, reqs[r].latest # 0, Marked(r) PROVE Marked(r)'
    <3>1. reqs'[r].latest = reqs[r].latest /\ reqs'[r].key = reqs[r].key
      BY <1>4, <1>8, <2>2 DEF RequestsKept, Scheduling
    <3>2. PICK j : j = reqs[r].key /\ j \in Key BY <1>1 DEF UserType, AreRequests, IsRequest
    <3>3. reqs[r].latest # seq + 1
      <4>1. reqs[r].latest \in DOMAIN hist BY <1>1, <2>2, LatestWrite
      <4>2. DOMAIN hist \subseteq 1..seq /\ seq \in Nat BY <1>1 DEF UserType
      <4> QED BY <4>1, <4>2
    <3>4. ASSUME NEW m \in DOMAIN uk'[j].cols, uk'[j].cols[m].id = reqs[r].latest
          PROVE  uk'[j].cols[m].st = "submitting"
      <4>1. CASE j # k
        <5>1. uk'[j] = uk[j] BY <1>4, <3>2, <4>1 DEF Pushed
        <5> QED BY <2>2, <3>2, <3>4, <5>1 DEF Marked
      <4>2. CASE j = k
        <5>1. PICK A, B : A = uk[k].cols /\ B = uk'[k].cols OBVIOUS
        <5>2. /\ Len(A) \in Nat /\ DOMAIN A = 1..Len(A) /\ DOMAIN B = 1..(Len(A) + 1) /\ B[1] = c
              /\ \A i \in DOMAIN A :
                    /\ B[i + 1].id = A[i].id
                    /\ B[i + 1].st = IF i = 1 /\ A[i].st = "merged" THEN "lost" ELSE A[i].st
          BY <1>4, <5>1 DEF Pushed
        <5>3. m # 1 BY <1>5, <3>3, <3>4, <4>2, <5>1, <5>2
        <5>4. m - 1 \in DOMAIN A /\ m = (m - 1) + 1 BY <3>4, <4>2, <5>1, <5>2, <5>3
        <5>5. PICK i \in DOMAIN A : m = i + 1 BY <5>4
        <5>6. A[i].id = reqs[r].latest BY <3>4, <4>2, <5>1, <5>2, <5>5
        <5>7. A[i].st = "submitting" BY <2>2, <3>2, <4>2, <5>1, <5>6 DEF Marked
        <5>8. B[i + 1].st = "submitting" BY <5>2, <5>7
        <5> QED BY <4>2, <5>1, <5>5, <5>8
      <4> QED BY <4>1, <4>2
    <3> QED BY <3>1, <3>2, <3>4 DEF Marked
  <2>3. \A w \in Worker : \A i \in Todo(w) :
           wk[w].list[i] \in DOMAIN reqs /\ reqs[wk[w].list[i]].latest # 0
    BY <1>1 DEF WorkerPlaces
  <2>4. ASSUME NEW w \in Worker, NEW i \in Todo(w) PROVE Marked(wk[w].list[i])'
    <3>1. PICK r : r = wk[w].list[i] /\ r = wk'[w].list[i] BY <1>5
    <3>2. Marked(r) BY <1>1, <3>1 DEF TakenInv
    <3>3. Marked(r)' BY <2>2, <2>3, <3>1, <3>2
    <3> QED BY <3>1, <3>3
  <2> QED BY <1>5, <2>1, <2>4 DEF TakenInv
<1>15. LoggedInv'
  <2>1. \A l : IsLogged(l) => IsLogged(l)' BY <1>7 DEF IsLogged
  <2> QED BY <1>1, <1>5, <2>1 DEF LoggedInv
<1> QED BY <1>9, <1>10, <1>11, <1>12, <1>13, <1>14, <1>15 DEF MergeInv, ListsInv

-----------------------------------------------------------------------------
(* Requests are taken off the queue. *)

\* What Pop makes of the columns of the requests in mine, of the requests, and of the
\* queue, whose first n they are.
PopsColumns(mine) ==
    \A k \in Key :
        /\ DOMAIN uk'[k].cols = DOMAIN uk[k].cols /\ Len(uk'[k].cols) = Len(uk[k].cols)
        /\ uk'[k].req = (IF uk[k].req \in mine THEN 0 ELSE uk[k].req)
        /\ uk'[k].last = uk[k].last
        /\ \A i \in DOMAIN uk[k].cols :
              /\ uk'[k].cols[i].id = uk[k].cols[i].id /\ uk'[k].cols[i].trxn = uk[k].cols[i].trxn
              /\ (\E r \in mine : uk[k].cols[i].id = Header(r)) => uk'[k].cols[i].st = "submitting"
              /\ (\A r \in mine : uk[k].cols[i].id # Header(r)) => uk'[k].cols[i] = uk[k].cols[i]

\* The requests, when a worker pops those of set mine.
PopsRequests(mine) ==
    /\ DOMAIN reqs' = DOMAIN reqs /\ mine \subseteq DOMAIN reqs
    /\ \A r \in DOMAIN reqs :
          /\ reqs'[r].key = reqs[r].key /\ reqs'[r].trxns = reqs[r].trxns
          /\ reqs'[r].built = reqs[r].built
          /\ reqs'[r].latest = IF r \in mine THEN Header(r) ELSE reqs[r].latest

\* The queue and the worker, when worker w pops the first n requests.
PopsQueue(w, n, mine) ==
    /\ n \in 1..Len(pending)
    /\ \A i \in 1..n : i \in DOMAIN pending /\ pending[i] \in mine
    /\ \A r \in mine : \E i \in 1..n : r = pending[i]
    /\ wk'[w].pc = "merge" /\ wk'[w].pos = 1 /\ wk'[w].log = Empty
    /\ Len(wk'[w].list) = n /\ \A i \in 1..n : wk'[w].list[i] = pending[i]
    /\ \A v \in Worker : v # w => wk'[v] = wk[v]
    /\ \A i \in DOMAIN pending' : n + i \in DOMAIN pending /\ pending'[i] = pending[n + i]
    /\ \A p \in Writer : /\ wr'[p].b = wr[p].b /\ wr'[p].rq = wr[p].rq
                         /\ wr'[p].pc = "store" <=> wr[p].pc = "store"
    /\ hist' = hist

\* All that a pop does.
Pops(w, n, mine) == PopsColumns(mine) /\ PopsRequests(mine) /\ PopsQueue(w, n, mine)

\* It does that.
LEMMA PopIs ==
  ASSUME ColumnInv, BuiltInv, NEW w \in Worker, Pop(w)
  PROVE  \E n, mine : Pops(w, n, mine)
<1> DEFINE n == Taken
           mine == {pending[i] : i \in 1..n}
           heads == {Header(r) : r \in mine}
<1>1. /\ UserType /\ WorkerType /\ ColumnsInv /\ Places /\ WorkerPlaces /\ OpenInv /\ ClosedInv
  BY DEF ColumnInv
<1>2. /\ wk[w].pc = "idle" /\ pending # <<>>
      /\ pending' = SubSeq(pending, n + 1, Len(pending))
      /\ reqs' = [r \in DOMAIN reqs |->
                     IF r \in mine THEN [reqs[r] EXCEPT !.latest = Header(r)] ELSE reqs[r]]
      /\ uk' = [k \in Key |->
                   [uk[k] EXCEPT !.req = IF @ \in mine THEN 0 ELSE @, !.cols = Submitting(@, heads)]]
      /\ wk' = [wk EXCEPT ![w].pc = "merge", ![w].list = SubSeq(pending, 1, n)]
      /\ wr' = Woken \/ wr' = wr
      /\ hist' = hist
  BY DEF Pop, Idle, WakeIf, n, mine, heads
<1>3. /\ pending \in Seq(Nat) /\ Len(pending) \in Nat /\ DOMAIN pending = 1..Len(pending)
      /\ n \in 1..Len(pending)
  <2>1. pending \in Seq(Nat) /\ pending # <<>> BY <1>1, <1>2 DEF UserType
  <2> HIDE DEF n
  <2>2. n \in 1..Len(pending) BY <2>1, TakenFacts DEF n
  <2> QED BY <2>1, <2>2
<1> HIDE DEF n
<1>4. mine \subseteq DOMAIN reqs /\ \A i \in 1..n : i \in DOMAIN pending
  <2>1. \A i \in 1..n : i \in DOMAIN pending BY <1>3
  <2>2. \A i \in DOMAIN pending : pending[i] \in DOMAIN reqs BY <1>1 DEF Places
  <2> QED BY <2>1, <2>2
<1>5. (\A i \in 1..n : pending[i] \in mine) /\ \A r \in mine : \E i \in 1..n : r = pending[i]
  OBVIOUS
<1>6. /\ \A id \in heads : \E r \in mine : id = Header(r)
      /\ \A r \in mine : Header(r) \in heads
  OBVIOUS
<1> HIDE DEF mine, heads
<1>7. ASSUME NEW k \in Key
      PROVE  /\ DOMAIN uk'[k].cols = DOMAIN uk[k].cols /\ Len(uk'[k].cols) = Len(uk[k].cols)
             /\ uk'[k].req = (IF uk[k].req \in mine THEN 0 ELSE uk[k].req)
             /\ uk'[k].last = uk[k].last
             /\ \A i \in DOMAIN uk[k].cols :
                   /\ uk'[k].cols[i].id = uk[k].cols[i].id /\ uk'[k].cols[i].trxn = uk[k].cols[i].trxn
                   /\ uk[k].cols[i].id \in heads => uk'[k].cols[i].st = "submitting"
                   /\ uk[k].cols[i].id \notin heads => uk'[k].cols[i] = uk[k].cols[i]
  <2> DEFINE cols == uk[k].cols
             B == Submitting(cols, heads)
             rq == IF uk[k].req \in mine THEN 0 ELSE uk[k].req
             u == [uk[k] EXCEPT !.req = rq]
  <2>1. uk[k] \in UserKey /\ cols \in Seq(ColumnNode) /\ uk[k].req \in Nat
    BY <1>1 DEF UserType, UserKey
  <2>2. ASSUME NEW i \in DOMAIN cols
        PROVE  /\ B[i] \in ColumnNode /\ B[i].id = cols[i].id /\ B[i].trxn = cols[i].trxn
               /\ cols[i].id \in heads => B[i].st = "submitting"
               /\ cols[i].id \notin heads => B[i] = cols[i]
    <3>1. cols[i] \in ColumnNode BY <2>1
    <3> DEFINE d == [cols[i] EXCEPT !.st = "submitting", !.split = FALSE]
    <3>2. d \in ColumnNode /\ d.id = cols[i].id /\ d.trxn = cols[i].trxn /\ d.st = "submitting"
      <4> HIDE DEF cols
      <4> QED BY <3>1 DEF ColumnNode
    <3>3. B[i] = IF cols[i].id \in heads THEN d ELSE cols[i] BY DEF Submitting
    <3> HIDE DEF d, B, cols
    <3> QED BY <3>1, <3>2, <3>3
  <2>3. B \in Seq(ColumnNode) /\ DOMAIN B = DOMAIN cols /\ Len(B) = Len(cols)
    <3>1. DOMAIN cols = 1..Len(cols) /\ Len(cols) \in Nat
      <4> HIDE DEF cols
      <4> QED BY <2>1
    <3>2. B = [i \in 1..Len(cols) |-> B[i]] BY <3>1 DEF Submitting
    <3> HIDE DEF B, cols
    <3> QED BY <2>2, <3>1, <3>2
  <2>4. uk'[k] = [u EXCEPT !.cols = B]
    <3>1. uk'[k] = [uk[k] EXCEPT !.req = rq, !.cols = B] BY <1>2
    <3> QED BY <3>1
  <2> HIDE DEF B, rq
  <2>5. u \in UserKey /\ u.req = rq /\ u.last = uk[k].last
    <3>1. rq \in Nat BY <2>1 DEF rq
    <3> QED BY <2>1, <3>1 DEF UserKey
  <2> HIDE DEF u
  <2>6. uk'[k].cols = B /\ uk'[k].req = rq /\ uk'[k].last = uk[k].last
    BY <2>3, <2>4, <2>5 DEF UserKey
  <2> QED BY <2>2, <2>3, <2>6 DEF rq
<1>8. ASSUME NEW r \in DOMAIN reqs
      PROVE  /\ reqs'[r].key = reqs[r].key /\ reqs'[r].trxns = reqs[r].trxns
             /\ reqs'[r].built = reqs[r].built
             /\ reqs'[r].latest = IF r \in mine THEN Header(r) ELSE reqs[r].latest
  <2>1. IsRequest(reqs[r]) BY <1>1 DEF UserType, AreRequests
  <2>2. CASE r \in mine
    <3>1. reqs'[r] = [reqs[r] EXCEPT !.latest = Header(r)] BY <1>2, <2>2
    <3> QED BY <2>1, <2>2, <3>1 DEF IsRequest
  <2>3. CASE r \notin mine BY <1>2, <2>3
  <2> QED BY <2>2, <2>3
<1>9. DOMAIN reqs' = DOMAIN reqs BY <1>2
<1>10. /\ DOMAIN pending' = 1..(Len(pending) - n)
       /\ \A i \in DOMAIN pending' : n + i \in DOMAIN pending /\ pending'[i] = pending[n + i]
  <2>1. n + 1 \in Nat /\ Len(pending) - n \in Nat BY <1>3
  <2>2. /\ pending' \in Seq(Nat) /\ Len(pending') = Len(pending) - n
        /\ \A i \in 1..(Len(pending) - n) : pending'[i] = pending[(n + 1) + i - 1]
    BY <1>2, <1>3, SplitFacts
  <2>3. \A i \in 1..(Len(pending) - n) : (n + 1) + i - 1 = n + i /\ n + i \in 1..Len(pending)
    BY <1>3
  <2> QED BY <1>3, <2>1, <2>2, <2>3
<1>11. \A p \in Writer : /\ wr'[p].b = wr[p].b /\ wr'[p].rq = wr[p].rq
                         /\ wr'[p].pc = "store" <=> wr[p].pc = "store"
  <2>1. PICK x : x = wr' OBVIOUS
  <2>2. \A p \in Writer : /\ x[p].b = wr[p].b /\ x[p].rq = wr[p].rq
                          /\ x[p].pc = "store" <=> wr[p].pc = "store"
    BY <1>1, <1>2, <2>1, WokenMerge
  <2> QED BY <2>1, <2>2
<1>12. /\ wk'[w].pc = "merge" /\ wk'[w].pos = 1 /\ wk'[w].log = Empty
       /\ wk'[w].list = SubSeq(pending, 1, n) /\ \A v \in Worker : v # w => wk'[v] = wk[v]
  <2> DEFINE y == [wk[w] EXCEPT !.pc = "merge"]
             x == [y EXCEPT !.list = SubSeq(pending, 1, n)]
  <2>1. wk = [v \in Worker |-> wk[v]] BY <1>1 DEF WorkerType
  <2>2. wk' = [wk EXCEPT ![w] = x] BY <1>2, <2>1
  <2>3. /\ wk[w].pos = 1 /\ wk[w].log = Empty
        /\ wk[w] \in [pc : {wk[w].pc}, list : {wk[w].list}, pos : {1}, log : {Empty}, ikey : {0}]
    <3>1. wk[w] = IdleWorker BY <1>1, <1>2 DEF WorkerPlaces
    <3>2. PICK y0 : y0 = IdleWorker OBVIOUS
    <3>3. /\ y0.pos = 1 /\ y0.log = Empty
          /\ y0 \in [pc : {y0.pc}, list : {y0.list}, pos : {1}, log : {Empty}, ikey : {0}]
      BY <3>2 DEF IdleWorker
    <3> QED BY <3>1, <3>2, <3>3
  <2>4. x.pc = "merge" /\ x.pos = 1 /\ x.log = Empty /\ x.list = SubSeq(pending, 1, n)
    <3> HIDE DEF y
    <3>1. /\ y \in [pc : {"merge"}, list : {wk[w].list}, pos : {1}, log : {Empty}, ikey : {0}]
      BY <2>3 DEF y
    <3> QED BY <3>1
  <2> HIDE DEF x
  <2>5. wk'[w] = x /\ \A v \in Worker : v # w => wk'[v] = wk[v] BY <2>1, <2>2
  <2> QED BY <2>4, <2>5
<1>13. Len(SubSeq(pending, 1, n)) = n /\ \A i \in 1..n : SubSeq(pending, 1, n)[i] = pending[i]
  BY <1>3, SplitFacts
<1>14. \A k \in Key : \A i \in DOMAIN uk[k].cols :
          /\ (\E r \in mine : uk[k].cols[i].id = Header(r)) => uk'[k].cols[i].st = "submitting"
          /\ (\A r \in mine : uk[k].cols[i].id # Header(r)) => uk'[k].cols[i] = uk[k].cols[i]
  BY <1>6, <1>7
<1>15. PopsColumns(mine) BY <1>7, <1>14 DEF PopsColumns
<1>16. PopsRequests(mine) BY <1>4, <1>8, <1>9 DEF PopsRequests
<1>17. PopsQueue(w, n, mine) BY <1>2, <1>3, <1>4, <1>5, <1>10, <1>11, <1>12, <1>13 DEF PopsQueue
<1>18. Pops(w, n, mine) BY <1>15, <1>16, <1>17 DEF Pops
<1> QED BY <1>18

\* A worker pops requests and marks the columns they submit.
LEMMA PopMerge ==
  ASSUME ColumnInv, MergeInv, NEW w \in Worker, Pop(w)
  PROVE  MergeInv'
<1>1. /\ UserType /\ WorkerType /\ ColumnsInv /\ Places /\ WorkerPlaces /\ OpenInv /\ ClosedInv
      /\ StackInv /\ MatchInv /\ LastInv /\ GroupsInv /\ BuiltInv /\ TakenInv /\ LoggedInv
  BY DEF ColumnInv, MergeInv, ListsInv
<1>2. PICK n, mine : Pops(w, n, mine) BY <1>1, PopIs
<1>3. PopsColumns(mine) /\ PopsRequests(mine) /\ PopsQueue(w, n, mine) BY <1>2 DEF Pops
<1>4. /\ DOMAIN reqs' = DOMAIN reqs /\ mine \subseteq DOMAIN reqs
      /\ \A r \in DOMAIN reqs :
            /\ reqs'[r].key = reqs[r].key /\ reqs'[r].trxns = reqs[r].trxns
            /\ reqs'[r].built = reqs[r].built
            /\ reqs'[r].latest = IF r \in mine THEN Header(r) ELSE reqs[r].latest
  BY <1>3 DEF PopsRequests
<1>5. hist' = hist /\ \A i \in DOMAIN hist : hist'[i].tid = hist[i].tid BY <1>3 DEF PopsQueue
<1>6. RequestsKept
  <2>1. \A r \in DOMAIN reqs : reqs[r].latest # 0 => Header(r) = reqs[r].latest BY DEF Header
  <2> QED BY <1>4, <2>1 DEF RequestsKept
<1>7. ASSUME NEW k \in Key, NEW A, A = uk[k].cols, NEW B, B = uk'[k].cols
      PROVE  /\ DOMAIN B = DOMAIN A /\ Len(B) = Len(A) /\ DOMAIN A = 1..Len(A) /\ Len(A) \in Nat
             /\ \A i \in DOMAIN A :
                   /\ A[i].id # 0 /\ B[i].id = A[i].id /\ B[i].trxn = A[i].trxn
                   /\ (\E r \in mine : A[i].id = Header(r)) => B[i].st = "submitting"
                   /\ (\A r \in mine : A[i].id # Header(r)) => B[i] = A[i]
  BY <1>1, <1>3, <1>7, ColumnListFacts DEF PopsColumns
<1>8. ASSUME NEW r \in DOMAIN reqs PROVE Header(r)' = Header(r)
  <2>1. PICK k : k = reqs[r].key /\ k \in Key BY <1>1 DEF UserType, AreRequests, IsRequest
  <2>2. Header(r) # 0 BY <1>1, HeaderFacts
  <2>3. CASE r \in mine
    <3>1. reqs'[r].latest = Header(r) BY <1>4, <2>3
    <3> QED BY <2>2, <3>1 DEF Header
  <2>4. CASE r \notin mine
    <3>1. reqs'[r].latest = reqs[r].latest /\ reqs'[r].key = k BY <1>4, <2>1, <2>4
    <3>2. CASE reqs[r].latest # 0 BY <3>1, <3>2 DEF Header
    <3>3. CASE reqs[r].latest = 0
      <4>1. uk[k].cols # <<>> BY <1>1, <2>1, <3>3 DEF OpenInv, NoColumns
      <4>2. 1 \in DOMAIN uk[k].cols BY <1>1, <2>1, <4>1, NewestWrite
      <4>3. uk'[k].cols[1].id = uk[k].cols[1].id BY <1>3, <2>1, <4>2 DEF PopsColumns
      <4> QED BY <2>1, <3>1, <3>3, <4>3 DEF Header, Newest
    <3> QED BY <3>2, <3>3
  <2> QED BY <2>3, <2>4
<1>9. StackInv'
  <2>1. ASSUME NEW k \in Key, NEW i \in DOMAIN uk'[k].cols PROVE Stacked(k, i)'
    <3>1. PICK A, B : A = uk[k].cols /\ B = uk'[k].cols OBVIOUS
    <3>2. /\ DOMAIN B = DOMAIN A /\ DOMAIN A = 1..Len(A) /\ Len(A) \in Nat
          /\ \A j \in DOMAIN A :
                /\ A[j].id # 0 /\ B[j].id = A[j].id
                /\ (\E r \in mine : A[j].id = Header(r)) => B[j].st = "submitting"
                /\ (\A r \in mine : A[j].id # Header(r)) => B[j] = A[j]
      BY <1>7, <3>1
    <3>3. SUFFICES ASSUME B[i].st = "pending"
                   PROVE  /\ B[i].split => HasRequest(B[i].id)'
                          /\ \/ HasRequest(B[i].id)' \/ i = 1
                             \/ B[i - 1].st = "pending" \/ Unmerged(B[i - 1])'
      BY <3>1 DEF Stacked
    <3>4. i \in DOMAIN A /\ B[i] = A[i] BY <2>1, <3>1, <3>2, <3>3
    <3>5. Stacked(k, i) BY <1>1, <3>1, <3>4 DEF StackInv
    <3>6. /\ A[i].split => HasRequest(A[i].id)
          /\ HasRequest(A[i].id) \/ i = 1 \/ A[i - 1].st = "pending" \/ Unmerged(A[i - 1])
      BY <3>1, <3>3, <3>4, <3>5 DEF Stacked
    <3>7. HasRequest(A[i].id) => HasRequest(A[i].id)' BY <1>6, <3>2, <3>4, ClaimsKept
    <3>8. ASSUME i # 1, A[i - 1].st = "pending" \/ Unmerged(A[i - 1])
          PROVE  B[i - 1].st = "pending" \/ Unmerged(B[i - 1])'
      <4>1. i - 1 \in DOMAIN A BY <3>2, <3>4, <3>8
      <4>2. PICK a, b : a = A[i - 1] /\ b = B[i - 1] OBVIOUS
      <4>3. /\ a.id # 0 /\ b.id = a.id
            /\ (\E r \in mine : a.id = Header(r)) => b.st = "submitting"
            /\ (\A r \in mine : a.id # Header(r)) => b = a
        BY <3>2, <4>1, <4>2
      <4>4. CASE Unmerged(a)
        <5>1. Unmerged(a)' BY <1>6, <4>3, <4>4, ClaimsKept
        <5>2. a.st = "submitting" BY <4>4 DEF Unmerged
        <5>3. b.st = "submitting" BY <4>3, <5>2
        <5>4. Unmerged(b)' BY <4>3, <5>1, <5>3 DEF Unmerged
        <5> QED BY <4>2, <5>4
      <4>5. CASE a.st = "pending"
        <5>1. CASE \A r \in mine : a.id # Header(r) BY <4>2, <4>3, <4>5, <5>1
        <5>2. CASE \E r \in mine : a.id = Header(r)
          <6>1. PICK r \in mine : a.id = Header(r) BY <5>2
          <6>2. b.st = "submitting" BY <4>3, <5>2
          <6>3. r \in DOMAIN reqs' /\ reqs'[r].latest = b.id BY <1>4, <4>3, <6>1
          <6>4. ~reqs'[r].built
            <7>1. PICK m \in DOMAIN pending : r = pending[m] BY <1>3, <6>1 DEF PopsQueue
            <7>2. ~reqs[r].built BY <1>1, <7>1 DEF BuiltInv
            <7> QED BY <1>4, <6>1, <7>2
          <6>5. Unmerged(b)' BY <6>2, <6>3, <6>4 DEF Unmerged
          <6> QED BY <4>2, <6>5
        <5> QED BY <5>1, <5>2
      <4> QED BY <3>8, <4>2, <4>4, <4>5
    <3> QED BY <3>4, <3>6, <3>7, <3>8
  <2> QED BY <2>1 DEF StackInv
<1>10. MatchInv'
  <2> SUFFICES ASSUME NEW r \in DOMAIN reqs', ~reqs'[r].built, NEW k, k = reqs'[r].key
               PROVE  TrxnsMatch(r, k)'
    BY DEF MatchInv
  <2>1. r \in DOMAIN reqs /\ ~reqs[r].built /\ k = reqs[r].key /\ reqs'[r].trxns = reqs[r].trxns
    BY <1>4
  <2>2. k \in Key BY <1>1, <2>1 DEF UserType, AreRequests, IsRequest
  <2>3. TrxnsMatch(r, k) BY <1>1, <2>1 DEF MatchInv
  <2>4. Header(r)' = Header(r) BY <1>8, <2>1
  <2>5. PICK A, B : A = uk[k].cols /\ B = uk'[k].cols OBVIOUS
  <2>6. /\ DOMAIN B = DOMAIN A /\ Len(B) = Len(A) /\ DOMAIN A = 1..Len(A) /\ Len(A) \in Nat
        /\ \A j \in DOMAIN A :
              /\ A[j].id # 0 /\ B[j].id = A[j].id /\ B[j].trxn = A[j].trxn
              /\ (\E x \in mine : A[j].id = Header(x)) => B[j].st = "submitting"
              /\ (\A x \in mine : A[j].id # Header(x)) => B[j] = A[j]
    BY <1>1, <1>3, <2>2, <2>5, ColumnListFacts DEF PopsColumns
  <2>7. ASSUME NEW h \in DOMAIN B, B[h].id = Header(r), NEW j \in h..Len(B), Joins(r, k, h, j)'
        PROVE  Comes(r, k, h, j)
    <3>1. h \in DOMAIN A /\ j \in h..Len(A) /\ j \in DOMAIN A BY <2>6, <2>7
    <3>2. ASSUME NEW i \in (h + 1)..j PROVE ~StopsMerge(A[i]) /\ ~Claimed(r, A[i].id)
      <4>1. i \in DOMAIN A BY <2>6, <3>1
      <4>2. ~StopsMerge(B[i]) /\ ~Claimed(r, B[i].id)' BY <2>5, <2>7 DEF Joins, StopsMerge
      <4>3. B[i].st = "pending" BY <4>2 DEF StopsMerge
      <4>4. B[i] = A[i] BY <2>6, <4>1, <4>3
      <4>5. ~Claimed(r, A[i].id)' BY <4>2, <4>4
      <4>6. ~Claimed(r, A[i].id) BY <1>6, <2>6, <4>1, <4>5, ClaimsKept
      <4> QED BY <4>2, <4>4, <4>6
    <3>3. Joins(r, k, h, j) BY <2>5, <3>2 DEF Joins
    <3>4. A[h].id = Header(r) /\ A[j].id = B[j].id /\ A[j].trxn = B[j].trxn BY <2>6, <2>7, <3>1
    <3> QED BY <2>5, <3>1, <3>3, <3>4 DEF Comes
  <2> QED BY <1>1, <1>5, <2>1, <2>2, <2>3, <2>4, <2>5, <2>7, MatchFrom
<1>11. LastInv'
  <2>1. ASSUME NEW k \in Key, uk'[k].req # 0
        PROVE  uk'[k].last = hist'[uk'[k].cols[1].id].tid.g
    <3>1. uk'[k].req = uk[k].req /\ uk'[k].last = uk[k].last
      BY <1>3, <2>1 DEF PopsColumns
    <3>2. uk[k].cols # <<>> BY <1>1, <2>1, <3>1 DEF OpenInv, NoColumns
    <3>3. 1 \in DOMAIN uk[k].cols BY <1>1, <3>2, NewestWrite
    <3>4. uk'[k].cols[1].id = uk[k].cols[1].id BY <1>3, <3>3 DEF PopsColumns
    <3> QED BY <1>1, <1>5, <2>1, <3>1, <3>4 DEF LastInv, Newest
  <2> QED BY <2>1 DEF LastInv, Newest
<1>12. GroupsInv' BY <1>1, <1>3 DEF GroupsInv, PopsQueue
<1>13. /\ Todo(w)' = 1..n /\ wk'[w].pc = "merge" /\ wk'[w].pos = 1 /\ wk'[w].log = Empty
       /\ \A i \in 1..n : i \in DOMAIN pending /\ pending[i] \in mine /\ wk'[w].list[i] = pending[i]
       /\ \A v \in Worker : v # w => wk'[v] = wk[v] /\ Todo(v)' = Todo(v)
  BY <1>3 DEF PopsQueue, Todo, From
<1>14. BuiltInv'
  <2>1. \A i \in DOMAIN pending' : ~reqs'[pending'[i]].built
    <3>1. \A i \in DOMAIN pending' : n + i \in DOMAIN pending /\ pending'[i] = pending[n + i]
      BY <1>3 DEF PopsQueue
    <3>2. \A i \in DOMAIN pending : pending[i] \in DOMAIN reqs /\ ~reqs[pending[i]].built
      BY <1>1 DEF Places, BuiltInv
    <3> QED BY <1>4, <3>1, <3>2
  <2>2. \A p \in Writer : wr'[p].pc # "store" => ~reqs'[wr'[p].rq].built
    <3>1. \A p \in Writer : /\ wr'[p].rq = wr[p].rq
                            /\ wr'[p].pc = "store" <=> wr[p].pc = "store"
      BY <1>3 DEF PopsQueue
    <3>2. \A p \in Writer : wr[p].pc # "store" => wr[p].rq \in DOMAIN reqs /\ ~reqs[wr[p].rq].built
      BY <1>1 DEF Places, BuiltInv
    <3> QED BY <1>4, <3>1, <3>2
  <2>3. ASSUME NEW v \in Worker, NEW i \in Todo(v)'
        PROVE  reqs'[wk'[v].list[i]].built <=> (wk'[v].pc # "merge" \/ i < wk'[v].pos)
    <3>1. CASE v = w
      <4>1. i \in 1..n /\ i \in DOMAIN pending BY <1>13, <2>3, <3>1
      <4>2. pending[i] \in DOMAIN reqs /\ ~reqs[pending[i]].built BY <1>1, <4>1 DEF Places, BuiltInv
      <4>3. ~(i < 1)
        <5>1. n \in Nat BY <1>1, <1>3 DEF PopsQueue, UserType
        <5> QED BY <4>1, <5>1
      <4> QED BY <1>4, <1>13, <3>1, <4>1, <4>2, <4>3
    <3>2. CASE v # w
      <4>1. wk'[v] = wk[v] /\ i \in Todo(v) BY <1>13, <2>3, <3>2
      <4>2. wk[v].list[i] \in DOMAIN reqs BY <1>1, <4>1 DEF WorkerPlaces
      <4> QED BY <1>1, <1>4, <4>1, <4>2 DEF BuiltInv
    <3> QED BY <3>1, <3>2
  <2> QED BY <2>1, <2>2, <2>3 DEF BuiltInv
<1>15. TakenInv'
  <2>1. ASSUME NEW r \in DOMAIN reqs, (reqs[r].latest # 0 /\ Marked(r)) \/ r \in mine PROVE Marked(r)'
    <3>1. PICK k : k = reqs[r].key /\ k \in Key BY <1>1 DEF UserType, AreRequests, IsRequest
    <3>2. reqs'[r].key = k BY <1>4, <3>1
    <3>3. ASSUME NEW j \in DOMAIN uk'[k].cols, uk'[k].cols[j].id = reqs'[r].latest
          PROVE  uk'[k].cols[j].st = "submitting"
      <4>1. /\ j \in DOMAIN uk[k].cols /\ uk'[k].cols[j].id = uk[k].cols[j].id
            /\ (\E x \in mine : uk[k].cols[j].id = Header(x)) => uk'[k].cols[j].st = "submitting"
            /\ (\A x \in mine : uk[k].cols[j].id # Header(x)) => uk'[k].cols[j] = uk[k].cols[j]
        BY <1>3, <3>1, <3>3 DEF PopsColumns
      <4>2. CASE r \in mine
        <5>1. uk[k].cols[j].id = Header(r) BY <1>4, <3>3, <4>1, <4>2
        <5> QED BY <4>1, <4>2, <5>1
      <4>3. CASE r \notin mine
        <5>1. uk[k].cols[j].id = reqs[r].latest BY <1>4, <3>3, <4>1, <4>3
        <5>2. uk[k].cols[j].st = "submitting" BY <2>1, <3>1, <4>1, <4>3, <5>1 DEF Marked
        <5> QED BY <4>1, <5>2
      <4> QED BY <4>2, <4>3
    <3> QED BY <3>2, <3>3 DEF Marked
  <2>2. ASSUME NEW v \in Worker, NEW i \in Todo(v)', NEW r, r = wk'[v].list[i] PROVE Marked(r)'
    <3>1. CASE v = w
      <4>1. r \in mine BY <1>13, <2>2, <3>1
      <4> QED BY <1>4, <2>1, <4>1
    <3>2. CASE v # w
      <4>1. i \in Todo(v) /\ r = wk[v].list[i] BY <1>13, <2>2, <3>2
      <4>2. r \in DOMAIN reqs /\ reqs[r].latest # 0 BY <1>1, <4>1 DEF WorkerPlaces
      <4>3. Marked(r) BY <1>1, <4>1 DEF TakenInv
      <4> QED BY <2>1, <4>2, <4>3
    <3> QED BY <3>1, <3>2
  <2> QED BY <2>2 DEF TakenInv
<1>16. LoggedInv'
  <2>1. \A l : IsLogged(l) => IsLogged(l)' BY <1>5 DEF IsLogged
  <2>2. IsLogged(Empty) BY DEF IsLogged, Empty
  <2>3. ASSUME NEW v \in Worker, NEW l, l = wk'[v].log PROVE IsLogged(l)'
    <3>1. CASE v = w BY <1>13, <2>1, <2>2, <2>3, <3>1
    <3>2. CASE v # w
      <4>1. IsLogged(l) BY <1>1, <1>13, <2>3, <3>2 DEF LoggedInv
      <4> QED BY <2>1, <4>1
    <3> QED BY <3>1, <3>2
  <2> QED BY <2>3 DEF LoggedInv
<1> QED BY <1>9, <1>10, <1>11, <1>12, <1>14, <1>15, <1>16 DEF MergeInv, ListsInv

-----------------------------------------------------------------------------
(* Columns are merged. *)

\* A merge ends at the first column that stops it.
LEMMA MergeStops ==
  ASSUME NEW cols \in Seq(ColumnNode), NEW h \in 1..Len(cols)
  PROVE  LET e == MergeEnd(cols, h) IN
         /\ e \in (h + 1)..(Len(cols) + 1)
         /\ \A i \in (h + 1)..(e - 1) : i \in DOMAIN cols /\ ~StopsMerge(cols[i])
         /\ e <= Len(cols) => StopsMerge(cols[e])
<1> DEFINE S == {i \in (h + 1)..(Len(cols) + 1) : i = Len(cols) + 1 \/ StopsMerge(cols[i])}
           e == MergeEnd(cols, h)
<1>1. Len(cols) \in Nat /\ h \in Nat /\ h <= Len(cols) /\ DOMAIN cols = 1..Len(cols) OBVIOUS
<1>2. Len(cols) + 1 \in S BY <1>1
<1>3. S \subseteq Nat /\ S \subseteq (h + 1)..(Len(cols) + 1) BY <1>1
<1>4. e = MinOf(S) BY DEF MergeEnd
<1>5. \A i : i \in S <=> i \in (h + 1)..(Len(cols) + 1) /\ (i = Len(cols) + 1 \/ StopsMerge(cols[i]))
  OBVIOUS
<1> HIDE DEF S, e
<1>6. \E n \in S : \A m \in S : n <= m BY <1>2, <1>3, Smallest
<1>7. e \in S /\ \A m \in S : e <= m BY <1>4, <1>6 DEF MinOf
<1>8. e \in (h + 1)..(Len(cols) + 1) /\ e \in Nat BY <1>1, <1>3, <1>7
<1>9. e <= Len(cols) => StopsMerge(cols[e]) BY <1>1, <1>5, <1>7, <1>8
<1>10. ASSUME NEW i \in (h + 1)..(e - 1) PROVE i \in DOMAIN cols /\ ~StopsMerge(cols[i])
  <2>1. i \in (h + 1)..(Len(cols) + 1) /\ i < e /\ i \in 1..Len(cols) BY <1>1, <1>8
  <2>2. i \notin S BY <1>1, <1>7, <1>8, <2>1
  <2> QED BY <1>1, <1>5, <2>1, <2>2
<1> QED BY <1>8, <1>9, <1>10 DEF e

\* List B is what the merge between places h and e makes of A, where d columns go.
ShrunkAbove(A, h, B) ==
    /\ \A i \in 1..(h - 1) : i \in DOMAIN B /\ B[i] = A[i]
    /\ h \in DOMAIN B /\ B[h].id = A[h].id /\ B[h].st = A[h].st

\* The columns of list B below the one at h: those of A that are kept, then the rest of A.
ShrunkBelow(A, h, e, B, d) ==
    /\ \A m \in (h + 1)..(e - 1 - d) : m \in DOMAIN B => B[m].st = "merged"
    /\ \A i \in e..Len(A) :
          /\ i - d \in DOMAIN B
          /\ B[i - d].id = A[i].id /\ B[i - d].st = A[i].st /\ B[i - d].trxn = A[i].trxn
          /\ i = e => ~B[i - d].split
          /\ i # e => B[i - d] = A[i]

\* List B is list A without d of the columns between h and e.
Shrunk(A, h, e, B, d) ==
    /\ d \in Nat /\ d <= e - 1 - h /\ Len(B) = Len(A) - d /\ DOMAIN B = 1..Len(B)
    /\ ShrunkAbove(A, h, B) /\ ShrunkBelow(A, h, e, B, d)

\* The merge makes it.
LEMMA MergeShrinks ==
  ASSUME NEW cols \in Seq(ColumnNode), NEW h \in 1..Len(cols), NEW e \in (h + 1)..(Len(cols) + 1)
  PROVE  \E d : Shrunk(cols, h, e, AfterMerge(cols, h, e), d)
<1> DEFINE C == [i \in DOMAIN cols |->
                    IF i = h THEN [cols[i] EXCEPT !.trxn = FALSE]
                    ELSE IF i = e THEN [cols[i] EXCEPT !.split = FALSE]
                    ELSE IF h < i /\ i < e
                    THEN [cols[i] EXCEPT !.st = "merged", !.committed = TRUE, !.trxn = FALSE]
                    ELSE cols[i]]
           R == {i \in (h + 1)..(e - 1) : ~Seen(cols, DOMAIN snaps, h, i)}
           B == AfterMerge(cols, h, e)
<1>1. /\ Len(cols) \in Nat /\ DOMAIN cols = 1..Len(cols)
      /\ h \in Nat /\ e \in Nat /\ h <= Len(cols) /\ h + 1 <= e /\ e <= Len(cols) + 1
  OBVIOUS
<1>2. B = Keep(C, R) BY DEF AfterMerge
<1>3. ASSUME NEW i \in DOMAIN cols
      PROVE  /\ C[i] \in ColumnNode
             /\ i < h => C[i] = cols[i]
             /\ i = h => C[i].id = cols[i].id /\ C[i].st = cols[i].st
             /\ h < i /\ i < e => C[i].st = "merged"
             /\ i = e => /\ C[i].id = cols[i].id /\ C[i].st = cols[i].st
                         /\ C[i].trxn = cols[i].trxn /\ ~C[i].split
             /\ e < i => C[i] = cols[i]
  <2> DEFINE c == cols[i]
  <2>1. c \in ColumnNode OBVIOUS
  <2>2. i \in Nat BY <1>1
  <2> HIDE DEF c
  <2>3. /\ [c EXCEPT !.trxn = FALSE] \in ColumnNode
        /\ [c EXCEPT !.trxn = FALSE].id = c.id /\ [c EXCEPT !.trxn = FALSE].st = c.st
        /\ [c EXCEPT !.split = FALSE] \in ColumnNode
        /\ [c EXCEPT !.split = FALSE].id = c.id /\ [c EXCEPT !.split = FALSE].st = c.st
        /\ [c EXCEPT !.split = FALSE].trxn = c.trxn /\ [c EXCEPT !.split = FALSE].split = FALSE
    BY <2>1 DEF ColumnNode
  <2>4. /\ [c EXCEPT !.st = "merged", !.committed = TRUE, !.trxn = FALSE] \in ColumnNode
        /\ [c EXCEPT !.st = "merged", !.committed = TRUE, !.trxn = FALSE].st = "merged"
    BY <2>1 DEF ColumnNode
  <2>5. C[i] = IF i = h THEN [c EXCEPT !.trxn = FALSE]
               ELSE IF i = e THEN [c EXCEPT !.split = FALSE]
               ELSE IF h < i /\ i < e
               THEN [c EXCEPT !.st = "merged", !.committed = TRUE, !.trxn = FALSE]
               ELSE c
    BY DEF c
  <2> HIDE DEF C
  <2>6. CASE i = h
    <3>1. C[i] = [c EXCEPT !.trxn = FALSE] /\ ~(i < h) /\ ~(h < i) /\ i # e /\ ~(e < i)
      BY <1>1, <2>5, <2>6
    <3> QED BY <2>3, <2>6, <3>1 DEF c
  <2>7. CASE i = e
    <3>1. C[i] = [c EXCEPT !.split = FALSE] /\ ~(i < h) /\ i # h /\ ~(i < e) /\ ~(e < i)
      BY <1>1, <2>5, <2>7
    <3> QED BY <2>3, <2>7, <3>1 DEF c
  <2>8. CASE h < i /\ i < e
    <3>1. /\ C[i] = [c EXCEPT !.st = "merged", !.committed = TRUE, !.trxn = FALSE]
          /\ ~(i < h) /\ i # h /\ i # e /\ ~(e < i)
      BY <1>1, <2>2, <2>5, <2>8
    <3> QED BY <2>4, <3>1
  <2>9. CASE i < h \/ e < i
    <3>1. C[i] = c /\ i # h /\ i # e /\ ~(h < i /\ i < e) BY <1>1, <2>2, <2>5, <2>9
    <3> QED BY <2>1, <3>1 DEF c
  <2> QED BY <1>1, <2>2, <2>6, <2>7, <2>8, <2>9
<1>4. C \in Seq(ColumnNode) /\ DOMAIN C = DOMAIN cols /\ Len(C) = Len(cols)
  <2>1. DOMAIN C = DOMAIN cols /\ C = [i \in 1..Len(cols) |-> C[i]] BY <1>1
  <2> HIDE DEF C
  <2> QED BY <1>1, <1>3, <2>1
<1> HIDE DEF C
<1>5. R \in SUBSET ((h + 1)..(e - 1)) OBVIOUS
<1> HIDE DEF R, B
<1>6. PICK f : KeptAt(C, R, f) /\ \A m \in DOMAIN B : B[m] = C[f[m]]
  <2>1. \E f : KeptList(C, R, Keep(C, R), f) BY <1>4, KeepFacts
  <2> QED BY <1>2, <2>1 DEF KeptList
<1>7. B \in Seq(ColumnNode) /\ Len(B) = Cardinality(DOMAIN C \ R) BY <1>2, <1>4, KeepFacts
<1>8. h \in 0..Len(C) /\ e \in (h + 1)..(Len(C) + 1) BY <1>1, <1>4
<1>9. PICK d \in Nat : Shifted(Len(C), h, e, f, d) BY <1>4, <1>5, <1>6, <1>8, KeepShift
<1>10. /\ DOMAIN B = 1..Len(B) /\ DOMAIN f = DOMAIN B /\ Len(B) \in Nat
       /\ \A m \in DOMAIN B : f[m] \in DOMAIN cols
  <2>1. f \in [1..Cardinality(DOMAIN C \ R) -> DOMAIN C \ R] BY <1>6 DEF KeptAt
  <2>2. DOMAIN B = 1..Cardinality(DOMAIN C \ R) /\ DOMAIN B = 1..Len(B) /\ Len(B) \in Nat BY <1>7
  <2> QED BY <1>4, <2>1, <2>2
<1>11. /\ d <= e - 1 - h /\ DOMAIN f = 1..(Len(cols) - d)
       /\ \A i \in 1..h : i \in DOMAIN B /\ f[i] = i
       /\ \A i \in e..Len(cols) : i - d \in DOMAIN B /\ f[i - d] = i
       /\ \A m \in DOMAIN B : (f[m] <= h => f[m] = m) /\ (e <= f[m] => f[m] = m + d)
  BY <1>4, <1>9, <1>10 DEF Shifted
<1>12. Len(B) = Len(cols) - d
  <2>1. Len(cols) - d \in Nat BY <1>1, <1>9, <1>11
  <2> QED BY <1>7, <1>10, <1>11, <2>1
<1>13. ShrunkAbove(cols, h, B)
  <2>1. ASSUME NEW i \in 1..h PROVE i \in DOMAIN B /\ B[i] = C[i] /\ i \in DOMAIN cols
    <3>1. i \in DOMAIN B /\ f[i] = i BY <1>11
    <3> QED BY <1>6, <1>10, <3>1
  <2>2. \A i \in 1..(h - 1) : i \in 1..h /\ i < h BY <1>1
  <2>3. h \in 1..h BY <1>1
  <2> QED BY <1>3, <2>1, <2>2, <2>3 DEF ShrunkAbove
<1>14. ShrunkBelow(cols, h, e, B, d)
  <2>1. ASSUME NEW m \in (h + 1)..(e - 1 - d), m \in DOMAIN B PROVE B[m].st = "merged"
    <3>1. f[m] \in DOMAIN cols /\ f[m] \in Nat /\ B[m] = C[f[m]] BY <1>1, <1>6, <1>10, <2>1
    <3>2. m \in Nat /\ h < m /\ m + d < e BY <1>1, <1>9, <2>1
    <3>3. (f[m] <= h => f[m] = m) /\ (e <= f[m] => f[m] = m + d) BY <1>11, <2>1
    <3>4. h < f[m] /\ f[m] < e BY <1>1, <1>9, <3>1, <3>2, <3>3
    <3> QED BY <1>3, <3>1, <3>4
  <2>2. ASSUME NEW i \in e..Len(cols)
        PROVE  /\ i - d \in DOMAIN B
               /\ B[i - d].id = cols[i].id /\ B[i - d].st = cols[i].st /\ B[i - d].trxn = cols[i].trxn
               /\ i = e => ~B[i - d].split
               /\ i # e => B[i - d] = cols[i]
    <3>1. i - d \in DOMAIN B /\ f[i - d] = i BY <1>11
    <3>2. B[i - d] = C[i] BY <1>6, <3>1
    <3>3. i \in DOMAIN cols /\ (i = e \/ e < i) BY <1>1
    <3> QED BY <1>3, <3>1, <3>2, <3>3
  <2> QED BY <2>1, <2>2 DEF ShrunkBelow
<1>15. Shrunk(cols, h, e, B, d) BY <1>9, <1>10, <1>11, <1>12, <1>13, <1>14 DEF Shrunk
<1> QED BY <1>15 DEF B

\* What request r puts into the log.
LogEntry(r, cols, h, e) ==
    LET ids == Keep(cols, {i \in DOMAIN cols : i < h \/ i >= e \/ ~cols[i].trxn})
        trxns == Popped(r, Len(ids))
    IN  [i \in DOMAIN ids |-> [col |-> ids[i].id, trxn |-> trxns[i]]]

\* The columns between places h and e of key k are merged for request r of worker w.
MergesAt(w, r, k, h, e) ==
    /\ wk[w].pos \in Todo(w) /\ r = wk[w].list[wk[w].pos]
    /\ r \in DOMAIN reqs /\ k = reqs[r].key /\ k \in Key /\ reqs[r].latest # 0
    /\ h \in DOMAIN uk[k].cols /\ uk[k].cols[h].id = reqs[r].latest
    /\ e \in (h + 1)..(Len(uk[k].cols) + 1)
    /\ \A i \in (h + 1)..(e - 1) :
          i \in DOMAIN uk[k].cols /\ ~StopsMerge(uk[k].cols[i]) /\ ~Claimed(r, uk[k].cols[i].id)
    /\ e <= Len(uk[k].cols) => StopsMerge(uk[k].cols[e])

\* The columns of the keys, when those of key k between h and e are merged.
MergesColumns(k, h, e, d) ==
    /\ Shrunk(uk[k].cols, h, e, uk'[k].cols, d)
    /\ \A j \in Key : /\ j # k => uk'[j].cols = uk[j].cols
                      /\ uk'[j].req = uk[j].req /\ uk'[j].last = uk[j].last

\* The requests, when request r has been merged.
MergesRequests(r) ==
    /\ DOMAIN reqs' = DOMAIN reqs
    /\ \A x \in DOMAIN reqs :
          /\ reqs'[x].key = reqs[x].key /\ reqs'[x].latest = reqs[x].latest
          /\ reqs'[x].trxns = reqs[x].trxns
          /\ reqs'[x].built <=> (x = r \/ reqs[x].built)

\* The workers, when worker w goes on with log l.
MergesWorker(w, l) ==
    /\ wk[w].pc = "merge" /\ wk[w].pos \in Nat
    /\ \/ wk'[w].pc = "put" /\ wk[w].pos = Len(wk[w].list)
       \/ wk'[w].pc = "merge" /\ wk'[w].pos = wk[w].pos + 1
    /\ wk'[w].list = wk[w].list /\ wk'[w].log = l
    /\ \A v \in Worker : v # w => wk'[v] = wk[v]
    /\ \A v \in Worker : Todo(v)' = Todo(v)

\* That is what Merge does.
LEMMA MergeIs ==
  ASSUME ColumnInv, NEW w \in Worker, Merge(w)
  PROVE  /\ UNCHANGED <<pending, wr, hist>>
         /\ \E r, k, h, e, d : /\ MergesAt(w, r, k, h, e) /\ MergesColumns(k, h, e, d)
                               /\ MergesRequests(r)
                               /\ MergesWorker(w, With(wk[w].log, r, LogEntry(r, uk[k].cols, h, e)))
<1> DEFINE r == wk[w].list[wk[w].pos]
           k == reqs[r].key
           cols == uk[k].cols
           h == At(k, reqs[r].latest)
           e == MergeEnd(cols, h)
           B == AfterMerge(cols, h, e)
           l == With(wk[w].log, r, LogEntry(r, cols, h, e))
           last == wk[w].pos = Len(wk[w].list)
<1>1. /\ UserType /\ WorkerType /\ ColumnsInv /\ Places /\ WorkerPlaces /\ OpenInv /\ ClosedInv
  BY DEF ColumnInv
<1>2. /\ wk[w].pc = "merge"
      /\ \A i \in (h + 1)..(e - 1) : ~Claimed(r, cols[i].id)
      /\ uk' = [uk EXCEPT ![k].cols = B]
      /\ UNCHANGED <<pending, wr, hist>>
  BY DEF Merge
<1>3. PICK g : reqs' = [reqs EXCEPT ![r].built = TRUE, ![r].tgid = g] BY DEF Merge
<1>4. wk' = [wk EXCEPT ![w] = [wk[w] EXCEPT !.pc = IF last THEN "put" ELSE "merge",
                                            !.pos = IF last THEN 1 ELSE wk[w].pos + 1,
                                            !.log = l]]
  BY DEF Merge, LogEntry
<1> HIDE DEF l
<1>5. /\ IsWorker(wk[w]) /\ wk[w].list \in Seq(Nat) /\ wk[w].pos \in Nat
      /\ wk[w].pos \in 1..Len(wk[w].list) /\ Todo(w) = 1..Len(wk[w].list)
      /\ wk[w].pos \in Todo(w)
  <2>1. IsWorker(wk[w]) BY <1>1 DEF WorkerType
  <2>2. wk[w].list \in Seq(Nat) /\ wk[w].pos \in Nat BY <2>1 DEF IsWorker
  <2>3. wk[w].pos \in 1..Len(wk[w].list) BY <1>1, <1>2 DEF WorkerPlaces
  <2>4. Todo(w) = 1..Len(wk[w].list) BY <1>2 DEF Todo, From
  <2> QED BY <2>1, <2>2, <2>3, <2>4
<1>6. r \in DOMAIN reqs /\ reqs[r].latest # 0 BY <1>1, <1>5 DEF WorkerPlaces
<1>r. r = wk[w].list[wk[w].pos] OBVIOUS
<1> HIDE DEF r
<1>7. /\ k \in Key /\ uk[k] \in UserKey /\ cols \in Seq(ColumnNode) /\ h \in DOMAIN cols
      /\ cols[h].id = reqs[r].latest
  BY <1>1, <1>6, AtFacts
<1>k. k = reqs[r].key OBVIOUS
<1> HIDE DEF h, k
<1>8. h \in 1..Len(cols)
  <2> HIDE DEF cols
  <2> QED BY <1>7
<1>9. /\ e \in (h + 1)..(Len(cols) + 1)
      /\ \A i \in (h + 1)..(e - 1) : i \in DOMAIN cols /\ ~StopsMerge(cols[i])
      /\ e <= Len(cols) => StopsMerge(cols[e])
  <2> HIDE DEF cols
  <2> QED BY <1>7, <1>8, MergeStops
<1> HIDE DEF e
<1>10. MergesAt(w, r, k, h, e) BY <1>2, <1>5, <1>6, <1>7, <1>9, <1>r, <1>k DEF MergesAt
<1>11. PICK d : Shrunk(cols, h, e, B, d)
  <2> HIDE DEF cols
  <2> QED BY <1>7, <1>8, <1>9, MergeShrinks
<1>12. B \in Seq(ColumnNode)
  <2> HIDE DEF cols
  <2> QED BY <1>7, <1>8, <1>9, AfterMergeFacts
<1> HIDE DEF B
<1> DEFINE u == [uk[k] EXCEPT !.cols = B]
<1>13. uk' = [uk EXCEPT ![k] = u]
  <2>1. uk \in [Key -> UserKey] BY <1>1 DEF UserType
  <2> QED BY <1>2, <1>7, <2>1
<1>14. u.cols = B /\ u.req = uk[k].req /\ u.last = uk[k].last BY <1>7, <1>12 DEF UserKey
<1> HIDE DEF u
<1>15. uk'[k] = u /\ \A j \in Key : j # k => uk'[j] = uk[j]
  <2>1. uk \in [Key -> UserKey] BY <1>1 DEF UserType
  <2> QED BY <1>7, <1>13, <2>1
<1>16. MergesColumns(k, h, e, d) BY <1>11, <1>14, <1>15 DEF MergesColumns
<1>17. MergesRequests(r)
  <2> DEFINE y == [reqs[r] EXCEPT !.built = TRUE]
             z == [y EXCEPT !.tgid = g]
  <2>1. IsRequest(reqs[r]) BY <1>1, <1>6 DEF UserType, AreRequests
  <2>2. /\ IsRequest(y) /\ y.key = reqs[r].key /\ y.latest = reqs[r].latest
        /\ y.trxns = reqs[r].trxns /\ y.built
    BY <2>1 DEF IsRequest
  <2>3. reqs = [v \in DOMAIN reqs |-> reqs[v]] BY <1>1 DEF UserType, AreRequests
  <2>4. reqs' = [reqs EXCEPT ![r] = z] BY <1>3, <1>6, <2>3
  <2> HIDE DEF y
  <2>5. z.key = reqs[r].key /\ z.latest = reqs[r].latest /\ z.trxns = reqs[r].trxns /\ z.built
    BY <2>2 DEF IsRequest
  <2> HIDE DEF z
  <2>6. DOMAIN reqs' = DOMAIN reqs /\ \A v \in DOMAIN reqs : reqs'[v] = IF v = r THEN z ELSE reqs[v]
    BY <2>3, <2>4
  <2> QED BY <2>5, <2>6 DEF MergesRequests
<1> DEFINE npc == IF last THEN "put" ELSE "merge"
           npos == IF last THEN 1 ELSE wk[w].pos + 1
           x1 == [wk[w] EXCEPT !.pc = npc]
           x2 == [x1 EXCEPT !.pos = npos]
           x == [x2 EXCEPT !.log = l]
<1>18. wk' = [wk EXCEPT ![w] = x] BY <1>4
<1>19. x.list = wk[w].list /\ x.pc = npc /\ x.pos = npos /\ x.log = l
  <2>1. npos \in Nat BY <1>5
  <2>2. npc \in {"put", "merge"} OBVIOUS
  <2> HIDE DEF npos, npc
  <2>3. IsWorker(x1) /\ x1.list = wk[w].list /\ x1.pc = npc BY <1>5, <2>2 DEF IsWorker
  <2> HIDE DEF x1
  <2>4. IsWorker(x2) /\ x2.list = wk[w].list /\ x2.pc = npc /\ x2.pos = npos BY <2>1, <2>3 DEF IsWorker
  <2> HIDE DEF x2
  <2> QED BY <2>4 DEF IsWorker
<1> HIDE DEF x
<1>20. wk'[w] = x /\ (\A v \in Worker : v # w => wk'[v] = wk[v]) BY <1>1, <1>18 DEF WorkerType
<1>21. \A v \in Worker : Todo(v)' = Todo(v)
  <2>1. \A v \in Worker : v # w => Todo(v)' = Todo(v) BY <1>20 DEF Todo, From
  <2>2. wk'[w].pc \in {"put", "merge"} /\ wk'[w].list = wk[w].list BY <1>19, <1>20
  <2>3. Todo(w)' = Todo(w) BY <1>5, <2>2 DEF Todo, From
  <2> QED BY <2>1, <2>3
<1>22. MergesWorker(w, l) BY <1>2, <1>5, <1>19, <1>20, <1>21 DEF MergesWorker
<1> QED BY <1>2, <1>10, <1>16, <1>17, <1>22 DEF l

\* The transactions that go into the log are those of the writes they are logged for.
LEMMA MergeLogs ==
  ASSUME UserType, ColumnsInv, NEW w \in Worker, NEW r, NEW k, NEW h, NEW e,
         MergesAt(w, r, k, h, e), TrxnsMatch(r, k)
  PROVE  LET l == LogEntry(r, uk[k].cols, h, e) IN
         \A i \in DOMAIN l : l[i].col \in DOMAIN hist /\ l[i].trxn = hist[l[i].col].tid
<1>1. /\ r \in DOMAIN reqs /\ k \in Key /\ reqs[r].latest # 0
      /\ h \in DOMAIN uk[k].cols /\ uk[k].cols[h].id = reqs[r].latest
      /\ e \in (h + 1)..(Len(uk[k].cols) + 1)
      /\ \A i \in (h + 1)..(e - 1) :
            i \in DOMAIN uk[k].cols /\ ~StopsMerge(uk[k].cols[i]) /\ ~Claimed(r, uk[k].cols[i].id)
  BY DEF MergesAt
<1>2. PICK A, T : A = uk[k].cols /\ T = reqs[r].trxns OBVIOUS
<1>3. /\ A \in Seq(ColumnNode) /\ Len(A) \in Nat /\ DOMAIN A = 1..Len(A)
      /\ \A i \in DOMAIN A : A[i].id \in DOMAIN hist
  BY <1>1, <1>2, ColumnListFacts
<1>4. T \in Seq(TrxnId) BY <1>1, <1>2 DEF UserType, AreRequests, IsRequest
<1>5. h \in Nat /\ 1 <= h /\ e \in Nat /\ h < e /\ e <= Len(A) + 1
  <2>1. h \in 1..Len(A) /\ e \in (h + 1)..(Len(A) + 1) BY <1>1, <1>2, <1>3
  <2> QED BY <1>3, <2>1
<1>6. ASSUME NEW j \in h..(e - 1)
      PROVE  /\ j \in DOMAIN A /\ (A[j].trxn <=> T # <<>>)
             /\ T # <<>> => j - h < Len(T) /\ hist[A[j].id].tid = T[Len(T) - (j - h)]
  <2>1. j \in h..Len(A) /\ j \in DOMAIN A BY <1>3, <1>5
  <2>2. \A i \in (h + 1)..j : i \in (h + 1)..(e - 1) BY <1>5
  <2>3. Joins(r, k, h, j) BY <1>1, <2>2 DEF Joins
  <2>4. Header(r) = reqs[r].latest BY <1>1 DEF Header
  <2>5. Matches(r, k, h, j) BY <1>1, <1>2, <2>1, <2>3, <2>4 DEF TrxnsMatch
  <2>6. Given(A[j].trxn, hist[A[j].id].tid, T, j - h) BY <1>2, <2>5 DEF Matches
  <2> QED BY <2>1, <2>6 DEF Given
<1> DEFINE R == {i \in DOMAIN A : i < h \/ i >= e \/ ~A[i].trxn}
           kept == DOMAIN A \ R
           ids == Keep(A, R)
           trxns == Popped(r, Len(ids))
           l == LogEntry(r, A, h, e)
<1>7. l = [i \in DOMAIN ids |-> [col |-> ids[i].id, trxn |-> trxns[i]]] BY DEF LogEntry
<1>8. \A i : i \in kept <=> i \in h..(e - 1) /\ A[i].trxn
  <2>1. \A i \in DOMAIN A : i \in Nat BY <1>3
  <2>2. \A i \in h..(e - 1) : i \in DOMAIN A BY <1>6
  <2> QED BY <1>5, <2>1, <2>2
<1> HIDE DEF R
<1>9. /\ ids \in Seq(ColumnNode) /\ Len(ids) = Cardinality(kept) /\ \E f : KeptList(A, R, ids, f)
  BY <1>3, KeepFacts
<1> HIDE DEF ids
<1>10. PICK f : KeptAt(A, R, f) /\ \A m \in DOMAIN ids : ids[m] = A[f[m]] BY <1>9 DEF KeptList
<1>11. \A i \in kept : f[OrderOf(kept, i)] = i BY <1>10 DEF KeptAt
<1> HIDE DEF kept
<1>12. ASSUME NEW m \in DOMAIN ids
       PROVE  ids[m].id \in DOMAIN hist /\ trxns[m] = hist[ids[m].id].tid
  <2>1. DOMAIN ids = 1..Len(ids) /\ Len(ids) \in Nat BY <1>9
  <2>2. CASE T = <<>>
    <3>1. \A i : i \notin kept BY <1>6, <1>8, <2>2
    <3>2. kept = {} BY <3>1
    <3>3. Len(ids) = 0 BY <1>9, <3>2, FS_EmptySet
    <3> QED BY <1>12, <2>1, <3>3
  <2>3. CASE T # <<>>
    <3>1. \A i : i \in kept <=> i \in h..(e - 1) BY <1>6, <1>8, <2>3
    <3>2. kept = h..(e - 1) BY <3>1
    <3>3. Cardinality(h..(e - 1)) = e - h
      <4>1. h \in Int /\ e - 1 \in Int /\ ~(h > e - 1) BY <1>5
      <4>2. Cardinality(h..(e - 1)) = (e - 1) - h + 1 BY <4>1, FS_Interval
      <4> QED BY <1>5, <4>2
    <3>4. m \in 1..(e - h) BY <1>9, <2>1, <3>2, <3>3
    <3>0. PICK i : i = m + h - 1 OBVIOUS
    <3>5. i \in h..(e - 1) /\ i \in Nat /\ m \in Nat /\ i - h + 1 = m BY <1>5, <3>0, <3>4
    <3>6. OrderOf(kept, i) = m
      <4>1. \A j : j \in {x \in kept : x <= i} <=> j \in h..i BY <1>5, <3>1, <3>5
      <4>2. {x \in kept : x <= i} = h..i BY <4>1
      <4>3. h \in Int /\ i \in Int /\ ~(h > i) BY <1>5, <3>5
      <4>4. Cardinality(h..i) = i - h + 1 BY <4>3, FS_Interval
      <4>5. OrderOf(kept, i) = i - h + 1 BY <4>2, <4>4 DEF OrderOf
      <4> QED BY <3>5, <4>5
    <3>7. i \in kept BY <3>1, <3>5
    <3>8. f[m] = i BY <1>11, <3>6, <3>7
    <3>9. ids[m] = A[i] BY <1>10, <3>8
    <3>10. trxns[m] = T[Len(T) + 1 - m] BY <1>2, <2>1 DEF Popped
    <3>11. hist[A[i].id].tid = T[Len(T) - (i - h)] /\ i \in DOMAIN A BY <1>6, <2>3, <3>5
    <3>12. Len(T) + 1 - m = Len(T) - (i - h)
      <4>1. Len(T) \in Nat BY <1>4
      <4> QED BY <1>5, <3>5, <4>1
    <3> QED BY <1>3, <3>9, <3>10, <3>11, <3>12
  <2> QED BY <2>2, <2>3
<1>13. \A i \in DOMAIN l : l[i].col \in DOMAIN hist /\ l[i].trxn = hist[l[i].col].tid
  <2> HIDE DEF trxns, l
  <2>1. DOMAIN l = DOMAIN ids /\ \A i \in DOMAIN l : l[i].col = ids[i].id /\ l[i].trxn = trxns[i]
    BY <1>7
  <2> QED BY <1>12, <2>1
<1> QED BY <1>2, <1>13

\* Below the columns that are merged, another one stands.
LEMMA MergeStack ==
  ASSUME UserType, ColumnsInv, OpenInv, ClosedInv, StackInv, NEW w \in Worker, NEW r, NEW k, NEW h, NEW e, NEW d,
         MergesAt(w, r, k, h, e), MergesColumns(k, h, e, d), MergesRequests(r), Marked(r)
  PROVE  StackInv'
<1>1. /\ r \in DOMAIN reqs /\ k = reqs[r].key /\ k \in Key /\ reqs[r].latest # 0
      /\ h \in DOMAIN uk[k].cols /\ uk[k].cols[h].id = reqs[r].latest
      /\ e \in (h + 1)..(Len(uk[k].cols) + 1)
      /\ e <= Len(uk[k].cols) => StopsMerge(uk[k].cols[e])
  BY DEF MergesAt
<1>2. /\ DOMAIN reqs' = DOMAIN reqs
      /\ \A x \in DOMAIN reqs : reqs'[x].latest = reqs[x].latest /\ (reqs'[x].built <=> (x = r \/ reqs[x].built))
  BY DEF MergesRequests
<1>3. /\ \A id : HasRequest(id) => HasRequest(id)'
      /\ \A c : c.id # reqs[r].latest /\ Unmerged(c) => Unmerged(c)'
  <2>1. \A id : HasRequest(id) => HasRequest(id)' BY <1>2 DEF HasRequest
  <2>2. \A c : c.id # reqs[r].latest /\ Unmerged(c) => Unmerged(c)' BY <1>1, <1>2 DEF Unmerged
  <2> QED BY <2>1, <2>2
<1>4. ASSUME NEW j \in Key, j # k, NEW i \in DOMAIN uk'[j].cols PROVE Stacked(j, i)'
  <2>1. PICK A : A = uk[j].cols /\ A = uk'[j].cols BY <1>4 DEF MergesColumns
  <2>2. Stacked(j, i) BY <1>4, <2>1 DEF StackInv
  <2>3. A[i].st = "pending" =>
           /\ A[i].split => HasRequest(A[i].id)
           /\ HasRequest(A[i].id) \/ i = 1 \/ A[i - 1].st = "pending" \/ Unmerged(A[i - 1])
    BY <2>1, <2>2 DEF Stacked
  <2>4. i # 1 /\ Unmerged(A[i - 1]) => Unmerged(A[i - 1])'
    <3>1. SUFFICES ASSUME i # 1 PROVE A[i - 1].id # reqs[r].latest BY <1>3
    <3>2. DOMAIN A = 1..Len(A) /\ Len(A) \in Nat BY <1>4, <2>1, ColumnListFacts
    <3>3. i - 1 \in DOMAIN A BY <1>4, <2>1, <3>1, <3>2
    <3>4. hist[A[i - 1].id].key = j /\ hist[reqs[r].latest].key = k BY <1>1, <1>4, <2>1, <3>3 DEF ColumnsInv
    <3> QED BY <1>4, <3>4
  <2>5. A[i].st = "pending" =>
           /\ A[i].split => HasRequest(A[i].id)'
           /\ HasRequest(A[i].id)' \/ i = 1 \/ A[i - 1].st = "pending" \/ Unmerged(A[i - 1])'
    BY <1>3, <2>3, <2>4
  <2> QED BY <2>1, <2>5 DEF Stacked
<1>5. ASSUME NEW m \in DOMAIN uk'[k].cols PROVE Stacked(k, m)'
  <2>1. PICK A, B : A = uk[k].cols /\ B = uk'[k].cols OBVIOUS
  <2>2. Shrunk(A, h, e, B, d) BY <2>1 DEF MergesColumns
  <2>3. /\ A \in Seq(ColumnNode) /\ Len(A) \in Nat /\ DOMAIN A = 1..Len(A)
        /\ \A i, j \in DOMAIN A : A[i].id = A[j].id => i = j
    BY <1>1, <2>1, ColumnListFacts
  <2>4. /\ h \in Nat /\ 1 <= h /\ h <= Len(A) /\ e \in Nat /\ h < e /\ e <= Len(A) + 1
        /\ d \in Nat /\ d <= e - 1 - h /\ Len(B) = Len(A) - d /\ DOMAIN B = 1..Len(B)
        /\ m \in Nat /\ 1 <= m /\ m <= Len(B) /\ Len(B) \in Nat
    <3>1. h \in 1..Len(A) /\ e \in (h + 1)..(Len(A) + 1) BY <1>1, <2>1, <2>3
    <3>2. d \in Nat /\ d <= e - 1 - h /\ Len(B) = Len(A) - d /\ DOMAIN B = 1..Len(B)
      BY <2>2 DEF Shrunk
    <3>3. Len(B) \in Nat BY <2>3, <3>1, <3>2
    <3> QED BY <1>5, <2>1, <2>3, <3>1, <3>2, <3>3
  <2>5. ShrunkAbove(A, h, B) /\ ShrunkBelow(A, h, e, B, d) BY <2>2 DEF Shrunk
  <2>6. ASSUME NEW i \in DOMAIN A, A[i].st = "pending"
        PROVE  /\ A[i].split => HasRequest(A[i].id)'
               /\ \/ HasRequest(A[i].id)' \/ i = 1 \/ A[i - 1].st = "pending"
                  \/ Unmerged(A[i - 1])
    <3>1. Stacked(k, i) BY <1>1, <2>1, <2>6 DEF StackInv
    <3>2. /\ A[i].split => HasRequest(A[i].id)
          /\ HasRequest(A[i].id) \/ i = 1 \/ A[i - 1].st = "pending" \/ Unmerged(A[i - 1])
      BY <2>1, <2>6, <3>1 DEF Stacked
    <3> QED BY <1>3, <3>2
  <2>7. A[h].st = "submitting" BY <1>1, <2>1 DEF Marked
  <2>8. SUFFICES ASSUME B[m].st = "pending"
                 PROVE  /\ B[m].split => HasRequest(B[m].id)'
                        /\ \/ HasRequest(B[m].id)' \/ m = 1
                           \/ B[m - 1].st = "pending" \/ Unmerged(B[m - 1])'
    BY <2>1 DEF Stacked
  <2>9. CASE m < h
    <3>1. B[m] = A[m] /\ m \in DOMAIN A /\ (m # 1 => B[m - 1] = A[m - 1] /\ m - 1 \in DOMAIN A)
      <4>1. m \in 1..(h - 1) /\ (m # 1 => m - 1 \in 1..(h - 1)) BY <2>4, <2>9
      <4>2. m \in DOMAIN A /\ (m # 1 => m - 1 \in DOMAIN A) BY <2>3, <2>4, <4>1
      <4> QED BY <2>5, <4>1, <4>2 DEF ShrunkAbove
    <3>2. m # 1 => A[m - 1].id # A[h].id
      <4>1. h \in DOMAIN A /\ m - 1 # h BY <2>3, <2>4, <2>9
      <4> QED BY <2>3, <3>1, <4>1
    <3>3. m # 1 /\ Unmerged(A[m - 1]) => Unmerged(A[m - 1])' BY <1>1, <1>3, <2>1, <3>2
    <3> QED BY <2>6, <2>8, <3>1, <3>3
  <2>10. CASE m = h
    <3>1. B[h].st = "submitting" BY <2>5, <2>7 DEF ShrunkAbove
    <3> QED BY <2>8, <2>10, <3>1
  <2>11. CASE h < m /\ m + d < e
    <3>1. m \in (h + 1)..(e - 1 - d) BY <2>4, <2>11
    <3>2. B[m].st = "merged" BY <1>5, <2>1, <2>5, <3>1 DEF ShrunkBelow
    <3> QED BY <2>8, <3>2
  <2>12. CASE e <= m + d
    <3>1. PICK i : i = m + d OBVIOUS
    <3>2. i \in e..Len(A) /\ i - d = m /\ i \in DOMAIN A /\ i \in Nat BY <2>3, <2>4, <2>12, <3>1
    <3>3. /\ B[m].id = A[i].id /\ B[m].st = A[i].st
          /\ i = e => ~B[m].split
          /\ i # e => B[m] = A[i]
      BY <2>5, <3>2 DEF ShrunkBelow
    <3>4. A[i].st = "pending" BY <2>8, <3>3
    <3>5. CASE i = e
      <4>1. StopsMerge(A[e]) BY <1>1, <2>1, <2>4, <3>2, <3>5
      <4>2. A[e].split BY <3>4, <3>5, <4>1 DEF StopsMerge
      <4> QED BY <2>6, <3>2, <3>3, <3>4, <3>5, <4>2
    <3>6. CASE i # e
      <4>1. i - 1 \in e..Len(A) /\ (i - 1) - d = m - 1 /\ i - 1 \in DOMAIN A /\ i # 1 /\ i - 1 # h
        BY <2>3, <2>4, <3>1, <3>2, <3>6
      <4>2. B[m - 1].id = A[i - 1].id /\ B[m - 1].st = A[i - 1].st BY <2>5, <4>1 DEF ShrunkBelow
      <4>3. A[i - 1].id # A[h].id BY <1>1, <2>1, <2>3, <4>1
      <4>4. Unmerged(A[i - 1]) => Unmerged(A[i - 1])' BY <1>1, <1>3, <2>1, <4>3
      <4>5. Unmerged(A[i - 1])' => Unmerged(B[m - 1])' BY <4>2 DEF Unmerged
      <4> QED BY <2>6, <3>2, <3>3, <3>4, <3>6, <4>1, <4>2, <4>4, <4>5
    <3> QED BY <3>5, <3>6
  <2> QED BY <2>4, <2>9, <2>10, <2>11, <2>12
<1> QED BY <1>4, <1>5 DEF StackInv

\* The column a request submits waits for a worker, or for its block.
LEMMA HeaderWaits ==
  ASSUME UserType', ColumnsInv', OpenInv', ClosedInv', NEW y \in DOMAIN reqs', NEW k, k = reqs'[y].key,
         NEW m \in DOMAIN uk'[k].cols, uk'[k].cols[m].id = Header(y)'
  PROVE  uk'[k].cols[m].st \in {"pending", "submitting"}
<1>1. PICK B : B = uk'[k].cols OBVIOUS
<1>2. k \in Key BY DEF UserType, AreRequests, IsRequest
<1>3. B \in Seq(ColumnNode) BY <1>1, <1>2 DEF UserType, UserKey
<1>4. \A i, j \in DOMAIN B : i < j => B[j].id < B[i].id BY <1>1, <1>2 DEF ColumnsInv
<1>5. \A i \in DOMAIN B : B[i].id \in Nat /\ i \in Nat
  <2>1. \A i \in DOMAIN B : i \in Nat /\ B[i] \in ColumnNode BY <1>3
  <2> QED BY <2>1 DEF ColumnNode
<1>6. \A i, j \in DOMAIN B : B[i].id = B[j].id => i = j BY <1>4, <1>5
<1>7. CASE reqs'[y].latest = 0
  <2>1. Header(y)' = B[1].id BY <1>1, <1>7 DEF Header, Newest
  <2>2. B # <<>> /\ B[1].st = "pending" BY <1>1, <1>7 DEF OpenInv, NoColumns, Newest
  <2>3. 1 \in DOMAIN B BY <1>3, <2>2
  <2>4. m = 1 BY <1>1, <1>6, <2>1, <2>3
  <2> QED BY <1>1, <2>2, <2>4
<1>8. CASE reqs'[y].latest # 0
  <2>1. Header(y)' = reqs'[y].latest BY <1>8 DEF Header
  <2>2. PICK i \in DOMAIN B : B[i].id = reqs'[y].latest /\ B[i].st \in {"pending", "submitting"}
    BY <1>1, <1>8 DEF ClosedInv
  <2>3. m = i BY <1>1, <1>6, <2>1, <2>2
  <2> QED BY <1>1, <2>2, <2>3
<1> QED BY <1>7, <1>8

\* The requests' columns are not merged, and stay where they are or move up.
LEMMA MergeHeads ==
  ASSUME UserType, ColumnsInv, OpenInv, ClosedInv, UserType', ColumnsInv', OpenInv', ClosedInv',
         NEW w \in Worker, NEW r, NEW k, NEW h, NEW e, NEW d,
         MergesAt(w, r, k, h, e), MergesColumns(k, h, e, d), MergesRequests(r),
         NEW y \in DOMAIN reqs
  PROVE  /\ Header(y)' = Header(y)
         /\ reqs[y].key = k => \A m \in DOMAIN uk'[k].cols : uk'[k].cols[m].id = Header(y) =>
               m <= h \/ e <= m + d
<1>1. /\ r \in DOMAIN reqs /\ k = reqs[r].key /\ k \in Key
      /\ h \in DOMAIN uk[k].cols /\ e \in (h + 1)..(Len(uk[k].cols) + 1)
  BY DEF MergesAt
<1>2. /\ y \in DOMAIN reqs' /\ reqs'[y].latest = reqs[y].latest /\ reqs'[y].key = reqs[y].key
  BY DEF MergesRequests
<1>3. PICK A, B : A = uk[k].cols /\ B = uk'[k].cols OBVIOUS
<1>4. Shrunk(A, h, e, B, d) BY <1>3 DEF MergesColumns
<1>5. Len(A) \in Nat /\ DOMAIN A = 1..Len(A) BY <1>1, <1>3, ColumnListFacts
<1>6. h \in Nat /\ 1 <= h /\ e \in Nat /\ d \in Nat /\ DOMAIN B = 1..Len(B)
  <2>1. h \in 1..Len(A) /\ e \in (h + 1)..(Len(A) + 1) BY <1>1, <1>3, <1>5
  <2>2. d \in Nat /\ DOMAIN B = 1..Len(B) BY <1>4 DEF Shrunk
  <2> QED BY <1>5, <2>1, <2>2
<1>7. Header(y)' = Header(y)
  <2>1. CASE reqs[y].latest # 0 BY <1>2, <2>1 DEF Header
  <2>2. CASE reqs[y].latest = 0
    <3>1. PICK j : j = reqs[y].key /\ j \in Key BY DEF UserType, AreRequests, IsRequest
    <3>2. uk'[j].cols[1].id = uk[j].cols[1].id
      <4>1. CASE j # k BY <3>1, <4>1 DEF MergesColumns
      <4>2. CASE j = k
        <5>1. ShrunkAbove(A, h, B) BY <1>4 DEF Shrunk
        <5>2. 1 = h \/ 1 \in 1..(h - 1) BY <1>6
        <5>3. B[1].id = A[1].id BY <5>1, <5>2 DEF ShrunkAbove
        <5> QED BY <1>3, <4>2, <5>3
      <4> QED BY <4>1, <4>2
    <3> QED BY <1>2, <2>2, <3>1, <3>2 DEF Header, Newest
  <2> QED BY <2>1, <2>2
<1>8. ASSUME reqs[y].key = k, NEW m \in DOMAIN B, B[m].id = Header(y), ~(m <= h \/ e <= m + d)
      PROVE  FALSE
  <2>1. B[m].st \in {"pending", "submitting"} BY <1>2, <1>3, <1>7, <1>8, HeaderWaits
  <2>2. m \in Nat
    <3>1. Len(B) = Len(A) - d BY <1>4 DEF Shrunk
    <3> QED BY <1>5, <1>6, <1>8, <3>1
  <2>3. m \in (h + 1)..(e - 1 - d) BY <1>6, <1>8, <2>2
  <2>4. ShrunkBelow(A, h, e, B, d) BY <1>4 DEF Shrunk
  <2>5. B[m].st = "merged" BY <1>8, <2>3, <2>4 DEF ShrunkBelow
  <2> QED BY <2>1, <2>5
<1> QED BY <1>3, <1>7, <1>8

\* The columns that other requests will merge stay.
LEMMA MergeMatch ==
  ASSUME UserType, ColumnsInv, OpenInv, ClosedInv, UserType', ColumnsInv', OpenInv', ClosedInv',
         MatchInv, hist' = hist, NEW w \in Worker, NEW r, NEW k, NEW h, NEW e, NEW d,
         MergesAt(w, r, k, h, e), MergesColumns(k, h, e, d), MergesRequests(r)
  PROVE  MatchInv'
<1> SUFFICES ASSUME NEW x \in DOMAIN reqs', ~reqs'[x].built, NEW kx, kx = reqs'[x].key
             PROVE  TrxnsMatch(x, kx)'
  BY DEF MatchInv
<1>1. /\ r \in DOMAIN reqs /\ k = reqs[r].key /\ k \in Key /\ reqs[r].latest # 0
      /\ h \in DOMAIN uk[k].cols /\ uk[k].cols[h].id = reqs[r].latest
      /\ e \in (h + 1)..(Len(uk[k].cols) + 1)
  BY DEF MergesAt
<1>2. /\ DOMAIN reqs' = DOMAIN reqs
      /\ \A y \in DOMAIN reqs : reqs'[y].latest = reqs[y].latest /\ reqs'[y].key = reqs[y].key
      /\ x # r /\ ~reqs[x].built /\ reqs'[x].trxns = reqs[x].trxns
  BY DEF MergesRequests
<1>3. x \in DOMAIN reqs /\ kx = reqs[x].key BY <1>2
<1>4. kx \in Key BY <1>3 DEF UserType, AreRequests, IsRequest
<1>5. TrxnsMatch(x, kx) BY <1>2, <1>3 DEF MatchInv
<1>6. /\ Header(x)' = Header(x)
      /\ kx = k => \A m \in DOMAIN uk'[k].cols : uk'[k].cols[m].id = Header(x) => m <= h \/ e <= m + d
  BY <1>3, MergeHeads
<1>7. \A id : Claimed(x, id)' <=> Claimed(x, id) BY <1>2 DEF Claimed
<1>8. \A i \in DOMAIN hist : hist'[i].tid = hist[i].tid OBVIOUS
<1>9. CASE kx # k
  <2>1. uk'[kx].cols = uk[kx].cols BY <1>4, <1>9 DEF MergesColumns
  <2> QED BY <1>2, <1>4, <1>5, <1>6, <1>7, <1>8, <2>1, MatchKept
<1>10. CASE kx = k
  <2>1. PICK A, B : A = uk[k].cols /\ B = uk'[k].cols OBVIOUS
  <2>2. Shrunk(A, h, e, B, d) BY <2>1 DEF MergesColumns
  <2>3. Len(A) \in Nat /\ DOMAIN A = 1..Len(A) BY <1>1, <2>1, ColumnListFacts
  <2>4. /\ h \in Nat /\ 1 <= h /\ h <= Len(A) /\ e \in Nat /\ h < e /\ e <= Len(A) + 1
        /\ d \in Nat /\ d <= e - 1 - h /\ Len(B) = Len(A) - d /\ DOMAIN B = 1..Len(B) /\ Len(B) \in Nat
    <3>1. h \in 1..Len(A) /\ e \in (h + 1)..(Len(A) + 1) BY <1>1, <2>1, <2>3
    <3>2. d \in Nat /\ d <= e - 1 - h /\ Len(B) = Len(A) - d /\ DOMAIN B = 1..Len(B)
      BY <2>2 DEF Shrunk
    <3>3. Len(B) \in Nat BY <2>3, <3>1, <3>2
    <3> QED BY <2>3, <3>1, <3>2, <3>3
  <2>5. ShrunkAbove(A, h, B) /\ ShrunkBelow(A, h, e, B, d) BY <2>2 DEF Shrunk
  <2>6. ASSUME NEW n \in DOMAIN B, B[n].id = Header(x), NEW j \in n..Len(B), Joins(x, k, n, j)'
        PROVE  Comes(x, k, n, j)
    <3>1. \A i \in (n + 1)..j : ~StopsMerge(B[i]) /\ ~Claimed(x, B[i].id)
      BY <1>7, <2>1, <2>6 DEF Joins, StopsMerge
    <3>2. n \in Nat /\ 1 <= n /\ j \in Nat /\ n <= j /\ j <= Len(B) /\ (n <= h \/ e <= n + d)
      BY <1>6, <1>10, <2>1, <2>4, <2>6
    <3>3. n # h
      <4>1. SUFFICES ASSUME n = h PROVE FALSE OBVIOUS
      <4>2. B[h].id = A[h].id BY <2>5 DEF ShrunkAbove
      <4>3. Header(r) = Header(x) BY <1>1, <2>1, <2>6, <4>1, <4>2 DEF Header
      <4> QED BY <1>1, <1>2, <1>3, <4>3, HeaderUnique
    <3>4. CASE n < h
      <4>1. j < h
        <5>1. SUFFICES ASSUME ~(j < h) PROVE FALSE OBVIOUS
        <5>2. h \in (n + 1)..j BY <2>4, <3>2, <3>4, <5>1
        <5>3. ~Claimed(x, B[h].id) BY <3>1, <5>2
        <5>4. B[h].id = reqs[r].latest BY <1>1, <2>1, <2>5 DEF ShrunkAbove
        <5> QED BY <1>1, <1>2, <5>3, <5>4 DEF Claimed
      <4>2. \A i \in 1..(h - 1) : B[i] = A[i] BY <2>5 DEF ShrunkAbove
      <4>3. \A i \in n..j : i \in 1..(h - 1) BY <2>4, <3>2, <4>1
      <4>4. \A i \in (n + 1)..j : i \in n..j BY <3>2
      <4>5. n \in n..j /\ j \in n..j /\ j \in n..Len(A) /\ n \in DOMAIN A BY <2>3, <2>4, <3>2, <4>1
      <4>6. Joins(x, k, n, j) BY <2>1, <3>1, <4>2, <4>3, <4>4 DEF Joins
      <4>7. B[n] = A[n] /\ B[j] = A[j] BY <4>2, <4>3, <4>5
      <4> QED BY <2>1, <2>6, <4>5, <4>6, <4>7 DEF Comes
    <3>5. CASE e <= n + d
      <4>1. PICK g, i : g = n + d /\ i = j + d OBVIOUS
      <4>2. /\ g \in Nat /\ i \in Nat /\ g \in DOMAIN A /\ i \in g..Len(A) /\ i - g = j - n
            /\ g \in e..Len(A) /\ i \in e..Len(A) /\ g - d = n /\ i - d = j
        BY <2>3, <2>4, <3>2, <3>5, <4>1
      <4>3. A[g].id = Header(x) /\ A[i].id = B[j].id /\ A[i].trxn = B[j].trxn
        BY <2>5, <2>6, <4>2 DEF ShrunkBelow
      <4>4. ASSUME NEW a \in (g + 1)..i PROVE ~StopsMerge(A[a]) /\ ~Claimed(x, A[a].id)
        <5>0. a \in Int /\ n + d + 1 <= a /\ a <= j + d BY <2>4, <3>2, <4>1, <4>4
        <5>1. a \in e..Len(A) /\ a # e /\ a - d \in (n + 1)..j BY <2>3, <2>4, <3>2, <3>5, <5>0
        <5>2. B[a - d] = A[a] BY <2>5, <5>1 DEF ShrunkBelow
        <5> QED BY <3>1, <5>1, <5>2
      <4>5. Joins(x, k, g, i) BY <2>1, <4>4 DEF Joins
      <4> QED BY <2>1, <4>2, <4>3, <4>5 DEF Comes
    <3> QED BY <2>4, <3>2, <3>3, <3>4, <3>5
  <2> QED BY <1>2, <1>4, <1>5, <1>6, <1>8, <1>10, <2>1, <2>6, MatchFrom
<1> QED BY <1>9, <1>10

\* The step as a whole.
LEMMA MergeMerge ==
  ASSUME ColumnInv, ColumnInv', MergeInv, NEW w \in Worker, Merge(w)
  PROVE  MergeInv'
<1>1. /\ UserType /\ WorkerType /\ ColumnsInv /\ Places /\ WorkerPlaces /\ OpenInv /\ ClosedInv
      /\ UserType' /\ ColumnsInv' /\ OpenInv' /\ ClosedInv'
      /\ StackInv /\ MatchInv /\ LastInv /\ GroupsInv /\ BuiltInv /\ TakenInv /\ LoggedInv
  BY DEF ColumnInv, MergeInv, ListsInv
<1>2. UNCHANGED <<pending, wr, hist>> BY MergeIs
<1>3. PICK r, k, h, e, d :
        /\ MergesAt(w, r, k, h, e) /\ MergesColumns(k, h, e, d) /\ MergesRequests(r)
        /\ MergesWorker(w, With(wk[w].log, r, LogEntry(r, uk[k].cols, h, e)))
  BY MergeIs
<1>4. PICK l : l = LogEntry(r, uk[k].cols, h, e) OBVIOUS
<1>5. /\ wk[w].pc = "merge" /\ wk[w].pos \in Nat
      /\ \/ wk'[w].pc = "put" /\ wk[w].pos = Len(wk[w].list)
         \/ wk'[w].pc = "merge" /\ wk'[w].pos = wk[w].pos + 1
      /\ wk'[w].list = wk[w].list /\ wk'[w].log = With(wk[w].log, r, l)
      /\ \A v \in Worker : v # w => wk'[v] = wk[v]
      /\ \A v \in Worker : Todo(v)' = Todo(v)
  BY <1>3, <1>4 DEF MergesWorker
<1>6. /\ wk[w].pos \in Todo(w) /\ r = wk[w].list[wk[w].pos]
      /\ r \in DOMAIN reqs /\ k = reqs[r].key /\ k \in Key /\ reqs[r].latest # 0
      /\ h \in DOMAIN uk[k].cols /\ uk[k].cols[h].id = reqs[r].latest
      /\ e \in (h + 1)..(Len(uk[k].cols) + 1)
  BY <1>3 DEF MergesAt
<1>7. /\ DOMAIN reqs' = DOMAIN reqs
      /\ \A x \in DOMAIN reqs :
            /\ reqs'[x].key = reqs[x].key /\ reqs'[x].latest = reqs[x].latest
            /\ reqs'[x].built <=> (x = r \/ reqs[x].built)
  BY <1>3 DEF MergesRequests
<1>p. /\ \A i \in DOMAIN pending : pending[i] # r
      /\ \A p \in Writer : wr[p].rq # r
      /\ \A v \in Worker : \A i \in Todo(v) : wk[v].list[i] = r => v = w /\ i = wk[w].pos
  <2>1. PICK n : n = wk[w].pos OBVIOUS
  <2>2. n \in Todo(w) /\ r = wk[w].list[n] BY <1>6, <2>1
  <2>3. /\ \A j \in DOMAIN pending : pending[j] # wk[w].list[n]
        /\ \A p \in Writer : wr[p].rq # wk[w].list[n]
    BY <1>1, <2>2 DEF WorkerPlaces
  <2>4. \A v \in Worker : \A i \in Todo(v), j \in Todo(w) :
           wk[v].list[i] = wk[w].list[j] => v = w /\ i = j
    BY <1>1 DEF WorkerPlaces
  <2> QED BY <2>1, <2>2, <2>3, <2>4
<1>8. ~reqs[r].built
  <2>1. ~(wk[w].pos < wk[w].pos) BY <1>5
  <2> QED BY <1>1, <1>5, <1>6, <2>1 DEF BuiltInv
<1>9. StackInv'
  <2>1. Marked(r) BY <1>1, <1>6 DEF TakenInv
  <2> QED BY <1>1, <1>3, <2>1, MergeStack
<1>10. MatchInv' BY <1>1, <1>2, <1>3, MergeMatch
<1>11. LastInv'
  <2>1. ASSUME NEW j \in Key, uk'[j].req # 0
        PROVE  uk'[j].last = hist'[uk'[j].cols[1].id].tid.g
    <3>1. uk'[j].req = uk[j].req /\ uk'[j].last = uk[j].last BY <1>3, <2>1 DEF MergesColumns
    <3>2. uk'[j].cols[1].id = uk[j].cols[1].id
      <4>1. CASE j # k BY <1>3, <4>1 DEF MergesColumns
      <4>2. CASE j = k
        <5>1. ShrunkAbove(uk[k].cols, h, uk'[k].cols) BY <1>3 DEF MergesColumns, Shrunk
        <5>2. h \in Nat /\ 1 <= h
          <6>1. Len(uk[k].cols) \in Nat /\ DOMAIN uk[k].cols = 1..Len(uk[k].cols)
            BY <1>1, <1>6, ColumnListFacts
          <6> QED BY <1>6, <6>1
        <5>3. 1 = h \/ 1 \in 1..(h - 1) BY <5>2
        <5> QED BY <4>2, <5>1, <5>3 DEF ShrunkAbove
      <4> QED BY <4>1, <4>2
    <3>3. uk[j].last = hist[uk[j].cols[1].id].tid.g BY <1>1, <2>1, <3>1 DEF LastInv, Newest
    <3> QED BY <1>2, <3>1, <3>2, <3>3
  <2> QED BY <2>1 DEF LastInv, Newest
<1>12. GroupsInv' BY <1>1, <1>2 DEF GroupsInv
<1>13. BuiltInv'
  <2>1. \A i \in DOMAIN pending' : ~reqs'[pending'[i]].built
    <3>1. \A i \in DOMAIN pending : pending[i] \in DOMAIN reqs /\ ~reqs[pending[i]].built
      BY <1>1 DEF Places, BuiltInv
    <3> QED BY <1>2, <1>7, <1>p, <3>1
  <2>2. \A p \in Writer : wr'[p].pc # "store" => ~reqs'[wr'[p].rq].built
    <3>1. \A p \in Writer : wr[p].pc # "store" => wr[p].rq \in DOMAIN reqs /\ ~reqs[wr[p].rq].built
      BY <1>1 DEF Places, BuiltInv
    <3> QED BY <1>2, <1>7, <1>p, <3>1
  <2>3. ASSUME NEW v \in Worker, NEW i \in Todo(v)'
        PROVE  reqs'[wk'[v].list[i]].built <=> (wk'[v].pc # "merge" \/ i < wk'[v].pos)
    <3>1. PICK y : y = wk[v].list[i] OBVIOUS
    <3>2. i \in Todo(v) BY <1>5, <2>3
    <3>3. y \in DOMAIN reqs BY <1>1, <3>1, <3>2 DEF WorkerPlaces
    <3>4. reqs[y].built <=> (wk[v].pc # "merge" \/ i < wk[v].pos)
      BY <1>1, <3>1, <3>2 DEF BuiltInv
    <3>5. reqs'[y].built <=> (y = r \/ reqs[y].built) BY <1>7, <3>3
    <3>6. y = r => v = w /\ i = wk[w].pos BY <1>p, <3>1, <3>2
    <3>7. CASE v # w BY <1>5, <3>1, <3>4, <3>5, <3>6, <3>7
    <3>8. CASE v = w
      <4>1. y = r <=> i = wk[w].pos BY <1>6, <3>1, <3>6, <3>8
      <4>2. i \in 1..Len(wk[w].list) /\ Len(wk[w].list) \in Nat
        <5>1. Todo(w) = 1..Len(wk[w].list) BY <1>5 DEF Todo, From
        <5>2. wk[w].list \in Seq(Nat) BY <1>1 DEF WorkerType, IsWorker
        <5> QED BY <3>2, <3>8, <5>1, <5>2
      <4>3. reqs'[y].built <=> i <= wk[w].pos BY <1>5, <3>4, <3>5, <3>8, <4>1, <4>2
      <4>4. wk'[v].list[i] = y BY <1>5, <3>1, <3>8
      <4>5. CASE wk'[w].pc = "put" /\ wk[w].pos = Len(wk[w].list) BY <3>8, <4>2, <4>3, <4>4, <4>5
      <4>6. CASE wk'[w].pc = "merge" /\ wk'[w].pos = wk[w].pos + 1
        BY <1>5, <3>8, <4>2, <4>3, <4>4, <4>6
      <4> QED BY <1>5, <4>5, <4>6
    <3> QED BY <3>7, <3>8
  <2> QED BY <2>1, <2>2, <2>3 DEF BuiltInv
<1>14. TakenInv'
  <2>1. ASSUME NEW v \in Worker, NEW i \in Todo(v)', NEW y, y = wk'[v].list[i] PROVE Marked(y)'
    <3>1. i \in Todo(v) /\ y = wk[v].list[i] BY <1>5, <2>1
    <3>2. y \in DOMAIN reqs /\ reqs[y].latest # 0 BY <1>1, <3>1 DEF WorkerPlaces
    <3>3. Marked(y) BY <1>1, <3>1 DEF TakenInv
    <3>4. PICK j : j = reqs[y].key /\ j \in Key BY <1>1, <3>2 DEF UserType, AreRequests, IsRequest
    <3>5. reqs'[y].key = j /\ reqs'[y].latest = reqs[y].latest BY <1>7, <3>2, <3>4
    <3>6. ASSUME NEW m \in DOMAIN uk'[j].cols, uk'[j].cols[m].id = reqs[y].latest
          PROVE  uk'[j].cols[m].st = "submitting"
      <4>1. CASE j # k
        <5>1. uk'[j].cols = uk[j].cols BY <1>3, <3>4, <4>1 DEF MergesColumns
        <5> QED BY <3>3, <3>4, <3>6, <5>1 DEF Marked
      <4>2. CASE j = k
        <5>1. PICK A, B : A = uk[k].cols /\ B = uk'[k].cols OBVIOUS
        <5>2. Shrunk(A, h, e, B, d) BY <1>3, <5>1 DEF MergesColumns
        <5>3. Len(A) \in Nat /\ DOMAIN A = 1..Len(A) BY <1>1, <1>6, <5>1, ColumnListFacts
        <5>4. /\ h \in Nat /\ 1 <= h /\ h <= Len(A) /\ e \in Nat /\ d \in Nat /\ h < e
              /\ Len(B) = Len(A) - d /\ DOMAIN B = 1..Len(B)
          <6>1. h \in 1..Len(A) /\ e \in (h + 1)..(Len(A) + 1) BY <1>6, <5>1, <5>3
          <6>2. d \in Nat /\ Len(B) = Len(A) - d /\ DOMAIN B = 1..Len(B) BY <5>2 DEF Shrunk
          <6> QED BY <5>3, <6>1, <6>2
        <5>5. m \in Nat /\ 1 <= m /\ m + d <= Len(A) BY <3>6, <4>2, <5>1, <5>3, <5>4
        <5>6. Header(y) = reqs[y].latest BY <3>2 DEF Header
        <5>7. m <= h \/ e <= m + d
          <6>1. reqs[y].key = k => \A a \in DOMAIN uk'[k].cols : uk'[k].cols[a].id = Header(y) =>
                   a <= h \/ e <= a + d
            BY <1>1, <1>3, <3>2, MergeHeads
          <6> QED BY <3>4, <3>6, <4>2, <5>6, <6>1
        <5>8. \A g \in DOMAIN A : A[g].id = reqs[y].latest => A[g].st = "submitting"
          BY <3>3, <3>4, <4>2, <5>1 DEF Marked
        <5>9. ShrunkAbove(A, h, B) /\ ShrunkBelow(A, h, e, B, d) BY <5>2 DEF Shrunk
        <5>10. CASE m < h
          <6>1. m \in 1..(h - 1) /\ m \in DOMAIN A BY <5>3, <5>4, <5>5, <5>10
          <6>2. B[m] = A[m] BY <5>9, <6>1 DEF ShrunkAbove
          <6> QED BY <3>6, <4>2, <5>1, <5>8, <6>1, <6>2
        <5>11. CASE m = h
          <6>1. h \in DOMAIN A BY <5>3, <5>4
          <6>2. B[h].id = A[h].id /\ B[h].st = A[h].st BY <5>9 DEF ShrunkAbove
          <6> QED BY <3>6, <4>2, <5>1, <5>8, <5>11, <6>1, <6>2
        <5>12. CASE e <= m + d
          <6>1. PICK g : g = m + d OBVIOUS
          <6>2. g \in e..Len(A) /\ g - d = m /\ g \in DOMAIN A BY <5>3, <5>4, <5>5, <5>12, <6>1
          <6>3. B[m].id = A[g].id /\ B[m].st = A[g].st BY <5>9, <6>2 DEF ShrunkBelow
          <6> QED BY <3>6, <4>2, <5>1, <5>8, <6>2, <6>3
        <5> QED BY <5>4, <5>5, <5>7, <5>10, <5>11, <5>12
      <4> QED BY <4>1, <4>2
    <3> QED BY <3>5, <3>6 DEF Marked
  <2> QED BY <2>1 DEF TakenInv
<1>15. LoggedInv'
  <2>1. TrxnsMatch(r, k) BY <1>1, <1>6, <1>8 DEF MatchInv
  <2>2. \A i \in DOMAIN l : l[i].col \in DOMAIN hist /\ l[i].trxn = hist[l[i].col].tid
    BY <1>1, <1>3, <1>4, <2>1, MergeLogs
  <2>3. \A f : IsLogged(f) => IsLogged(f)' BY <1>2 DEF IsLogged
  <2>4. ASSUME NEW v \in Worker, NEW f, f = wk'[v].log PROVE IsLogged(f)'
    <3>1. CASE v = w
      <4>1. PICK f0 : f0 = wk[w].log OBVIOUS
      <4>2. IsLogged(f0) BY <1>1, <4>1 DEF LoggedInv
      <4>3. f = With(f0, r, l) BY <1>5, <2>4, <3>1, <4>1
      <4>4. DOMAIN f = DOMAIN f0 \cup {r} /\ \A y \in DOMAIN f : f[y] = IF y = r THEN l ELSE f0[y]
        BY <4>3 DEF With
      <4>5. IsLogged(f) BY <2>2, <4>2, <4>4 DEF IsLogged
      <4> QED BY <2>3, <4>5
    <3>2. CASE v # w
      <4>1. IsLogged(f) BY <1>1, <1>5, <2>4, <3>2 DEF LoggedInv
      <4> QED BY <2>3, <4>1
    <3> QED BY <3>1, <3>2
  <2> QED BY <2>4 DEF LoggedInv
<1> QED BY <1>9, <1>10, <1>11, <1>12, <1>13, <1>14, <1>15 DEF MergeInv, ListsInv

-----------------------------------------------------------------------------
(* A column is updated. *)

\* Column h of key k is updated for request r of worker w.
UpdatesAt(w, r, k, h) ==
    /\ wk[w].pos \in Todo(w) /\ r = wk[w].list[wk[w].pos] /\ wk[w].pc # "merge"
    /\ r \in DOMAIN reqs /\ k = reqs[r].key /\ k \in Key /\ reqs[r].latest # 0
    /\ h \in DOMAIN uk[k].cols /\ uk[k].cols[h].id = reqs[r].latest

\* The columns of the keys, when the one at h of key k gets its block.
UpdatesColumns(k, h) ==
    /\ Len(uk'[k].cols) = Len(uk[k].cols) /\ DOMAIN uk'[k].cols = DOMAIN uk[k].cols
    /\ \A i \in DOMAIN uk[k].cols :
          /\ uk'[k].cols[i].id = uk[k].cols[i].id /\ uk'[k].cols[i].trxn = uk[k].cols[i].trxn
          /\ i # h => uk'[k].cols[i] = uk[k].cols[i]
    /\ uk'[k].cols[h].st = "stored"
    /\ \A j \in Key : /\ j # k => uk'[j].cols = uk[j].cols
                      /\ uk'[j].req = uk[j].req /\ uk'[j].last = uk[j].last

\* The requests, when request r is finished.
UpdatesRequests(r) ==
    DOMAIN reqs' = DOMAIN reqs \ {r} /\ \A x \in DOMAIN reqs' : reqs'[x] = reqs[x]

\* The workers, when worker w goes on.
UpdatesWorker(w) ==
    /\ wk'[w].log \in {Empty, wk[w].log} /\ wk'[w].pc # "merge"
    /\ \A v \in Worker : v # w => wk'[v] = wk[v]
    /\ \A v \in Worker : \A i \in Todo(v)' :
          i \in Todo(v) /\ wk'[v].list[i] = wk[v].list[i] /\ ~(v = w /\ i = wk[w].pos)

\* That is what Update does.
LEMMA UpdateIs ==
  ASSUME ColumnInv, NEW w \in Worker, Update(w)
  PROVE  /\ UNCHANGED <<pending, wr, hist>>
         /\ \E r, k, h : /\ UpdatesAt(w, r, k, h) /\ UpdatesColumns(k, h) /\ UpdatesRequests(r)
                         /\ UpdatesWorker(w)
<1> DEFINE r == wk[w].list[wk[w].pos]
           k == reqs[r].key
           cols == uk[k].cols
           h == At(k, reqs[r].latest)
           c == [cols[h] EXCEPT !.st = "stored", !.ikey = wk[w].ikey, !.kbm = "log"]
           last == wk[w].pos = Len(wk[w].list)
           x == IF last THEN IdleWorker ELSE [wk[w] EXCEPT !.pc = "submit", !.pos = @ + 1]
<1>1. /\ UserType /\ WorkerType /\ ColumnsInv /\ Places /\ WorkerPlaces /\ OpenInv /\ ClosedInv
  BY DEF ColumnInv
<1>2. /\ wk[w].pc \in {"submit", "update"}
      /\ uk' = [uk EXCEPT ![k].cols[h] = c]
      /\ reqs' = Remove(reqs, r) /\ wk' = [wk EXCEPT ![w] = x]
      /\ UNCHANGED <<pending, wr, hist>>
  BY DEF Update
<1>3. /\ IsWorker(wk[w]) /\ wk[w].list \in Seq(Nat) /\ wk[w].pos \in Nat
      /\ wk[w].pos \in 1..Len(wk[w].list) /\ Todo(w) = wk[w].pos..Len(wk[w].list)
      /\ wk[w].pos \in Todo(w)
  <2>1. IsWorker(wk[w]) BY <1>1 DEF WorkerType
  <2>2. wk[w].list \in Seq(Nat) /\ wk[w].pos \in Nat BY <2>1 DEF IsWorker
  <2>3. wk[w].pos \in 1..Len(wk[w].list) BY <1>1, <1>2 DEF WorkerPlaces
  <2>4. Todo(w) = wk[w].pos..Len(wk[w].list) BY <1>2 DEF Todo, From
  <2> QED BY <2>1, <2>2, <2>3, <2>4
<1>4. r \in DOMAIN reqs /\ reqs[r].latest # 0 /\ r = wk[w].list[wk[w].pos]
  BY <1>1, <1>3 DEF WorkerPlaces
<1> HIDE DEF r
<1>5. /\ k \in Key /\ uk[k] \in UserKey /\ cols \in Seq(ColumnNode) /\ h \in DOMAIN cols
      /\ cols[h].id = reqs[r].latest
  BY <1>1, <1>4, AtFacts
<1>6. c \in ColumnNode /\ c.id = cols[h].id /\ c.st = "stored" /\ c.trxn = cols[h].trxn
  <2>1. cols[h] \in ColumnNode BY <1>5
  <2>2. wk[w].ikey \in Nat BY <1>3 DEF IsWorker
  <2> HIDE DEF cols, h
  <2> QED BY <2>1, <2>2 DEF ColumnNode
<1>7. k = reqs[r].key OBVIOUS
<1> HIDE DEF c, h, k
<1> DEFINE B == [cols EXCEPT ![h] = c]
           u == [uk[k] EXCEPT !.cols = B]
<1>8. uk' = [uk EXCEPT ![k] = u]
  <2>1. uk \in [Key -> UserKey] BY <1>1 DEF UserType
  <2> QED BY <1>2, <1>5, <2>1
<1>9. /\ B \in Seq(ColumnNode) /\ DOMAIN B = DOMAIN cols /\ Len(B) = Len(cols)
      /\ B[h] = c /\ \A i \in DOMAIN cols : i # h => B[i] = cols[i]
  <2> HIDE DEF cols
  <2> QED BY <1>5, <1>6
<1> HIDE DEF B
<1>10. u.cols = B /\ u.req = uk[k].req /\ u.last = uk[k].last BY <1>5, <1>9 DEF UserKey
<1> HIDE DEF u
<1>11. uk'[k] = u /\ \A j \in Key : j # k => uk'[j] = uk[j]
  <2>1. uk \in [Key -> UserKey] BY <1>1 DEF UserType
  <2> QED BY <1>5, <1>8, <2>1
<1>12. \A i \in DOMAIN cols : B[i].id = cols[i].id /\ B[i].trxn = cols[i].trxn BY <1>6, <1>9
<1>13. UpdatesColumns(k, h) BY <1>6, <1>9, <1>10, <1>11, <1>12 DEF UpdatesColumns
<1>14. UpdatesRequests(r) BY <1>2 DEF Remove, UpdatesRequests
<1>15. UpdatesAt(w, r, k, h) BY <1>2, <1>3, <1>4, <1>5, <1>7 DEF UpdatesAt
<1>16. wk'[w] = x /\ (\A v \in Worker : v # w => wk'[v] = wk[v]) BY <1>1, <1>2 DEF WorkerType
<1>17. /\ last => x = IdleWorker
       /\ ~last => x.pc = "submit" /\ x.list = wk[w].list /\ x.pos = wk[w].pos + 1 /\ x.log = wk[w].log
  <2>1. CASE last BY <2>1
  <2>2. CASE ~last
    <3> DEFINE y == [wk[w] EXCEPT !.pc = "submit"]
               z == [y EXCEPT !.pos = wk[w].pos + 1]
    <3>1. IsWorker(y) /\ y.pc = "submit" /\ y.list = wk[w].list /\ y.log = wk[w].log
      BY <1>3 DEF IsWorker
    <3>2. x = z BY <2>2
    <3> HIDE DEF y
    <3>3. z.pc = "submit" /\ z.list = wk[w].list /\ z.pos = wk[w].pos + 1 /\ z.log = wk[w].log
      BY <1>3, <3>1 DEF IsWorker
    <3> QED BY <2>2, <3>2, <3>3
  <2> QED BY <2>1, <2>2
<1> HIDE DEF x
<1>18. wk'[w].log \in {Empty, wk[w].log} /\ wk'[w].pc # "merge"
  <2>1. IdleWorker.pc = "idle" /\ IdleWorker.log = Empty BY DEF IdleWorker
  <2> QED BY <1>16, <1>17, <2>1
<1>19. ASSUME NEW v \in Worker, NEW i \in Todo(v)'
       PROVE  i \in Todo(v) /\ wk'[v].list[i] = wk[v].list[i] /\ ~(v = w /\ i = wk[w].pos)
  <2>1. CASE v # w
    <3>1. wk'[v] = wk[v] BY <1>16, <2>1
    <3>2. Todo(v)' = Todo(v) BY <3>1 DEF Todo, From
    <3> QED BY <1>19, <2>1, <3>1, <3>2
  <2>2. CASE v = w /\ last
    <3>1. wk'[v] = IdleWorker BY <1>16, <1>17, <2>2
    <3>2. IdleWorker.pc = "idle" /\ IdleWorker.list = <<>> BY DEF IdleWorker
    <3>3. Todo(v)' = 1..0 BY <3>1, <3>2 DEF Todo, From
    <3>4. \A j \in 1..0 : FALSE OBVIOUS
    <3> QED BY <1>19, <3>3, <3>4
  <2>3. CASE v = w /\ ~last
    <3>1. wk'[v].pc = "submit" /\ wk'[v].list = wk[w].list /\ wk'[v].pos = wk[w].pos + 1
      BY <1>16, <1>17, <2>3
    <3>2. Todo(v)' = (wk[w].pos + 1)..Len(wk[w].list) BY <3>1 DEF Todo, From
    <3>3. i \in wk[w].pos..Len(wk[w].list) /\ i # wk[w].pos BY <1>3, <1>19, <3>2
    <3> QED BY <1>3, <2>3, <3>1, <3>3
  <2> QED BY <2>1, <2>2, <2>3
<1>20. UpdatesWorker(w) BY <1>16, <1>18, <1>19 DEF UpdatesWorker
<1> QED BY <1>2, <1>13, <1>14, <1>15, <1>20

\* The step as a whole: the request is gone that had merged what it will merge.
LEMMA UpdateMerge ==
  ASSUME ColumnInv, MergeInv, NEW w \in Worker, Update(w)
  PROVE  MergeInv'
<1>1. /\ UserType /\ WorkerType /\ ColumnsInv /\ Places /\ WorkerPlaces /\ OpenInv /\ ClosedInv
      /\ StackInv /\ MatchInv /\ LastInv /\ GroupsInv /\ BuiltInv /\ TakenInv /\ LoggedInv
  BY DEF ColumnInv, MergeInv, ListsInv
<1>2. UNCHANGED <<pending, wr, hist>> /\ \A i \in DOMAIN hist : hist'[i].tid = hist[i].tid BY UpdateIs
<1>3. PICK r, k, h : /\ UpdatesAt(w, r, k, h) /\ UpdatesColumns(k, h) /\ UpdatesRequests(r)
                     /\ UpdatesWorker(w)
  BY UpdateIs
<1>4. /\ wk[w].pos \in Todo(w) /\ r = wk[w].list[wk[w].pos] /\ wk[w].pc # "merge"
      /\ r \in DOMAIN reqs /\ k = reqs[r].key /\ k \in Key /\ reqs[r].latest # 0
      /\ h \in DOMAIN uk[k].cols /\ uk[k].cols[h].id = reqs[r].latest
  BY <1>3 DEF UpdatesAt
<1>5. DOMAIN reqs' = DOMAIN reqs \ {r} /\ \A x \in DOMAIN reqs' : reqs'[x] = reqs[x]
  BY <1>3 DEF UpdatesRequests
<1>6. \A j \in Key : /\ j # k => uk'[j].cols = uk[j].cols
                     /\ uk'[j].req = uk[j].req /\ uk'[j].last = uk[j].last
  BY <1>3 DEF UpdatesColumns
<1>7. reqs[r].built BY <1>1, <1>4 DEF BuiltInv
<1>8. uk[k].cols[h].st = "submitting"
  <2>1. Marked(r) BY <1>1, <1>4 DEF TakenInv
  <2> QED BY <1>4, <2>1 DEF Marked
<1>9. /\ \A i \in DOMAIN pending : pending[i] # r
      /\ \A p \in Writer : wr[p].rq # r
      /\ \A v \in Worker : \A i \in Todo(v) : wk[v].list[i] = r => v = w /\ i = wk[w].pos
  <2>1. PICK n : n = wk[w].pos OBVIOUS
  <2>2. n \in Todo(w) /\ r = wk[w].list[n] BY <1>4, <2>1
  <2>3. /\ \A j \in DOMAIN pending : pending[j] # wk[w].list[n]
        /\ \A p \in Writer : wr[p].rq # wk[w].list[n]
    BY <1>1, <2>2 DEF WorkerPlaces
  <2>4. \A v \in Worker : \A i \in Todo(v), j \in Todo(w) :
           wk[v].list[i] = wk[w].list[j] => v = w /\ i = j
    BY <1>1 DEF WorkerPlaces
  <2> QED BY <2>1, <2>2, <2>3, <2>4
<1>10. /\ \A id : id # reqs[r].latest /\ HasRequest(id) => HasRequest(id)'
       /\ \A x, id : id # reqs[r].latest /\ Claimed(x, id) => Claimed(x, id)'
       /\ \A c : Unmerged(c) => Unmerged(c)' /\ c.id # reqs[r].latest
  <2>1. \A id : id # reqs[r].latest /\ HasRequest(id) => HasRequest(id)' BY <1>5 DEF HasRequest
  <2>2. \A x, id : id # reqs[r].latest /\ Claimed(x, id) => Claimed(x, id)' BY <1>5 DEF Claimed
  <2>3. \A x \in DOMAIN reqs : reqs[x].latest = reqs[r].latest => x = r
    BY <1>1, <1>4 DEF ClosedInv
  <2>4. \A c : Unmerged(c) => Unmerged(c)' /\ c.id # reqs[r].latest
    BY <1>5, <1>7, <2>3 DEF Unmerged
  <2> QED BY <2>1, <2>2, <2>4
<1>11. ASSUME NEW j \in Key, j # k, NEW i \in DOMAIN uk[j].cols PROVE uk[j].cols[i].id # reqs[r].latest
  <2>1. hist[uk[j].cols[i].id].key = j /\ hist[reqs[r].latest].key = k BY <1>1, <1>4, <1>11 DEF ColumnsInv
  <2> QED BY <1>11, <2>1
<1>12. PICK A, B : A = uk[k].cols /\ B = uk'[k].cols OBVIOUS
<1>13. /\ Len(A) \in Nat /\ DOMAIN A = 1..Len(A) /\ \A i, j \in DOMAIN A : A[i].id = A[j].id => i = j
  <2>1. /\ Len(uk[k].cols) \in Nat /\ DOMAIN uk[k].cols = 1..Len(uk[k].cols)
        /\ \A i, j \in DOMAIN uk[k].cols : uk[k].cols[i].id = uk[k].cols[j].id => i = j
    BY <1>1, <1>4, ColumnListFacts
  <2> QED BY <1>12, <2>1
<1>14. /\ Len(B) = Len(A) /\ DOMAIN B = DOMAIN A /\ B[h].st = "stored"
       /\ \A i \in DOMAIN A : B[i].id = A[i].id /\ B[i].trxn = A[i].trxn /\ (i # h => B[i] = A[i])
  BY <1>3, <1>12 DEF UpdatesColumns
<1>15. h \in DOMAIN A /\ A[h].id = reqs[r].latest /\ \A i \in DOMAIN A : i # h => A[i].id # reqs[r].latest
  BY <1>4, <1>12, <1>13
<1>16. StackInv'
  <2>1. ASSUME NEW j \in Key, j # k, NEW i \in DOMAIN uk'[j].cols PROVE Stacked(j, i)'
    <3>1. PICK C : C = uk[j].cols /\ C = uk'[j].cols BY <1>6, <2>1
    <3>2. Stacked(j, i) BY <1>1, <2>1, <3>1 DEF StackInv
    <3>3. C[i].st = "pending" =>
             /\ C[i].split => HasRequest(C[i].id)
             /\ HasRequest(C[i].id) \/ i = 1 \/ C[i - 1].st = "pending" \/ Unmerged(C[i - 1])
      BY <3>1, <3>2 DEF Stacked
    <3>4. C[i].id # reqs[r].latest BY <1>11, <2>1, <3>1
    <3>5. C[i].st = "pending" =>
             /\ C[i].split => HasRequest(C[i].id)'
             /\ HasRequest(C[i].id)' \/ i = 1 \/ C[i - 1].st = "pending" \/ Unmerged(C[i - 1])'
      BY <1>10, <3>3, <3>4
    <3> QED BY <3>1, <3>5 DEF Stacked
  <2>2. ASSUME NEW i \in DOMAIN B PROVE Stacked(k, i)'
    <3>1. SUFFICES ASSUME B[i].st = "pending"
                   PROVE  /\ B[i].split => HasRequest(B[i].id)'
                          /\ \/ HasRequest(B[i].id)' \/ i = 1
                             \/ B[i - 1].st = "pending" \/ Unmerged(B[i - 1])'
      BY <1>12 DEF Stacked
    <3>2. i # h /\ i \in DOMAIN A /\ B[i] = A[i] /\ A[i].id # reqs[r].latest
      BY <1>14, <1>15, <2>2, <3>1
    <3>3. Stacked(k, i) BY <1>1, <1>4, <1>12, <3>2 DEF StackInv
    <3>4. /\ A[i].split => HasRequest(A[i].id)
          /\ HasRequest(A[i].id) \/ i = 1 \/ A[i - 1].st = "pending" \/ Unmerged(A[i - 1])
      BY <1>12, <3>1, <3>2, <3>3 DEF Stacked
    <3>5. ASSUME i # 1, A[i - 1].st = "pending" \/ Unmerged(A[i - 1])
          PROVE  B[i - 1].st = "pending" \/ Unmerged(B[i - 1])'
      <4>1. i - 1 \in DOMAIN A BY <1>13, <3>2, <3>5
      <4>2. i - 1 # h BY <1>8, <1>10, <1>12, <1>15, <3>5
      <4>3. B[i - 1] = A[i - 1] BY <1>14, <4>1, <4>2
      <4> QED BY <1>10, <3>5, <4>3
    <3> QED BY <1>10, <3>2, <3>4, <3>5
  <2> QED BY <1>12, <2>1, <2>2 DEF StackInv
<1>17. \A j \in Key : \A i \in DOMAIN uk[j].cols : uk'[j].cols[i].id = uk[j].cols[i].id
  BY <1>6, <1>12, <1>14
<1>18. MatchInv'
  <2> SUFFICES ASSUME NEW x \in DOMAIN reqs', ~reqs'[x].built, NEW kx, kx = reqs'[x].key
               PROVE  TrxnsMatch(x, kx)'
    BY DEF MatchInv
  <2>1. x \in DOMAIN reqs /\ x # r /\ reqs'[x] = reqs[x] /\ kx = reqs[x].key /\ ~reqs[x].built BY <1>5
  <2>2. kx \in Key BY <1>1, <2>1 DEF UserType, AreRequests, IsRequest
  <2>3. TrxnsMatch(x, kx) BY <1>1, <2>1 DEF MatchInv
  <2>4. Header(x)' = Header(x)
    <3>1. CASE reqs[x].latest # 0 BY <2>1, <3>1 DEF Header
    <3>2. CASE reqs[x].latest = 0
      <4>1. uk[kx].cols # <<>> BY <1>1, <2>1, <3>2 DEF OpenInv, NoColumns
      <4>2. 1 \in DOMAIN uk[kx].cols BY <1>1, <2>2, <4>1, NewestWrite
      <4>3. uk'[kx].cols[1].id = uk[kx].cols[1].id BY <1>17, <2>2, <4>2
      <4> QED BY <2>1, <3>2, <4>3 DEF Header, Newest
    <3> QED BY <3>1, <3>2
  <2>5. CASE kx # k
    <3>1. uk'[kx].cols = uk[kx].cols BY <1>6, <2>2, <2>5
    <3>2. ASSUME NEW i \in DOMAIN uk[kx].cols, Claimed(x, uk[kx].cols[i].id)
          PROVE  Claimed(x, uk[kx].cols[i].id)'
      <4>1. PICK id : id = uk[kx].cols[i].id /\ id # reqs[r].latest BY <1>11, <2>2, <2>5
      <4>2. Claimed(x, id)' BY <1>10, <3>2, <4>1
      <4>3. id = uk'[kx].cols[i].id BY <3>1, <4>1
      <4> QED BY <4>2, <4>3
    <3> QED BY <1>1, <1>2, <2>1, <2>2, <2>3, <2>4, <3>1, <3>2, MatchKept
  <2>6. CASE kx = k
    <3>1. ASSUME NEW n \in DOMAIN B, B[n].id = Header(x), NEW j \in n..Len(B), Joins(x, k, n, j)'
          PROVE  Comes(x, k, n, j)
      <4>1. n \in DOMAIN A /\ j \in n..Len(A) /\ j \in DOMAIN A BY <1>13, <1>14, <3>1
      <4>2. ASSUME NEW i \in (n + 1)..j PROVE ~StopsMerge(A[i]) /\ ~Claimed(x, A[i].id)
        <5>1. i \in DOMAIN A BY <1>13, <4>1
        <5>2. ~StopsMerge(B[i]) /\ ~Claimed(x, B[i].id)' BY <1>12, <3>1 DEF Joins, StopsMerge
        <5>3. i # h BY <1>14, <5>2 DEF StopsMerge
        <5>4. B[i] = A[i] /\ A[i].id # reqs[r].latest BY <1>14, <1>15, <5>1, <5>3
        <5> QED BY <1>10, <5>2, <5>4
      <4>3. Joins(x, k, n, j) BY <1>12, <4>2 DEF Joins
      <4>4. A[n].id = Header(x) /\ A[j].id = B[j].id /\ A[j].trxn = B[j].trxn BY <1>14, <3>1, <4>1
      <4> QED BY <1>12, <4>1, <4>3, <4>4 DEF Comes
    <3> QED BY <1>1, <1>2, <1>12, <2>1, <2>2, <2>3, <2>4, <2>6, <3>1, MatchFrom
  <2> QED BY <2>5, <2>6
<1>19. LastInv'
  <2>1. ASSUME NEW j \in Key, uk'[j].req # 0
        PROVE  uk'[j].last = hist'[uk'[j].cols[1].id].tid.g
    <3>1. uk'[j].req = uk[j].req /\ uk'[j].last = uk[j].last BY <1>6
    <3>2. uk[j].cols # <<>> BY <1>1, <2>1, <3>1 DEF OpenInv, NoColumns
    <3>3. 1 \in DOMAIN uk[j].cols BY <1>1, <3>2, NewestWrite
    <3>4. uk'[j].cols[1].id = uk[j].cols[1].id BY <1>17, <3>3
    <3> QED BY <1>1, <1>2, <2>1, <3>1, <3>4 DEF LastInv, Newest
  <2> QED BY <2>1 DEF LastInv, Newest
<1>20. GroupsInv' BY <1>1, <1>2 DEF GroupsInv
<1>21. /\ wk'[w].log \in {Empty, wk[w].log} /\ wk'[w].pc # "merge"
       /\ \A v \in Worker : v # w => wk'[v] = wk[v]
       /\ \A v \in Worker : \A i \in Todo(v)' :
             i \in Todo(v) /\ wk'[v].list[i] = wk[v].list[i] /\ ~(v = w /\ i = wk[w].pos)
  BY <1>3 DEF UpdatesWorker
<1>22. ASSUME NEW v \in Worker, NEW i \in Todo(v)', NEW y, y = wk'[v].list[i]
       PROVE  /\ i \in Todo(v) /\ y = wk[v].list[i] /\ y \in DOMAIN reqs' /\ reqs'[y] = reqs[y]
              /\ reqs[y].latest # 0 /\ y # r
  <2>1. i \in Todo(v) /\ y = wk[v].list[i] /\ ~(v = w /\ i = wk[w].pos) BY <1>21, <1>22
  <2>2. y \in DOMAIN reqs /\ reqs[y].latest # 0 BY <1>1, <2>1 DEF WorkerPlaces
  <2>3. y # r BY <1>9, <2>1
  <2> QED BY <1>5, <2>1, <2>2, <2>3
<1>23. BuiltInv'
  <2>1. \A i \in DOMAIN pending' : ~reqs'[pending'[i]].built
    <3>1. \A i \in DOMAIN pending : pending[i] \in DOMAIN reqs /\ ~reqs[pending[i]].built
      BY <1>1 DEF Places, BuiltInv
    <3> QED BY <1>2, <1>5, <1>9, <3>1
  <2>2. \A p \in Writer : wr'[p].pc # "store" => ~reqs'[wr'[p].rq].built
    <3>1. \A p \in Writer : wr[p].pc # "store" => wr[p].rq \in DOMAIN reqs /\ ~reqs[wr[p].rq].built
      BY <1>1 DEF Places, BuiltInv
    <3> QED BY <1>2, <1>5, <1>9, <3>1
  <2>3. ASSUME NEW v \in Worker, NEW i \in Todo(v)'
        PROVE  reqs'[wk'[v].list[i]].built <=> (wk'[v].pc # "merge" \/ i < wk'[v].pos)
    <3>1. PICK y : y = wk'[v].list[i] OBVIOUS
    <3>2. i \in Todo(v) /\ y = wk[v].list[i] /\ reqs'[y] = reqs[y] BY <1>22, <2>3, <3>1
    <3>3. reqs[y].built <=> (wk[v].pc # "merge" \/ i < wk[v].pos) BY <1>1, <3>2 DEF BuiltInv
    <3> QED BY <1>4, <1>21, <3>1, <3>2, <3>3
  <2> QED BY <2>1, <2>2, <2>3 DEF BuiltInv
<1>24. TakenInv'
  <2>1. ASSUME NEW v \in Worker, NEW i \in Todo(v)', NEW y, y = wk'[v].list[i] PROVE Marked(y)'
    <3>1. /\ i \in Todo(v) /\ y = wk[v].list[i] /\ y \in DOMAIN reqs' /\ reqs'[y] = reqs[y]
      BY <1>22, <2>1
    <3>2. Marked(y) BY <1>1, <3>1 DEF TakenInv
    <3>3. PICK j : j = reqs[y].key /\ j \in Key
      BY <1>1, <1>5, <3>1 DEF UserType, AreRequests, IsRequest
    <3>4. ASSUME NEW m \in DOMAIN uk'[j].cols, uk'[j].cols[m].id = reqs[y].latest
          PROVE  uk'[j].cols[m].st = "submitting"
      <4>1. CASE j # k BY <1>6, <3>2, <3>3, <3>4, <4>1 DEF Marked
      <4>2. CASE j = k
        <5>1. m \in DOMAIN A /\ A[m].id = reqs[y].latest BY <1>12, <1>14, <3>4, <4>2
        <5>2. reqs[y].latest # reqs[r].latest
          <6>1. y \in DOMAIN reqs /\ y # r BY <1>22, <1>5, <2>1
          <6>2. \A x \in DOMAIN reqs : reqs[x].latest = reqs[r].latest => x = r
            BY <1>1, <1>4 DEF ClosedInv
          <6> QED BY <6>1, <6>2
        <5>3. m # h BY <1>15, <5>1, <5>2
        <5>4. A[m].st = "submitting" BY <1>12, <3>2, <3>3, <4>2, <5>1 DEF Marked
        <5> QED BY <1>12, <1>14, <4>2, <5>1, <5>3, <5>4
      <4> QED BY <4>1, <4>2
    <3> QED BY <3>1, <3>3, <3>4 DEF Marked
  <2> QED BY <2>1 DEF TakenInv
<1>25. LoggedInv'
  <2>1. \A f : IsLogged(f) => IsLogged(f)' BY <1>2 DEF IsLogged
  <2>2. IsLogged(Empty) BY DEF IsLogged, Empty
  <2>3. ASSUME NEW v \in Worker, NEW f, f = wk'[v].log PROVE IsLogged(f)'
    <3>1. IsLogged(wk[v].log) BY <1>1 DEF LoggedInv
    <3>2. f \in {Empty, wk[v].log} BY <1>21, <2>3
    <3> QED BY <2>1, <2>2, <3>1, <3>2
  <2> QED BY <2>3 DEF LoggedInv
<1> QED BY <1>16, <1>18, <1>19, <1>20, <1>23, <1>24, <1>25 DEF MergeInv, ListsInv

-----------------------------------------------------------------------------
(* Columns are taken out by a flush. *)

\* What is left of list A, at the places f: every column that waits, and in order; there
\* may be a stored one behind them.
LeavesPlaces(A, B, f) ==
    /\ Len(B) \in Nat /\ DOMAIN B = 1..Len(B)
    /\ \A m \in DOMAIN B : f[m] \in Nat /\ 1 <= f[m]
    /\ \A m, n \in DOMAIN B : m < n => f[m] < f[n]
    /\ \A i \in DOMAIN A : A[i].st \in {"pending", "submitting"} => \E m \in DOMAIN B : f[m] = i

\* The columns are what they were; only one that has been fetched is new.
LeavesColumns(A, B, f) ==
    \A m \in DOMAIN B :
        /\ f[m] \in DOMAIN A => /\ B[m].id = A[f[m]].id /\ B[m].st = A[f[m]].st
                                /\ B[m].trxn = A[f[m]].trxn /\ B[m].split = A[f[m]].split
        /\ f[m] \notin DOMAIN A => B[m].st = "stored"

\* List B is what is left of list A.
Leaves(A, B, f) == LeavesPlaces(A, B, f) /\ LeavesColumns(A, B, f)

\* A step takes columns out of key k, and does not touch its open request.
LeavesKey(k) ==
    /\ \E f : Leaves(uk[k].cols, uk'[k].cols, f)
    /\ uk'[k].req # 0 => uk'[k].req = uk[k].req /\ uk'[k].last = uk[k].last

\* Two columns that wait one below the other do so still.
LEMMA LeavesNext ==
  ASSUME NEW A, NEW B, NEW f, Leaves(A, B, f), NEW m \in DOMAIN B,
         f[m] - 1 \in DOMAIN A, A[f[m] - 1].st \in {"pending", "submitting"}
  PROVE  /\ m # 1 /\ m - 1 \in DOMAIN B /\ f[m - 1] = f[m] - 1
         /\ B[m - 1].id = A[f[m] - 1].id /\ B[m - 1].st = A[f[m] - 1].st
<1>1. LeavesPlaces(A, B, f) /\ LeavesColumns(A, B, f) BY DEF Leaves
<1>2. PICK n \in DOMAIN B : f[n] = f[m] - 1 BY <1>1 DEF LeavesPlaces
<1>3. /\ DOMAIN B = 1..Len(B) /\ Len(B) \in Nat
      /\ \A a \in DOMAIN B : f[a] \in Nat
      /\ \A a, b \in DOMAIN B : a < b => f[a] < f[b]
  BY <1>1 DEF LeavesPlaces
<1>4. m \in Nat /\ n \in Nat /\ 1 <= n /\ f[m] \in Nat /\ f[n] \in Nat BY <1>3
<1>5. n < m BY <1>2, <1>3, <1>4
<1>6. n = m - 1
  <2>1. SUFFICES ASSUME n # m - 1 PROVE FALSE OBVIOUS
  <2>2. m - 1 \in DOMAIN B /\ n < m - 1 /\ m - 1 < m BY <1>3, <1>4, <1>5, <2>1
  <2>3. f[n] < f[m - 1] /\ f[m - 1] < f[m] /\ f[m - 1] \in Nat BY <1>3, <2>2
  <2> QED BY <1>2, <1>4, <2>3
<1>7. B[n].id = A[f[n]].id /\ B[n].st = A[f[n]].st BY <1>1, <1>2 DEF LeavesColumns
<1> QED BY <1>2, <1>4, <1>5, <1>6, <1>7

\* The newest column, when it waits.
LEMMA LeavesFirst ==
  ASSUME NEW A, NEW B, NEW f, Leaves(A, B, f), 1 \in DOMAIN A, A[1].st \in {"pending", "submitting"}
  PROVE  1 \in DOMAIN B /\ B[1].id = A[1].id /\ f[1] = 1
<1>1. LeavesPlaces(A, B, f) /\ LeavesColumns(A, B, f) BY DEF Leaves
<1>2. PICK m \in DOMAIN B : f[m] = 1 BY <1>1 DEF LeavesPlaces
<1>3. /\ DOMAIN B = 1..Len(B) /\ Len(B) \in Nat
      /\ \A a \in DOMAIN B : f[a] \in Nat /\ 1 <= f[a]
      /\ \A a, b \in DOMAIN B : a < b => f[a] < f[b]
  BY <1>1 DEF LeavesPlaces
<1>4. m \in Nat /\ 1 <= m /\ 1 \in DOMAIN B BY <1>3
<1>5. m = 1
  <2>1. ~(1 < m)
    <3>1. SUFFICES ASSUME 1 < m PROVE FALSE OBVIOUS
    <3>2. f[1] < 1 /\ f[1] \in Nat /\ 1 <= f[1] BY <1>2, <1>3, <1>4, <3>1
    <3> QED BY <3>2
  <2> QED BY <1>4, <2>1
<1>6. B[m].id = A[1].id BY <1>1, <1>2 DEF LeavesColumns
<1> QED BY <1>2, <1>4, <1>5, <1>6

\* What a column that waits and no closed request submits has above it.
LEMMA LeavesStack ==
  ASSUME UserType, ColumnsInv, StackInv, NEW k \in Key, NEW A, A = uk[k].cols, NEW B, NEW f,
         Leaves(A, B, f), NEW m \in DOMAIN B, B[m].st = "pending"
  PROVE  /\ f[m] \in DOMAIN A /\ A[f[m]].st = "pending"
         /\ B[m].id = A[f[m]].id /\ B[m].split = A[f[m]].split
         /\ B[m].split => HasRequest(B[m].id)
         /\ \/ HasRequest(B[m].id) \/ m = 1
            \/ /\ m - 1 \in DOMAIN B /\ f[m - 1] = f[m] - 1
               /\ B[m - 1].st = "pending" \/ Unmerged(B[m - 1])
<1>1. LeavesPlaces(A, B, f) /\ LeavesColumns(A, B, f) BY DEF Leaves
<1>2. PICK i : i = f[m] OBVIOUS
<1>3. i \in DOMAIN A /\ A[i].st = "pending" /\ B[m].id = A[i].id /\ B[m].split = A[i].split
  BY <1>1, <1>2 DEF LeavesColumns
<1>4. Stacked(k, i) BY <1>3 DEF StackInv
<1>5. /\ A[i].split => HasRequest(A[i].id)
      /\ HasRequest(A[i].id) \/ i = 1 \/ A[i - 1].st = "pending" \/ Unmerged(A[i - 1])
  BY <1>3, <1>4 DEF Stacked
<1>6. DOMAIN A = 1..Len(A) /\ Len(A) \in Nat BY ColumnListFacts
<1>7. CASE i = 1
  <2>1. m = 1
    <3>1. f[1] = 1 /\ 1 \in DOMAIN B BY <1>3, <1>7, LeavesFirst
    <3>2. /\ \A a, b \in DOMAIN B : a < b => f[a] < f[b]
          /\ \A a \in DOMAIN B : a \in Nat /\ 1 <= a
      BY <1>1 DEF LeavesPlaces
    <3>3. m \in Nat /\ 1 <= m BY <3>2
    <3>4. 1 < m => f[1] < f[m] BY <3>1, <3>2
    <3>5. ~(1 < m) BY <1>2, <1>7, <3>1, <3>4
    <3> QED BY <3>3, <3>5
  <2> QED BY <1>2, <1>3, <1>5, <2>1
<1>8. CASE i # 1 /\ (A[i - 1].st = "pending" \/ Unmerged(A[i - 1]))
  <2>1. i - 1 \in DOMAIN A BY <1>3, <1>6, <1>8
  <2>2. A[i - 1].st \in {"pending", "submitting"} BY <1>8 DEF Unmerged
  <2>3. /\ m # 1 /\ m - 1 \in DOMAIN B /\ f[m - 1] = f[m] - 1
        /\ B[m - 1].id = A[i - 1].id /\ B[m - 1].st = A[i - 1].st
    BY <1>2, <2>1, <2>2, LeavesNext
  <2>4. B[m - 1].st = "pending" \/ Unmerged(B[m - 1]) BY <1>8, <2>3 DEF Unmerged
  <2> QED BY <1>2, <1>3, <1>5, <2>3, <2>4
<1> QED BY <1>2, <1>3, <1>5, <1>7, <1>8

\* The columns of a list are different ones.
Distinct(B) ==
    /\ \A a, b \in DOMAIN B : B[a].id = B[b].id => a = b
    /\ \A a \in DOMAIN B : B[a].id # 0

\* Request x merges the columns of the list from the one at n down to the one at j.
JoinsList(x, B, n, j) == \A a \in (n + 1)..j : ~StopsMerge(B[a]) /\ ~Claimed(x, B[a].id)

\* The columns that a request will merge follow each other as they did.
LEMMA LeavesRun ==
  ASSUME UserType, ColumnsInv, StackInv, NEW k \in Key, NEW A, A = uk[k].cols, NEW B, NEW f,
         Leaves(A, B, f), NEW x \in DOMAIN reqs, NEW n \in DOMAIN B, B[n].id = Header(x),
         NEW j \in n..Len(B), Distinct(B), JoinsList(x, B, n, j)
  PROVE  \A a \in n..j : f[a] = f[n] + (a - n)
<1> DEFINE S == {a \in n..j : f[a] # f[n] + (a - n)}
<1>1. LeavesPlaces(A, B, f) /\ LeavesColumns(A, B, f) BY DEF Leaves
<1>2. /\ DOMAIN B = 1..Len(B) /\ Len(B) \in Nat /\ \A a \in DOMAIN B : f[a] \in Nat
  BY <1>1 DEF LeavesPlaces
<1>3. n \in Nat /\ 1 <= n /\ j \in Nat /\ j <= Len(B) BY <1>2
<1>4. SUFFICES ASSUME S # {} PROVE FALSE OBVIOUS
<1>5. S \subseteq Nat BY <1>3
<1>6. \A a : a \in S <=> a \in n..j /\ f[a] # f[n] + (a - n) OBVIOUS
<1> HIDE DEF S
<1>7. PICK a \in S : \A b \in S : a <= b BY <1>4, <1>5, Smallest
<1>8. a \in Nat /\ n <= a /\ a <= j /\ f[a] # f[n] + (a - n) BY <1>3, <1>6, <1>7
<1>9. f[n] \in Nat BY <1>2
<1>10. a # n BY <1>3, <1>8, <1>9
<1>11. a - 1 \in n..j /\ a \in (n + 1)..j /\ a \in DOMAIN B /\ a # 1 /\ ~(a <= a - 1)
  BY <1>2, <1>3, <1>8, <1>10
<1>12. f[a - 1] = f[n] + (a - 1 - n) BY <1>6, <1>7, <1>11
<1>13. ~StopsMerge(B[a]) /\ ~Claimed(x, B[a].id) BY <1>11 DEF JoinsList
<1>14. B[a].st = "pending" BY <1>13 DEF StopsMerge
<1>15. ~HasRequest(B[a].id)
  <2>1. SUFFICES ASSUME HasRequest(B[a].id) PROVE FALSE OBVIOUS
  <2>2. PICK y \in DOMAIN reqs : reqs[y].latest = B[a].id BY <2>1 DEF HasRequest
  <2>3. y = x BY <1>13, <2>2 DEF Claimed
  <2>4. B[a].id # 0 BY <1>11 DEF Distinct
  <2>5. Header(x) = B[a].id BY <2>2, <2>3, <2>4 DEF Header
  <2>6. B[a].id = B[n].id BY <2>5
  <2>7. a = n BY <1>11, <2>6 DEF Distinct
  <2> QED BY <1>10, <2>7
<1>16. a - 1 \in DOMAIN B /\ f[a - 1] = f[a] - 1 BY <1>11, <1>14, <1>15, LeavesStack
<1>17. f[a] \in Nat BY <1>2, <1>11
<1>18. PICK p, q : p = f[a] /\ q = f[n] OBVIOUS
<1>19. p - 1 = q + (a - 1 - n) /\ p # q + (a - n) /\ p \in Nat /\ q \in Nat
  BY <1>8, <1>9, <1>12, <1>16, <1>17, <1>18
<1> QED BY <1>3, <1>8, <1>19

\* The requests of the key will merge what they would have.
LEMMA LeavesMatch ==
  ASSUME UserType, ColumnsInv, OpenInv, ClosedInv, UserType', ColumnsInv', OpenInv', ClosedInv',
         StackInv, MatchInv, UNCHANGED <<reqs, hist>>, \A k \in Key : LeavesKey(k)
  PROVE  MatchInv'
<1> SUFFICES ASSUME NEW x \in DOMAIN reqs', ~reqs'[x].built, NEW k, k = reqs'[x].key
             PROVE  TrxnsMatch(x, k)'
  BY DEF MatchInv
<1>1. x \in DOMAIN reqs /\ k = reqs[x].key /\ ~reqs[x].built /\ reqs' = reqs /\ hist' = hist
  OBVIOUS
<1>2. k \in Key BY <1>1 DEF UserType, AreRequests, IsRequest
<1>3. TrxnsMatch(x, k) BY <1>1 DEF MatchInv
<1>4. \A id : Claimed(x, id)' <=> Claimed(x, id) BY <1>1 DEF Claimed
<1>5. PICK A, B : A = uk[k].cols /\ B = uk'[k].cols OBVIOUS
<1>6. PICK f : Leaves(A, B, f) BY <1>2, <1>5 DEF LeavesKey
<1>7. /\ LeavesPlaces(A, B, f) /\ LeavesColumns(A, B, f)
      /\ Len(B) \in Nat /\ DOMAIN B = 1..Len(B) /\ \A m \in DOMAIN B : f[m] \in Nat /\ 1 <= f[m]
  BY <1>6 DEF Leaves, LeavesPlaces
<1>8. Len(A) \in Nat /\ DOMAIN A = 1..Len(A) BY <1>2, <1>5, ColumnListFacts
<1>9. Header(x)' = Header(x)
  <2>1. CASE reqs[x].latest # 0 BY <1>1, <2>1 DEF Header
  <2>2. CASE reqs[x].latest = 0
    <3>1. A # <<>> /\ A[1].st = "pending" BY <1>1, <1>5, <2>2 DEF OpenInv, NoColumns, Newest
    <3>2. A \in Seq(ColumnNode) BY <1>2, <1>5 DEF UserType, UserKey
    <3>3. 1 \in DOMAIN A BY <3>1, <3>2
    <3>4. B[1].id = A[1].id BY <1>6, <3>1, <3>3, LeavesFirst
    <3> QED BY <1>1, <1>5, <2>2, <3>4 DEF Header, Newest
  <2> QED BY <2>1, <2>2
<1>10. Distinct(B)
  <2>1. B \in Seq(ColumnNode) BY <1>2, <1>5 DEF UserType, UserKey
  <2>2. \A a, b \in DOMAIN B : a < b => B[b].id < B[a].id BY <1>2, <1>5 DEF ColumnsInv
  <2>3. \A a \in DOMAIN B : a \in Nat /\ B[a] \in ColumnNode BY <2>1
  <2>4. \A a \in DOMAIN B : a \in Nat /\ B[a].id \in Nat BY <2>3 DEF ColumnNode
  <2>5. \A a \in DOMAIN B : B[a].id \in DOMAIN hist' BY <1>2, <1>5 DEF ColumnsInv
  <2>6. DOMAIN hist' \subseteq 1..seq' BY DEF UserType
  <2>7. \A a \in DOMAIN B : B[a].id # 0 BY <2>5, <2>6
  <2>8. \A a, b \in DOMAIN B : B[a].id = B[b].id => a = b BY <2>2, <2>4
  <2> QED BY <2>7, <2>8 DEF Distinct
<1>11. ASSUME NEW n \in DOMAIN B, B[n].id = Header(x), NEW j \in n..Len(B), Joins(x, k, n, j)'
       PROVE  Comes(x, k, n, j)
  <2>1. \A a \in (n + 1)..j : ~StopsMerge(B[a]) /\ ~Claimed(x, B[a].id)
    BY <1>4, <1>5, <1>11 DEF Joins, StopsMerge
  <2>2. \A a \in n..j : f[a] = f[n] + (a - n)
    <3>1. JoinsList(x, B, n, j) BY <2>1 DEF JoinsList
    <3> QED BY <1>1, <1>2, <1>5, <1>6, <1>10, <1>11, <3>1, LeavesRun
  <2>3. B[n].st \in {"pending", "submitting"} BY <1>1, <1>5, <1>9, <1>11, HeaderWaits
  <2>4. n \in Nat /\ j \in Nat /\ n <= j /\ 1 <= n /\ j <= Len(B) BY <1>7, <1>11
  <2>5. \A a \in (n + 1)..j : B[a].st = "pending" BY <2>1 DEF StopsMerge
  <2>6. ASSUME NEW a \in n..j
        PROVE  /\ f[a] \in DOMAIN A /\ B[a].id = A[f[a]].id /\ B[a].st = A[f[a]].st
               /\ B[a].trxn = A[f[a]].trxn /\ B[a].split = A[f[a]].split
    <3>1. a \in DOMAIN B /\ (a = n \/ a \in (n + 1)..j) BY <1>7, <2>4
    <3>2. B[a].st \in {"pending", "submitting"} BY <2>3, <2>5, <3>1
    <3> QED BY <1>7, <3>1, <3>2 DEF LeavesColumns
  <2>7. PICK g, i : g = f[n] /\ i = f[j] OBVIOUS
  <2>8. n \in n..j /\ j \in n..j BY <2>4
  <2>9. /\ g \in DOMAIN A /\ i \in DOMAIN A /\ A[g].id = Header(x) /\ A[i].id = B[j].id
        /\ A[i].trxn = B[j].trxn /\ i = g + (j - n)
    BY <1>11, <2>2, <2>6, <2>7, <2>8
  <2>10. g \in Nat /\ i \in g..Len(A) /\ i - g = j - n BY <1>8, <2>4, <2>9
  <2>11. ASSUME NEW b \in (g + 1)..i PROVE ~StopsMerge(A[b]) /\ ~Claimed(x, A[b].id)
    <3>1. PICK a : a = n + (b - g) OBVIOUS
    <3>2. a \in (n + 1)..j /\ a \in n..j /\ g + (a - n) = b
      <4>1. g \in Int /\ n \in Int /\ j \in Int /\ i = g + (j - n) /\ b \in (g + 1)..i
        BY <2>4, <2>9, <2>10, <2>11
      <4>2. b \in Int /\ g + 1 <= b /\ b <= g + (j - n) BY <4>1
      <4>3. a \in Int /\ n + 1 <= a /\ a <= j /\ g + (a - n) = b BY <3>1, <4>1, <4>2
      <4> QED BY <4>1, <4>3
    <3>3. f[a] = b BY <2>2, <2>7, <3>2
    <3>4. A[b].id = B[a].id /\ A[b].st = B[a].st /\ A[b].split = B[a].split BY <2>6, <3>2, <3>3
    <3>5. ~StopsMerge(B[a]) /\ ~Claimed(x, B[a].id) BY <2>1, <3>2
    <3> QED BY <3>4, <3>5 DEF StopsMerge
  <2>12. Joins(x, k, g, i) BY <1>5, <2>11 DEF Joins
  <2> QED BY <1>5, <2>9, <2>10, <2>12 DEF Comes
<1>12. \A i \in DOMAIN hist : hist'[i].tid = hist[i].tid BY <1>1
<1> QED BY <1>1, <1>2, <1>3, <1>5, <1>9, <1>11, <1>12, MatchFrom

\* A flush that takes columns out of keys.
LEMMA LeavesMerge ==
  ASSUME ColumnInv, ColumnInv', MergeInv, UNCHANGED <<reqs, hist, wk, wr, pending>>,
         \A k \in Key : LeavesKey(k)
  PROVE  MergeInv'
<1>1. /\ UserType /\ ColumnsInv /\ OpenInv /\ ClosedInv /\ WorkerType /\ WorkerPlaces
      /\ UserType' /\ ColumnsInv' /\ OpenInv' /\ ClosedInv'
  BY DEF ColumnInv
<1>2. StackInv /\ MatchInv /\ LastInv /\ GroupsInv /\ BuiltInv /\ TakenInv /\ LoggedInv
  BY DEF MergeInv, ListsInv
<1>3. reqs' = reqs /\ hist' = hist /\ wk' = wk /\ wr' = wr /\ pending' = pending OBVIOUS
<1>4. StackInv'
  <2>1. SUFFICES ASSUME NEW k \in Key, NEW m \in DOMAIN uk'[k].cols PROVE Stacked(k, m)'
    BY DEF StackInv
  <2>2. PICK A, B : A = uk[k].cols /\ B = uk'[k].cols OBVIOUS
  <2>3. PICK f : Leaves(A, B, f) BY <2>2 DEF LeavesKey
  <2>4. /\ \A id : HasRequest(id)' <=> HasRequest(id)
        /\ \A c : Unmerged(c)' <=> Unmerged(c)
    BY <1>3 DEF HasRequest, Unmerged
  <2>5. ASSUME B[m].st = "pending"
        PROVE  /\ B[m].split => HasRequest(B[m].id)
               /\ HasRequest(B[m].id) \/ m = 1 \/ B[m - 1].st = "pending" \/ Unmerged(B[m - 1])
    <3>1. m \in DOMAIN B BY <2>2
    <3> QED BY <1>1, <1>2, <2>2, <2>3, <2>5, <3>1, LeavesStack
  <2>6. \A id : id = B[m].id => (HasRequest(id)' <=> HasRequest(id)) BY <2>4
  <2>7. HasRequest(uk[k].cols[m].id)' <=> HasRequest(B[m].id) BY <1>3, <2>2 DEF HasRequest
  <2>8. Unmerged(uk[k].cols[m - 1])' <=> Unmerged(B[m - 1]) BY <1>3, <2>2 DEF Unmerged
  <2> QED BY <2>2, <2>5, <2>7, <2>8 DEF Stacked
<1>5. MatchInv' BY <1>1, <1>2, LeavesMatch
<1>6. LastInv'
  <2>1. SUFFICES ASSUME NEW k \in Key, uk'[k].req # 0
                 PROVE  uk'[k].last = hist'[uk'[k].cols[1].id].tid.g
    BY DEF LastInv, Newest
  <2>2. PICK A, B : A = uk[k].cols /\ B = uk'[k].cols OBVIOUS
  <2>3. PICK f : Leaves(A, B, f) BY <2>2 DEF LeavesKey
  <2>4. uk'[k].req = uk[k].req /\ uk'[k].last = uk[k].last BY <2>1 DEF LeavesKey
  <2>5. uk[k].last = hist[A[1].id].tid.g BY <1>2, <2>1, <2>2, <2>4 DEF LastInv, Newest
  <2>6. uk[k].req \in DOMAIN reqs /\ reqs[uk[k].req].key = k /\ reqs[uk[k].req].latest = 0
    BY <1>1, <2>1, <2>4 DEF OpenInv
  <2>7. A # <<>> /\ A[1].st = "pending" BY <1>1, <2>2, <2>6 DEF OpenInv, NoColumns, Newest
  <2>8. A \in Seq(ColumnNode) BY <1>1, <2>2 DEF UserType, UserKey
  <2>9. 1 \in DOMAIN A BY <2>7, <2>8
  <2>10. B[1].id = A[1].id BY <2>3, <2>7, <2>9, LeavesFirst
  <2> QED BY <1>3, <2>2, <2>4, <2>5, <2>10
<1>7. GroupsInv' BY <1>2, <1>3 DEF GroupsInv
<1>8. \A w \in Worker : Todo(w)' = Todo(w) BY <1>3 DEF Todo, From
<1>9. BuiltInv' BY <1>2, <1>3, <1>8 DEF BuiltInv
<1>10. TakenInv'
  <2>1. SUFFICES ASSUME NEW w \in Worker, NEW i \in Todo(w) PROVE Marked(wk[w].list[i])'
    <3>1. \A v \in Worker : \A n \in Todo(v) : wk'[v].list[n] = wk[v].list[n] BY <1>3
    <3> QED BY <1>3, <1>8, <3>1 DEF TakenInv
  <2>2. PICK r : r = wk[w].list[i] OBVIOUS
  <2>3. Marked(r) BY <1>2, <2>1, <2>2 DEF TakenInv
  <2>4. r \in DOMAIN reqs /\ reqs[r].latest # 0 BY <1>1, <2>1, <2>2 DEF WorkerPlaces
  <2>5. PICK k : k = reqs[r].key OBVIOUS
  <2>6. k \in Key BY <1>1, <2>4, <2>5 DEF UserType, AreRequests, IsRequest
  <2>7. PICK A, B : A = uk[k].cols /\ B = uk'[k].cols OBVIOUS
  <2>8. PICK f : Leaves(A, B, f) BY <2>6, <2>7 DEF LeavesKey
  <2>9. ASSUME NEW m \in DOMAIN B, B[m].id = reqs[r].latest PROVE B[m].st = "submitting"
    <3>1. Header(r)' = reqs'[r].latest BY <1>3, <2>4 DEF Header
    <3>2. B[m].st \in {"pending", "submitting"} BY <1>1, <1>3, <2>4, <2>5, <2>7, <2>9, <3>1, HeaderWaits
    <3>3. f[m] \in DOMAIN A /\ A[f[m]].id = B[m].id /\ A[f[m]].st = B[m].st
      BY <2>8, <2>9, <3>2 DEF Leaves, LeavesColumns
    <3> QED BY <2>3, <2>5, <2>7, <2>9, <3>3 DEF Marked
  <2>10. Marked(r)' BY <1>3, <2>5, <2>7, <2>9 DEF Marked
  <2> QED BY <1>3, <2>2, <2>10
<1>11. LoggedInv' BY <1>2, <1>3 DEF LoggedInv, IsLogged
<1> QED BY <1>4, <1>5, <1>6, <1>7, <1>9, <1>10, <1>11 DEF MergeInv, ListsInv

\* The scan leaves the transaction of a column, and where its group ends.
LEMMA ScannedTrxn ==
  ASSUME NEW cols \in Seq(ColumnNode), NEW S, NEW i \in DOMAIN cols
  PROVE  Scanned(cols, S, i).trxn = cols[i].trxn /\ Scanned(cols, S, i).split = cols[i].split
<1> DEFINE v == Verdict(cols, S, i)
           rd == cols[i].recdel \/ \E j \in 1..(i - 1) : Verdict(cols, S, j) = "drop"
           c == [cols[i] EXCEPT !.recdel = rd]
           ho == c.holding \/ v = "iter"
           d1 == [c EXCEPT !.committed = TRUE]
           d2 == [d1 EXCEPT !.kbm = "prim"]
           d == [d2 EXCEPT !.holding = ho]
<1>1. cols[i] \in ColumnNode OBVIOUS
<1>2. Scanned(cols, S, i) = IF c.st # "stored" \/ v \notin {"valid", "iter"} THEN c ELSE d
  <2> DEFINE e == [c EXCEPT !.committed = TRUE, !.kbm = "prim", !.holding = ho]
  <2>1. Scanned(cols, S, i) = IF c.st # "stored" \/ v \notin {"valid", "iter"} THEN c ELSE e
    BY Zenon DEF Scanned
  <2>2. e = d OBVIOUS
  <2> QED BY <2>1, <2>2
<1>3. rd \in BOOLEAN OBVIOUS
<1> HIDE DEF rd, v
<1>4. c \in ColumnNode /\ c.trxn = cols[i].trxn /\ c.split = cols[i].split
  BY <1>1, <1>3 DEF ColumnNode
<1> HIDE DEF c
<1>5. ho \in BOOLEAN OBVIOUS
<1> HIDE DEF ho
<1>6. d1 \in ColumnNode /\ d1.trxn = c.trxn /\ d1.split = c.split BY <1>4 DEF ColumnNode
<1> HIDE DEF d1
<1>7. d2 \in ColumnNode /\ d2.trxn = c.trxn /\ d2.split = c.split BY <1>6 DEF ColumnNode
<1> HIDE DEF d2
<1>8. d.trxn = c.trxn /\ d.split = c.split BY <1>5, <1>7 DEF ColumnNode
<1> HIDE DEF d
<1> QED BY <1>2, <1>4, <1>8

\* The column of a row is stored.
LEMMA FetchedStored ==
  ASSUME UserType, TableType, ColumnsInv, RowsInv, NEW k \in Key, NEW i \in DOMAIN Columns(k),
         i \notin DOMAIN uk[k].cols
  PROVE  Columns(k)[i].st = "stored"
<1> DEFINE A == uk[k].cols
           row == Row(k)
           end == IF A = <<>> THEN MaxSeq ELSE A[Len(A)].begin
           d == FetchedColumn(row, end)
           c == RowColumn(k)
<1>1. A \in Seq(ColumnNode) BY DEF UserType, UserKey
<1>2. Fetches(k) BY DEF Columns
<1>3. Columns(k) = Append(A, c) BY <1>2 DEF Columns
<1>4. c = [d EXCEPT !.kbm = "prim"] BY DEF RowColumn
<1>5. d.st = "stored" /\ c.st = "stored"
  <2> HIDE DEF row, end, c
  <2> DEFINE e == Column(row.id, FALSE, FALSE)
  <2>1. d.st = "stored" BY DEF FetchedColumn, Column
  <2>2. d = [x \in DOMAIN d |-> d[x]] /\ "st" \in DOMAIN d BY DEF FetchedColumn, Column
  <2> HIDE DEF d
  <2>3. c.st = d.st BY <1>4, <2>2
  <2> QED BY <2>1, <2>3
<1> HIDE DEF A, c
<1>6. i = Len(A) + 1 /\ Append(A, c)[Len(A) + 1] = c
  <2>1. DOMAIN A = 1..Len(A) /\ Len(A) \in Nat /\ DOMAIN Append(A, c) = 1..(Len(A) + 1)
    BY <1>1
  <2>2. i \in 1..(Len(A) + 1) /\ i \notin 1..Len(A) BY <1>3, <2>1 DEF A
  <2> QED BY <1>1, <2>1, <2>2
<1> QED BY <1>3, <1>5, <1>6

\* A key that is left alone.
LEMMA SameLeaves ==
  ASSUME UserType, NEW k \in Key, uk'[k] = uk[k]
  PROVE  LeavesKey(k)
<1>1. PICK A : A = uk[k].cols /\ A = uk'[k].cols OBVIOUS
<1> DEFINE f == [m \in DOMAIN A |-> m]
<1>2. A \in Seq(ColumnNode) BY <1>1 DEF UserType, UserKey
<1>3. Len(A) \in Nat /\ DOMAIN A = 1..Len(A) BY <1>2
<1>4. \A m \in DOMAIN A : f[m] = m OBVIOUS
<1> HIDE DEF f
<1>5. LeavesPlaces(A, A, f) BY <1>3, <1>4 DEF LeavesPlaces
<1>6. LeavesColumns(A, A, f) BY <1>4 DEF LeavesColumns
<1> QED BY <1>1, <1>5, <1>6 DEF LeavesKey, Leaves

\* A key that leaves the memory, where nothing waits.
LEMMA GoneLeaves ==
  ASSUME NEW k \in Key, uk'[k] = NoUserKey,
         \A i \in DOMAIN uk[k].cols : uk[k].cols[i].st \notin {"pending", "submitting"}
  PROVE  LeavesKey(k)
<1>1. PICK A, B : A = uk[k].cols /\ B = uk'[k].cols OBVIOUS
<1>2. B = <<>> /\ uk'[k].req = 0 BY <1>1, NoUserKeyIs
<1>3. Len(B) = 0 /\ DOMAIN B = {} /\ 1..0 = {} BY <1>2
<1>4. \A f : LeavesPlaces(A, B, f) BY <1>1, <1>3 DEF LeavesPlaces
<1>5. \A f : LeavesColumns(A, B, f) BY <1>3 DEF LeavesColumns
<1> QED BY <1>1, <1>2, <1>4, <1>5 DEF LeavesKey, Leaves

\* A scan takes the columns out that nobody needs.
LEMMA ScanLeavesKey ==
  ASSUME ColumnInv, NEW k \in Key, NEW S, NEW u, u.req = uk[k].req, u.last = uk[k].last,
         u.cols = Rest(Columns(k), S),
         uk'[k] = IF Rest(Columns(k), S) = <<>> THEN NoUserKey ELSE u
  PROVE  LeavesKey(k)
<1>1. UserType /\ TableType /\ ColumnsInv /\ RowsInv BY DEF ColumnInv
<1>2. PICK A, C, B : A = uk[k].cols /\ C = Columns(k) /\ B = Rest(C, S) OBVIOUS
<1>3. /\ C \in Seq(ColumnNode)
      /\ \A i \in DOMAIN A : i \in DOMAIN C /\ C[i] = A[i]
      /\ \A i \in DOMAIN C : i \notin DOMAIN A => C[i].st = "stored"
  BY <1>1, <1>2, ColumnsFacts, FetchedStored
<1>4. B \in Seq(ColumnNode) BY <1>2, <1>3, RestFacts
<1>5. PICK f : ScannedList(C, S, B, f) BY <1>2, <1>3, RestFacts
<1>6. /\ \A m \in DOMAIN B : f[m] \in DOMAIN C
      /\ \A m, n \in DOMAIN B : m < n => f[m] < f[n]
      /\ \A m \in DOMAIN B : B[m] = Scanned(C, S, f[m])
      /\ \A i \in DOMAIN C : Verdict(C, S, i) # "drop" => \E m \in DOMAIN B : f[m] = i
  BY <1>5 DEF ScannedList, Thinned
<1>7. \A m \in DOMAIN B : f[m] \in Nat /\ 1 <= f[m] BY <1>3, <1>6
<1>8. \A i \in DOMAIN A : A[i].st \in {"pending", "submitting"} => \E m \in DOMAIN B : f[m] = i
  <2> TAKE i \in DOMAIN A
  <2> HAVE A[i].st \in {"pending", "submitting"}
  <2>1. i \in DOMAIN C /\ C[i].st \in {"pending", "submitting"} BY <1>3
  <2>2. Verdict(C, S, i) = "skip" BY <1>3, <2>1, VerdictFacts
  <2> QED BY <1>6, <2>1, <2>2
<1>9. Len(B) \in Nat /\ DOMAIN B = 1..Len(B) BY <1>4
<1>10. LeavesPlaces(A, B, f) BY <1>6, <1>7, <1>8, <1>9 DEF LeavesPlaces
<1>11. LeavesColumns(A, B, f)
  <2>1. ASSUME NEW m \in DOMAIN B
        PROVE  /\ f[m] \in DOMAIN A => /\ B[m].id = A[f[m]].id /\ B[m].st = A[f[m]].st
                                       /\ B[m].trxn = A[f[m]].trxn /\ B[m].split = A[f[m]].split
               /\ f[m] \notin DOMAIN A => B[m].st = "stored"
    <3>1. PICK i \in DOMAIN C : i = f[m] BY <1>6
    <3>2. /\ B[m].id = C[i].id /\ B[m].st = C[i].st
          /\ B[m].trxn = C[i].trxn /\ B[m].split = C[i].split
      BY <1>3, <1>6, <3>1, ScannedFacts, ScannedTrxn
    <3> QED BY <1>3, <3>1, <3>2
  <2> QED BY <2>1 DEF LeavesColumns
<1>12. Leaves(A, B, f) BY <1>10, <1>11 DEF Leaves
<1>13. uk'[k].cols = B /\ (uk'[k].req # 0 => uk'[k].req = uk[k].req /\ uk'[k].last = uk[k].last)
  <2>1. CASE B = <<>> BY <1>2, <2>1, NoUserKeyIs
  <2>2. CASE B # <<>> BY <1>2, <2>2
  <2> QED BY <2>1, <2>2
<1> QED BY <1>2, <1>12, <1>13 DEF LeavesKey

\* A flush scans a key.
LEMMA FlushBuildMerge ==
  ASSUME ColumnInv, ColumnInv', MergeInv, NEW w \in Worker, FlushBuild(w)
  PROVE  MergeInv'
<1> DEFINE k == MinOf(fl[w].todo)
           S == fl[w].snaps
           B == Rest(Columns(k), S)
           sd == StaysDirty(Columns(k), S)
           u1 == [uk[k] EXCEPT !.fetched = TRUE]
           u2 == [u1 EXCEPT !.dirty = sd]
           u == [u2 EXCEPT !.cols = B]
<1>1. /\ UserType /\ TableType /\ ColumnsInv /\ RowsInv /\ FlushesInv /\ fl[w].pc = "build"
      /\ fl[w].todo # {} /\ UNCHANGED <<reqs, hist, pending, wr, wk>>
  BY DEF ColumnInv, FlushBuild
<1>2. CASE HasRow(k) /\ ~uk[k].dirty
  <2>1. uk' = uk BY <1>2 DEF FlushBuild
  <2> QED BY <1>1, <2>1, OtherMerge
<1>3. CASE ~(HasRow(k) /\ ~uk[k].dirty)
  <2>1. uk' = [uk EXCEPT ![k] =
                  IF B = <<>> THEN NoUserKey
                  ELSE [uk[k] EXCEPT !.fetched = TRUE, !.dirty = sd, !.cols = B]]
    BY <1>3 DEF FlushBuild, Rest
  <2>2. k \in Key BY <1>1, NextKey
  <2>3. uk \in [Key -> UserKey] BY <1>1 DEF UserType
  <2>4. sd \in BOOLEAN BY DEF StaysDirty
  <2>5. [uk[k] EXCEPT !.fetched = TRUE, !.dirty = sd, !.cols = B] = u OBVIOUS
  <2>6. B \in Seq(ColumnNode) BY <1>1, <2>2, ColumnsFacts, RestFacts
  <2>7. uk'[k] = (IF B = <<>> THEN NoUserKey ELSE u) /\ \A j \in Key : j # k => uk'[j] = uk[j]
    <3> HIDE DEF B, sd, u, k
    <3> QED BY <2>1, <2>2, <2>3, <2>5
  <2>8. u.req = uk[k].req /\ u.last = uk[k].last /\ u.cols = B
    <3> HIDE DEF B, sd, k
    <3>1. uk[k] \in UserKey BY <2>2, <2>3
    <3>2. u1 \in UserKey /\ u1.req = uk[k].req /\ u1.last = uk[k].last BY <3>1 DEF UserKey
    <3> HIDE DEF u1
    <3>3. u2 \in UserKey /\ u2.req = uk[k].req /\ u2.last = uk[k].last BY <2>4, <3>2 DEF UserKey
    <3> HIDE DEF u2
    <3> QED BY <3>3 DEF UserKey
  <2> HIDE DEF u, k
  <2>9. LeavesKey(k) BY <2>2, <2>7, <2>8, ScanLeavesKey
  <2>10. \A j \in Key : LeavesKey(j) BY <1>1, <2>7, <2>9, SameLeaves
  <2> QED BY <1>1, <2>10, LeavesMerge
<1> QED BY <1>2, <1>3

\* A flush ends, and clean keys leave the memory.
LEMMA FlushEndMerge ==
  ASSUME ColumnInv, ColumnInv', MergeInv, NEW w \in Worker, FlushEnd(w)
  PROVE  MergeInv'
<1> DEFINE E == Evicted(w)
<1>1. /\ UserType /\ TableType /\ CleanKey /\ UNCHANGED <<reqs, hist, pending, wr, wk>>
      /\ uk' = [k \in Key |-> IF k \in E THEN NoUserKey ELSE uk[k]]
  BY DEF ColumnInv, FlushEnd
<1>2. \A k \in E : k \in Key /\ uk[k].present /\ ~uk[k].dirty
  <2>1. \A k \in fl[w].keys : k \in Key BY <1>1 DEF TableType, IsFlush
  <2>2. \A k \in Key : k <= k BY StateAssumption
  <2> QED BY <2>1, <2>2 DEF Evicted, InKeymap, Busy
<1> HIDE DEF E
<1>3. \A k \in Key : IF k \in E THEN uk'[k] = NoUserKey ELSE uk'[k] = uk[k] BY <1>1
<1>4. ASSUME NEW k \in Key PROVE LeavesKey(k)
  <2>1. CASE k \in E
    <3>1. Len(uk[k].cols) = 1 /\ uk[k].cols[1].st = "stored" BY <1>1, <1>2, <2>1 DEF CleanKey, Newest
    <3>2. uk[k].cols \in Seq(ColumnNode) BY <1>1 DEF UserType, UserKey
    <3>3. \A i \in DOMAIN uk[k].cols : i = 1 BY <3>1, <3>2
    <3>4. \A i \in DOMAIN uk[k].cols : uk[k].cols[i].st \notin {"pending", "submitting"} BY <3>1, <3>3
    <3> QED BY <1>3, <2>1, <3>4, GoneLeaves
  <2>2. CASE k \notin E BY <1>1, <1>3, <2>2, SameLeaves
  <2> QED BY <2>1, <2>2
<1> QED BY <1>1, <1>4, LeavesMerge

\* The other steps of a flush leave the columns alone.
LEMMA FlushMerge ==
  ASSUME ColumnInv, ColumnInv', MergeInv, NEW w \in Worker, FlushNext(w)
  PROVE  MergeInv'
<1>1. CASE FlushBuild(w) BY <1>1, FlushBuildMerge
<1>2. CASE FlushEnd(w) BY <1>2, FlushEndMerge
<1>3. CASE ~FlushBuild(w) /\ ~FlushEnd(w)
  <2>1. UNCHANGED <<uk, reqs, hist, wk, wr, pending>>
    <3>1. ASSUME NEW t \in Table, FlushStart(w, t) PROVE UNCHANGED <<uk, reqs, hist, wk, wr, pending>>
      BY <3>1 DEF FlushStart, userVars
    <3>2. CASE FlushWrite(w) BY <3>2 DEF FlushWrite, FlushVars, userVars
    <3>3. CASE FlushDelete(w) BY <3>3 DEF FlushDelete, FlushVars, userVars
    <3>4. CASE FlushUpdate(w) BY <3>4 DEF FlushUpdate, FlushVars, userVars
    <3>5. CASE ReleaseNRS(w) BY <3>5 DEF ReleaseNRS, FlushVars, userVars
    <3>6. CASE ReleaseRef(w) BY <3>6 DEF ReleaseRef, FlushVars, userVars
    <3> QED BY <1>3, <3>1, <3>2, <3>3, <3>4, <3>5, <3>6 DEF FlushNext
  <2> QED BY <2>1, OtherMerge
<1> QED BY <1>1, <1>2, <1>3

-----------------------------------------------------------------------------
(* All steps. *)

\* The database as it is opened: nothing waits.
LEMMA InitMerge ==
  ASSUME Init
  PROVE  MergeInv
<1>1. PICK load \in Workloads :
         /\ Opened(load.stored)
         /\ wr = [p \in Writer |-> [pc |-> "store", b |-> NoBatch, todo |-> load.batches[p], rq |-> 0]]
  BY DEF Init, InitState
<1>2. hist = [k \in load.stored |-> [key |-> k, del |-> FALSE, tid |-> NoTrxn]] BY <1>1 DEF Opened
<1>3. /\ pending = <<>> /\ reqs = Empty /\ uk = [k \in Key |-> NoUserKey]
      /\ wk = [w \in Worker |-> IdleWorker]
  BY DEF Init, InitState
<1>4. DOMAIN reqs = {} /\ \A k \in Key : uk[k] = NoUserKey BY <1>3 DEF Empty
<1>5. StackInv BY <1>4, NoUserKeyIs DEF StackInv
<1>6. MatchInv BY <1>4 DEF MatchInv
<1>7. LastInv BY <1>4, NoUserKeyIs DEF LastInv
<1>8. GroupsInv
  <2>1. \A i \in DOMAIN hist : hist[i].tid = NoTrxn BY <1>2
  <2>2. \A p \in Writer : wr[p].b.tid = NoTrxn BY <1>1 DEF NoBatch, NewBatch
  <2> QED BY <2>1, <2>2 DEF GroupsInv
<1>9. ASSUME NEW w \in Worker PROVE Todo(w) = {} /\ DOMAIN wk[w].log = {}
  <2>1. wk[w].pc = "idle" /\ wk[w].list = <<>> /\ wk[w].log = Empty BY <1>3 DEF IdleWorker
  <2>2. Todo(w) = 1..0 BY <2>1 DEF Todo, From
  <2> QED BY <2>1, <2>2 DEF Empty
<1>10. BuiltInv
  <2>1. DOMAIN pending = {} BY <1>3
  <2>2. \A p \in Writer : wr[p].pc = "store" BY <1>1
  <2> QED BY <1>9, <2>1, <2>2 DEF BuiltInv
<1>11. TakenInv BY <1>9 DEF TakenInv
<1>12. LoggedInv BY <1>9 DEF LoggedInv, IsLogged
<1> QED BY <1>5, <1>6, <1>7, <1>8, <1>10, <1>11, <1>12 DEF MergeInv, ListsInv

\* Every step keeps requests and columns together.
LEMMA NextMerge ==
  ASSUME ColumnInv, ColumnInv', TrxnInv, MergeInv, [Next]_vars
  PROVE  MergeInv'
<1>1. ASSUME NEW p \in Writer, Store(p) PROVE MergeInv'
  <2>1. Discard(p) \/ Insert(p) BY <1>1 DEF Store
  <2>2. TableInv BY DEF TrxnInv
  <2> QED BY <1>1, <2>1, <2>2, DiscardMerge, InsertMerge
<1>2. ASSUME NEW p \in Writer, PutColumnNodeToRequestQueue(p) PROVE MergeInv'
  BY <1>2, QueueMerge
<1>3. ASSUME NEW w \in Worker, WorkerNext(w) PROVE MergeInv'
  BY <1>3, PopMerge, WakeIdleMerge, MergeMerge, PutMerge, DecreaseMerge, UpdateMerge DEF WorkerNext
<1>4. ASSUME NEW w \in Worker, FlushNext(w) PROVE MergeInv' BY <1>4, FlushMerge
<1>5. CASE LogNext
  <2>1. UNCHANGED LogVars
    <3>1. ASSUME NEW w, LogScan(w) PROVE UNCHANGED LogVars BY <3>1 DEF LogScan
    <3>2. CASE LogRescan BY <3>2 DEF LogRescan
    <3>3. CASE LogMark BY <3>3 DEF LogMark
    <3>4. CASE LogDelete BY <3>4 DEF LogDelete
    <3> QED BY <1>5, <3>1, <3>2, <3>3, <3>4 DEF LogNext, LogStart
  <2>2. UNCHANGED <<uk, reqs, hist, wk, wr, pending>> BY <2>1 DEF LogVars, userVars
  <2> QED BY <2>2, OtherMerge
<1>6. CASE TakeSnapshot \/ (\E s \in DOMAIN snaps : ReleaseSnapshot(s)) \/ (\E t \in Thread : Publish(t))
  <2>1. UNCHANGED <<uk, reqs, hist, wk, wr, pending>>
    BY <1>6 DEF TakeSnapshot, ReleaseSnapshot, Publish, userVars, blockVars
  <2> QED BY <2>1, OtherMerge
<1>7. CASE UNCHANGED vars
  <2>1. UNCHANGED <<uk, reqs, hist, wk, wr, pending>> BY <1>7 DEF vars, userVars, blockVars
  <2> QED BY <2>1, OtherMerge
<1> QED BY <1>1, <1>2, <1>3, <1>4, <1>5, <1>6, <1>7 DEF Next

\* The log of a key block has for every column the transaction that wrote it, although a
\* request and its columns are filled and emptied apart, by writers, workers and flushes
\* (TrxnLogged; UserKey::DoVerticalMerge, RequestNode::GetTrxn).
THEOREM TrxnLoggedAlways == Spec => []TrxnLogged
<1>1. Init => ColumnInv /\ MergeInv BY InitColumns, InitMerge
<1>2. ColumnInv /\ MergeInv /\ TrxnInv /\ [Next]_vars => (ColumnInv /\ MergeInv)'
  <2> SUFFICES ASSUME ColumnInv, MergeInv, TrxnInv, [Next]_vars PROVE (ColumnInv /\ MergeInv)'
    OBVIOUS
  <2>1. ColumnInv' BY NextColumns
  <2>2. MergeInv' BY <2>1, NextMerge
  <2> QED BY <2>1, <2>2
<1>3. MergeInv => TrxnLogged BY DEF MergeInv, LoggedInv, IsLogged, TrxnLogged
<1> QED BY <1>1, <1>2, <1>3, TrxnInvAlways, PTL DEF Spec
=============================================================================
