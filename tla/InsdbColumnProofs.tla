-------------------------- MODULE InsdbColumnProofs --------------------------
(***************************************************************************)
(* Proof that a clean user key of insdb is exactly its row (CleanKey).  It *)
(* depends on the list of columns of every key: their order, the one that  *)
(* each request submits, those that are merged into it, and those that a   *)
(* flush takes to the device.  ColumnInv states these.                     *)
(***************************************************************************)
EXTENDS InsdbTrxnProofs, FiniteSetTheorems

-----------------------------------------------------------------------------
(* Types. *)

Op == [key : Key, del : BOOLEAN]
TrxnId == [g : Nat, i : Nat]
ColumnNode ==
    [id : Nat, begin : Nat, end : Nat, del : BOOLEAN,
     st : {"pending", "submitting", "merged", "lost", "stored"}, ikey : Nat,
     kbm : {"none", "log", "prim"}, trxn : BOOLEAN, split : BOOLEAN,
     committed : BOOLEAN, holding : BOOLEAN, recdel : BOOLEAN]
UserKey ==
    [present : BOOLEAN, fetched : BOOLEAN, dirty : BOOLEAN, cols : Seq(ColumnNode),
     req : Nat, last : Nat]
IsRequest(x) ==
    x \in [key : Key, trxns : Seq(TrxnId), latest : Nat, tgid : {x.tgid}, built : BOOLEAN]
AreRequests(f) == f = [x \in DOMAIN f |-> f[x]] /\ \A x \in DOMAIN f : IsRequest(f[x])
Batch == [count : Nat, sn : Nat, tid : TrxnId, ops : Seq(Op)]
WriterState ==
    [pc : {"store", "push", "slow", "asleep", "go"}, b : Batch, todo : Seq(Seq(Op)), rq : Nat]
RowOf == [id : Nat, begin : Nat, ikey : Nat]

\* Functions and records whose other parts do not matter here.
IsRows(f) == f \in [DOMAIN f -> RowOf] /\ DOMAIN f \subseteq Key
IsWorker(x) ==
    x \in [pc : {"idle", "merge", "put", "submit", "update"}, list : Seq(Nat), pos : Nat,
           log : {x.log}, ikey : Nat]
IsFlush(x) ==
    /\ x \in [pc : {"none", "build", "delete", "update", "release", "end"}, t : {x.t},
              snaps : {x.snaps}, todo : SUBSET Key, rows : {x.rows}, ents : {x.ents},
              keys : SUBSET Key]
    /\ IsRows(x.rows)

\* Writers, columns and requests.
UserType ==
    /\ seq \in Nat
    /\ uk \in [Key -> UserKey]
    /\ AreRequests(reqs) /\ DOMAIN reqs \subseteq 1..seq
    /\ pending \in Seq(Nat)
    /\ wr \in [Writer -> WriterState]
    /\ \A p \in Writer : wr[p].b.count = wr[p].b.sn + Len(wr[p].b.ops)
    /\ hist \in [DOMAIN hist -> [key : Key, del : BOOLEAN, tid : TrxnId]]
    /\ DOMAIN hist \subseteq 1..seq

\* Workers.
WorkerType ==
    /\ wk = [w \in Worker |-> wk[w]] /\ \A w \in Worker : IsWorker(wk[w])
    /\ ikeys \in [next : Nat, own : [Worker -> Nat]]

\* Tables and flushes.
TableType ==
    /\ fl = [w \in Worker |-> fl[w]] /\ \A w \in Worker : IsFlush(fl[w])
    /\ sktdf = [t \in Table |-> sktdf[t]] /\ \A t \in Table : IsRows(sktdf[t])

-----------------------------------------------------------------------------
(* Columns of a key. *)

\* Columns are writes of their key, the newest first; only a key in memory has any.
ColumnsInv ==
    \A k \in Key :
        /\ ~uk[k].present => uk[k] = NoUserKey
        /\ uk[k].present => uk[k].cols # <<>>
        /\ \A i \in DOMAIN uk[k].cols :
              uk[k].cols[i].id \in DOMAIN hist /\ hist[uk[k].cols[i].id].key = k
        /\ \A i, j \in DOMAIN uk[k].cols : i < j => uk[k].cols[j].id < uk[k].cols[i].id

\* Rows are writes of their key; those a key has not been united with are older than
\* its columns.
RowsInv ==
    \A k \in Key :
        LET older(row) == /\ row.id \in DOMAIN hist /\ hist[row.id].key = k
                          /\ ~uk[k].fetched =>
                                \A i \in DOMAIN uk[k].cols : row.id < uk[k].cols[i].id
        IN  /\ \A t \in Table : k \in DOMAIN sktdf[t] => TableOf[k] = t /\ older(sktdf[t][k])
            /\ \A w \in Worker : k \in DOMAIN fl[w].rows =>
                  TableOf[k] = fl[w].t /\ older(fl[w].rows[k])

\* Flushes are of different tables and have their keys; a clean key of a table that is
\* being flushed is one of those.
FlushesInv ==
    /\ \A w \in Worker :
          /\ fl[w].pc = "none" => fl[w] = NoFlush
          /\ fl[w].pc # "none" => fl[w].t \in Table
          /\ fl[w].pc \notin {"none", "build"} => fl[w].todo = {}
          /\ fl[w].todo \subseteq fl[w].keys
          /\ \A k \in fl[w].keys : TableOf[k] = fl[w].t
          /\ \A k \in Key : fl[w].pc # "none" /\ TableOf[k] = fl[w].t /\ uk[k].present /\ ~uk[k].dirty
                => k \in fl[w].keys
    /\ \A v, w \in Worker : fl[v].pc # "none" /\ fl[w].pc # "none" /\ fl[v].t = fl[w].t => v = w

\* The rows a clean key is found in, with flushes f and tables s.
RowsIn(f, s, k) ==
    LET F == {w \in Worker : f[w].pc # "none" /\ k \in f[w].keys \ f[w].todo}
    IN  IF F = {} THEN s[TableOf[k]] ELSE f[MinOf(F)].rows
RowsNow(k) == RowsIn(fl, sktdf, k)

-----------------------------------------------------------------------------
(* Requests. *)

\* The requests of a worker that it has not finished.
From(w) == IF wk[w].pc \in {"submit", "update"} THEN wk[w].pos ELSE 1
Todo(w) == From(w)..Len(wk[w].list)

\* A request is with one writer, or in the queue, or with one worker.
Places ==
    /\ \A i, j \in DOMAIN pending : pending[i] = pending[j] => i = j
    /\ \A i \in DOMAIN pending : pending[i] \in DOMAIN reqs
    /\ \A p \in Writer :
          IF wr[p].pc = "store" THEN wr[p].rq = 0
          ELSE /\ wr[p].rq \in DOMAIN reqs
               /\ \A i \in DOMAIN pending : pending[i] # wr[p].rq
    /\ \A p, q \in Writer : wr[p].pc # "store" /\ wr[p].rq = wr[q].rq => p = q
WorkerPlaces ==
    /\ \A w \in Worker :
          /\ wk[w].pc = "idle" => wk[w] = IdleWorker
          /\ wk[w].pc = "put" => wk[w].pos = 1
          /\ wk[w].pc # "idle" => wk[w].pos \in 1..Len(wk[w].list)
          /\ \A i \in Todo(w) :
                LET r == wk[w].list[i] IN
                /\ r \in DOMAIN reqs /\ reqs[r].latest # 0
                /\ \A j \in DOMAIN pending : pending[j] # r
                /\ \A p \in Writer : wr[p].rq # r
    /\ \A v, w \in Worker : \A i \in Todo(v), j \in Todo(w) :
          wk[v].list[i] = wk[w].list[j] => v = w /\ i = j

\* The request a key has open submits the newest column; it is the only one that is open,
\* and no other request submits that column.
OpenInv ==
    /\ \A k \in Key : uk[k].req # 0 =>
          uk[k].req \in DOMAIN reqs /\ reqs[uk[k].req].key = k /\ reqs[uk[k].req].latest = 0
    /\ \A r \in DOMAIN reqs : reqs[r].latest = 0 =>
          LET k == reqs[r].key IN
          /\ uk[k].req = r
          /\ ~NoColumns(k) /\ Newest(k).st = "pending"
          /\ \A x \in DOMAIN reqs : reqs[x].latest # Newest(k).id

\* A closed request has a column of its own, which has no block yet.
ClosedInv ==
    \A r \in DOMAIN reqs : reqs[r].latest # 0 =>
        /\ \E i \in DOMAIN uk[reqs[r].key].cols :
              /\ uk[reqs[r].key].cols[i].id = reqs[r].latest
              /\ uk[reqs[r].key].cols[i].st \in {"pending", "submitting"}
        /\ \A x \in DOMAIN reqs : reqs[x].latest = reqs[r].latest => x = r

-----------------------------------------------------------------------------
(* Lists from which columns are dropped. *)

\* The place of an element among those that stay.
OrderOf(kept, i) == Cardinality({j \in kept : j <= i})

\* Places are counted one by one.
LEMMA OrderFacts ==
  ASSUME NEW n \in Nat, NEW kept \in SUBSET (1..n)
  PROVE  /\ IsFiniteSet(kept) /\ Cardinality(kept) \in Nat
         /\ OrderOf(kept, 0) = 0 /\ OrderOf(kept, n) = Cardinality(kept)
         /\ \A i \in 0..n : OrderOf(kept, i) \in 0..Cardinality(kept)
         /\ \A i \in 1..n : OrderOf(kept, i) = OrderOf(kept, i - 1) + (IF i \in kept THEN 1 ELSE 0)
         /\ \A i, j \in 0..n : i <= j => OrderOf(kept, i) <= OrderOf(kept, j)
<1> DEFINE below(i) == {j \in kept : j <= i}
<1>0. \A j \in kept : j \in Nat /\ 1 <= j /\ j <= n OBVIOUS
<1>1. IsFiniteSet(kept) /\ Cardinality(kept) \in Nat
  <2>1. IsFiniteSet(1..n) BY FS_Interval
  <2> QED BY <2>1, FS_Subset, FS_CardinalityType
<1>2. \A i : IsFiniteSet(below(i)) /\ Cardinality(below(i)) \in Nat
  <2> TAKE i
  <2>1. below(i) \in SUBSET kept OBVIOUS
  <2> QED BY <1>1, <2>1, FS_Subset, FS_CardinalityType
<1>3. below(0) = {} /\ below(n) = kept
  <2>1. \A j \in kept : ~(j <= 0) /\ j <= n BY <1>0
  <2> QED BY <2>1
<1>4. \A i \in 0..n : OrderOf(kept, i) \in 0..Cardinality(kept)
  <2> TAKE i \in 0..n
  <2>1. below(i) \in SUBSET kept OBVIOUS
  <2>2. Cardinality(below(i)) <= Cardinality(kept) BY <1>1, <2>1, FS_Subset
  <2> QED BY <1>1, <1>2, <2>2 DEF OrderOf
<1>5. ASSUME NEW i \in 1..n
      PROVE  OrderOf(kept, i) = OrderOf(kept, i - 1) + (IF i \in kept THEN 1 ELSE 0)
  <2>1. CASE i \in kept
    <3>0. ~(i <= i - 1) /\ \A j \in kept : j <= i <=> (j <= i - 1 \/ j = i) BY <1>0
    <3>1. below(i) = below(i - 1) \cup {i} /\ i \notin below(i - 1) BY <2>1, <3>0
    <3>2. Cardinality(below(i - 1) \cup {i}) = Cardinality(below(i - 1)) + 1
      <4> HIDE DEF below
      <4> QED BY <1>2, <3>1, FS_AddElement
    <3> QED BY <2>1, <3>1, <3>2 DEF OrderOf
  <2>2. CASE i \notin kept
    <3>0. \A j \in kept : j <= i <=> j <= i - 1 BY <1>0, <2>2
    <3>1. below(i) = below(i - 1) BY <3>0
    <3> QED BY <1>2, <2>2, <3>1 DEF OrderOf
  <2> QED BY <2>1, <2>2
<1>6. ASSUME NEW i \in 0..n, NEW j \in 0..n, i <= j PROVE OrderOf(kept, i) <= OrderOf(kept, j)
  <2>0. \A l \in kept : l <= i => l <= j BY <1>0, <1>6
  <2>1. below(i) \in SUBSET below(j) BY <2>0
  <2>2. Cardinality(below(i)) <= Cardinality(below(j))
    <3> HIDE DEF below
    <3> QED BY <1>2, <2>1, FS_Subset
  <2> QED BY <2>2 DEF OrderOf
<1> QED BY <1>1, <1>3, <1>4, <1>5, <1>6, FS_EmptySet DEF OrderOf

\* Each place is taken by one element, and larger elements have later places.
LEMMA OrderOnto ==
  ASSUME NEW n \in Nat, NEW kept \in SUBSET (1..n)
  PROVE  /\ \A m \in 1..Cardinality(kept) : \E i \in kept : OrderOf(kept, i) = m
         /\ \A i, j \in kept : i < j => OrderOf(kept, i) < OrderOf(kept, j)
         /\ \A i \in kept : OrderOf(kept, i) \in 1..Cardinality(kept)
<1> DEFINE rank(i) == OrderOf(kept, i)
           c == Cardinality(kept)
<1>1. /\ c \in Nat /\ rank(0) = 0 /\ rank(n) = c
      /\ \A i \in 0..n : rank(i) \in 0..c
      /\ \A i \in 1..n : rank(i) = rank(i - 1) + (IF i \in kept THEN 1 ELSE 0)
      /\ \A i, j \in 0..n : i <= j => rank(i) <= rank(j)
      /\ \A i \in kept : i \in 1..n
  BY OrderFacts
<1> HIDE DEF rank, c
<1>2. ASSUME NEW m \in 1..c PROVE \E i \in kept : rank(i) = m
  <2> DEFINE S == {i \in 1..n : rank(i) >= m}
  <2>1. n \in S
    <3>1. n # 0 BY <1>1
    <3> QED BY <1>1, <3>1
  <2>2. PICK i \in S : \A j \in S : i <= j
    <3>1. S \subseteq Nat OBVIOUS
    <3> HIDE DEF S
    <3> QED BY <2>1, <3>1, Smallest
  <2>3. i \in 1..n /\ i - 1 \in 0..n /\ rank(i) >= m BY <2>2
  <2>4. rank(i - 1) < m
    <3>1. rank(i - 1) \in 0..c BY <1>1, <2>3
    <3>2. ASSUME rank(i - 1) >= m PROVE FALSE
      <4>1. i - 1 # 0 BY <1>1, <3>2
      <4>2. i - 1 \in S BY <2>3, <3>2, <4>1
      <4>3. i <= i - 1 BY <2>2, <4>2
      <4> QED BY <2>3, <4>3
    <3> QED BY <1>1, <3>1, <3>2
  <2>5. rank(i) = rank(i - 1) + (IF i \in kept THEN 1 ELSE 0) BY <1>1, <2>3
  <2>6. i \in kept /\ rank(i) = m
    <3>1. rank(i - 1) \in 0..c BY <1>1, <2>3
    <3> HIDE DEF S
    <3> QED BY <1>1, <2>3, <2>4, <2>5, <3>1
  <2> QED BY <2>6
<1>3. ASSUME NEW i \in kept, NEW j \in kept, i < j PROVE rank(i) < rank(j)
  <2>1. i \in 0..n /\ j \in 1..n /\ j - 1 \in 0..n /\ i <= j - 1 BY <1>1, <1>3
  <2>2. rank(i) <= rank(j - 1) BY <1>1, <2>1
  <2>3. rank(j) = rank(j - 1) + 1 BY <1>1, <2>1
  <2>4. rank(i) \in 0..c /\ rank(j - 1) \in 0..c BY <1>1, <2>1
  <2> QED BY <1>1, <2>2, <2>3, <2>4
<1>4. ASSUME NEW i \in kept PROVE rank(i) \in 1..c
  <2>1. i \in 1..n /\ i - 1 \in 0..n /\ i \in 0..n BY <1>1
  <2>2. rank(i) = rank(i - 1) + 1 BY <1>1, <2>1
  <2>3. rank(i) \in 0..c /\ rank(i - 1) \in 0..c BY <1>1, <2>1
  <2> QED BY <1>1, <2>2, <2>3
<1> QED BY <1>2, <1>3, <1>4 DEF rank, c

\* Where the elements of Keep come from: in order, one by one, all that stay.
KeptAt(cols, R, f) ==
    LET kept == DOMAIN cols \ R IN
    /\ f \in [1..Cardinality(kept) -> kept]
    /\ \A m, n \in DOMAIN f : m < n => f[m] < f[n]
    /\ \A i \in kept : OrderOf(kept, i) \in DOMAIN f /\ f[OrderOf(kept, i)] = i

\* List B is what is left of a list.
KeptList(cols, R, B, f) == KeptAt(cols, R, f) /\ \A m \in DOMAIN B : B[m] = cols[f[m]]

\* What Keep returns.
LEMMA KeepFacts ==
  ASSUME NEW T, NEW cols \in Seq(T), NEW R
  PROVE  /\ Keep(cols, R) \in Seq(T)
         /\ Len(Keep(cols, R)) = Cardinality(DOMAIN cols \ R)
         /\ \E f : KeptList(cols, R, Keep(cols, R), f)
<1> DEFINE n == Len(cols)
           kept == DOMAIN cols \ R
           nth(m) == CHOOSE i \in kept : Cardinality({j \in kept : j <= i}) = m
           f == [m \in 1..Cardinality(kept) |-> nth(m)]
<1>1. n \in Nat /\ kept \in SUBSET (1..n) /\ DOMAIN cols = 1..n OBVIOUS
<1> HIDE DEF n
<1>2. /\ Cardinality(kept) \in Nat
      /\ \A m \in 1..Cardinality(kept) : \E i \in kept : OrderOf(kept, i) = m
      /\ \A i, j \in kept : i < j => OrderOf(kept, i) < OrderOf(kept, j)
      /\ \A i \in kept : OrderOf(kept, i) \in 1..Cardinality(kept) /\ i \in Nat
  <2> HIDE DEF kept
  <2>1. Cardinality(kept) \in Nat BY <1>1, OrderFacts
  <2>2. \A i \in kept : i \in Nat BY <1>1
  <2> QED BY <1>1, <2>1, <2>2, OrderOnto
<1>3. \A m \in 1..Cardinality(kept) : nth(m) \in kept /\ OrderOf(kept, nth(m)) = m
  <2> TAKE m \in 1..Cardinality(kept)
  <2>1. \E i \in kept : OrderOf(kept, i) = m BY <1>2
  <2> HIDE DEF kept
  <2> QED BY <2>1 DEF OrderOf
<1> HIDE DEF nth
<1>4. f \in [1..Cardinality(kept) -> kept] BY <1>3
<1>5. Keep(cols, R) = [m \in 1..Cardinality(kept) |-> cols[nth(m)]] BY DEF Keep, nth
<1>6. \A m \in 1..Cardinality(kept) : cols[nth(m)] \in T BY <1>1, <1>3
<1>7. /\ Keep(cols, R) \in Seq(T) /\ Len(Keep(cols, R)) = Cardinality(kept)
      /\ DOMAIN Keep(cols, R) = 1..Cardinality(kept)
  <2> HIDE DEF kept
  <2> QED BY <1>2, <1>5, <1>6
<1>8. \A m \in DOMAIN Keep(cols, R) : Keep(cols, R)[m] = cols[f[m]]
  <2> HIDE DEF kept
  <2> QED BY <1>5
<1>9. \A i \in kept : OrderOf(kept, i) \in 1..Cardinality(kept) /\ f[OrderOf(kept, i)] = i
  <2> TAKE i \in kept
  <2> HIDE DEF kept
  <2>1. OrderOf(kept, i) \in 1..Cardinality(kept) BY <1>2
  <2>2. nth(OrderOf(kept, i)) \in kept /\ OrderOf(kept, nth(OrderOf(kept, i))) = OrderOf(kept, i)
    BY <1>3, <2>1
  <2>3. nth(OrderOf(kept, i)) = i
    <3> DEFINE x == nth(OrderOf(kept, i))
    <3>1. x \in kept /\ OrderOf(kept, x) = OrderOf(kept, i) BY <2>2
    <3> HIDE DEF x
    <3>2. ~(x < i) /\ ~(i < x) BY <1>2, <2>1, <3>1
    <3>3. x \in Nat /\ i \in Nat BY <1>2, <3>1
    <3>4. x = i BY <3>2, <3>3
    <3> QED BY <3>4 DEF x
  <2> QED BY <2>1, <2>3
<1>10. \A l, m \in 1..Cardinality(kept) : l < m => f[l] < f[m]
  <2> TAKE l, m \in 1..Cardinality(kept)
  <2> HAVE l < m
  <2>1. f[l] \in kept /\ f[m] \in kept /\ OrderOf(kept, f[l]) = l /\ OrderOf(kept, f[m]) = m BY <1>3
  <2>2. ~(f[m] < f[l]) /\ f[m] # f[l]
    <3> HIDE DEF f, kept
    <3> QED BY <1>2, <2>1
  <2> HIDE DEF f, kept
  <2>3. f[l] \in Nat /\ f[m] \in Nat BY <1>2, <2>1
  <2> QED BY <2>2, <2>3
<1>11. KeptAt(cols, R, f)
  <2>1. DOMAIN f = 1..Cardinality(kept) BY <1>4
  <2> HIDE DEF f
  <2> QED BY <1>4, <1>9, <1>10, <2>1 DEF KeptAt
<1> QED BY <1>7, <1>8, <1>11 DEF KeptList

\* Where columns are dropped between positions h and e only, the ones in front of them
\* keep their positions and the ones behind them move up by d.
Shifted(n, h, e, f, d) ==
    /\ d <= e - 1 - h /\ DOMAIN f = 1..(n - d)
    /\ \A i \in 1..h : i \in DOMAIN f /\ f[i] = i
    /\ \A i \in e..n : i - d \in DOMAIN f /\ f[i - d] = i
    /\ \A m \in DOMAIN f : /\ f[m] <= h => f[m] = m
                           /\ e <= f[m] => f[m] = m + d

\* Keep shifts them.
LEMMA KeepShift ==
  ASSUME NEW T, NEW cols \in Seq(T), NEW h \in 0..Len(cols),
         NEW e \in (h + 1)..(Len(cols) + 1), NEW R \in SUBSET ((h + 1)..(e - 1)),
         NEW f, KeptAt(cols, R, f)
  PROVE  \E d \in Nat : Shifted(Len(cols), h, e, f, d)
<1> DEFINE n == Len(cols)
           kept == DOMAIN cols \ R
           d == Cardinality(R)
<1>1. /\ n \in Nat /\ DOMAIN cols = 1..n
      /\ h \in Nat /\ e \in Nat /\ h <= n /\ h + 1 <= e /\ e <= n + 1
      /\ \A j \in R : j \in Nat /\ h + 1 <= j /\ j <= e - 1
  OBVIOUS
<1> HIDE DEF n
<1>2. IsFiniteSet(R) /\ d \in Nat /\ d <= e - 1 - h
  <2>1. IsFiniteSet((h + 1)..(e - 1)) /\ Cardinality((h + 1)..(e - 1)) = e - 1 - h
    <3>1. h + 1 \in Int /\ e - 1 \in Int BY <1>1
    <3>2. /\ IsFiniteSet((h + 1)..(e - 1))
          /\ Cardinality((h + 1)..(e - 1)) = IF h + 1 > e - 1 THEN 0 ELSE (e - 1) - (h + 1) + 1
      BY <3>1, FS_Interval
    <3> QED BY <1>1, <3>2
  <2> QED BY <2>1, FS_Subset, FS_CardinalityType
<1> HIDE DEF d
<1>3. ASSUME NEW i \in 1..n, i <= h PROVE i \in kept /\ OrderOf(kept, i) = i
  <2>1. \A j \in 1..i : j \notin R BY <1>1, <1>3
  <2>2. \A j : j \in {x \in kept : x <= i} <=> j \in 1..i BY <1>1, <1>3, <2>1
  <2>3. {x \in kept : x <= i} = 1..i BY <2>2
  <2>4. Cardinality(1..i) = i BY FS_Interval
  <2>5. i \in kept BY <1>1, <2>1
  <2> QED BY <2>3, <2>4, <2>5 DEF OrderOf
<1>4. ASSUME NEW i \in 0..n, e - 1 <= i PROVE OrderOf(kept, i) = i - d
  <2>1. \A j \in R : j \in 1..i /\ j \in 1..n BY <1>1, <1>4
  <2>2. \A j : j \in {x \in kept : x <= i} <=> j \in (1..i) \ R BY <1>1, <1>4, <2>1
  <2>3. {x \in kept : x <= i} = (1..i) \ R BY <2>2
  <2>4. IsFiniteSet(1..i) /\ Cardinality(1..i) = i BY FS_Interval
  <2>5. (1..i) \cap R = R BY <2>1
  <2>6. Cardinality((1..i) \ R) = Cardinality(1..i) - Cardinality((1..i) \cap R)
    <3> HIDE DEF kept
    <3> QED BY <2>4, FS_Difference
  <2> QED BY <2>3, <2>4, <2>5, <2>6 DEF OrderOf, d
<1>5. ASSUME NEW i \in 1..n, e <= i PROVE i \in kept BY <1>1, <1>5
<1>6. Cardinality(kept) = n - d
  <2>0. n \in 0..n /\ e - 1 <= n BY <1>1
  <2>1. OrderOf(kept, n) = n - d
    <3> HIDE DEF kept
    <3> QED BY <1>4, <2>0
  <2>2. kept \in SUBSET (1..n) BY <1>1
  <2>3. OrderOf(kept, n) = Cardinality(kept)
    <3>1. \A K \in SUBSET (1..n) : OrderOf(K, n) = Cardinality(K) BY <1>1, OrderFacts
    <3> QED BY <2>2, <3>1
  <2> QED BY <2>1, <2>3
<1>7. /\ f \in [1..(n - d) -> kept]
      /\ \A l, m \in DOMAIN f : l < m => f[l] < f[m]
      /\ \A i \in kept : OrderOf(kept, i) \in DOMAIN f /\ f[OrderOf(kept, i)] = i
  BY <1>6 DEF KeptAt
<1>8. \A m \in DOMAIN f : m = OrderOf(kept, f[m])
  <2> TAKE m \in DOMAIN f
  <2>1. f[m] \in kept /\ m \in 1..(n - d) BY <1>7
  <2>2. OrderOf(kept, f[m]) \in DOMAIN f /\ f[OrderOf(kept, f[m])] = f[m] BY <1>7, <2>1
  <2>3. OrderOf(kept, f[m]) \in 1..(n - d) BY <1>7, <2>2
  <2>4. f[m] \in Nat BY <1>1, <2>1
  <2>5. ~(m < OrderOf(kept, f[m])) /\ ~(OrderOf(kept, f[m]) < m)
    <3> HIDE DEF kept
    <3> QED BY <1>7, <2>2, <2>4
  <2> QED BY <2>1, <2>3, <2>5
<1>9. \A m \in DOMAIN f : f[m] \in 1..n BY <1>1, <1>7
<1>10. \A m \in DOMAIN f : (f[m] <= h => f[m] = m) /\ (e <= f[m] => f[m] = m + d)
  <2> TAKE m \in DOMAIN f
  <2>1. f[m] <= h => m = f[m] BY <1>3, <1>8, <1>9
  <2>2. e <= f[m] => m = f[m] - d
    <3> HAVE e <= f[m]
    <3>1. f[m] \in 0..n /\ e - 1 <= f[m] BY <1>9 DEF n
    <3> QED BY <1>4, <1>8, <3>1
  <2> QED BY <1>2, <1>9, <2>1, <2>2
<1>11. \A i \in 1..h : i \in DOMAIN f /\ f[i] = i
  <2> TAKE i \in 1..h
  <2>1. i \in 1..n /\ i <= h BY <1>1 DEF n
  <2> QED BY <1>3, <1>7, <2>1
<1>12. \A i \in e..n : i - d \in DOMAIN f /\ f[i - d] = i
  <2> TAKE i \in e..n
  <2>1. i \in 1..n /\ e <= i /\ i \in 0..n /\ e - 1 <= i BY <1>1 DEF n
  <2>2. i \in kept /\ OrderOf(kept, i) = i - d BY <1>4, <1>5, <2>1
  <2> QED BY <1>7, <2>2
<1>13. DOMAIN f = 1..(n - d) BY <1>7
<1>14. Shifted(n, h, e, f, d) BY <1>2, <1>10, <1>11, <1>12, <1>13 DEF Shifted
<1> QED BY <1>2, <1>14 DEF n

-----------------------------------------------------------------------------
(* Writers. *)

\* The batch a writer is in.
LEMMA CurrentFacts ==
  ASSUME UserType, NEW p \in Writer, Current(p).ops # <<>>
  PROVE  /\ Current(p) \in Batch /\ NextOp(p) \in Op
         /\ Current(p).count = Current(p).sn + Len(Current(p).ops)
         /\ Tail(Current(p).ops) \in Seq(Op) /\ Len(Current(p).ops) \in Nat \ {0}
         /\ Len(Tail(Current(p).ops)) = Len(Current(p).ops) - 1
         /\ wr[p].b = NoBatch => wr[p].todo # <<>> /\ Tail(wr[p].todo) \in Seq(Seq(Op))
         /\ Current(p).tid = wr[p].b.tid
<1>1. wr[p] \in WriterState /\ wr[p].b.count = wr[p].b.sn + Len(wr[p].b.ops) BY DEF UserType
<1>2. wr[p].b \in Batch /\ wr[p].todo \in Seq(Seq(Op)) BY <1>1 DEF WriterState
<1>3. CASE wr[p].b = NoBatch /\ wr[p].todo # <<>>
  <2>1. Head(wr[p].todo) \in Seq(Op) /\ Tail(wr[p].todo) \in Seq(Seq(Op)) BY <1>2, <1>3
  <2>2. Current(p) = NewBatch(Head(wr[p].todo)) BY <1>3 DEF Current
  <2>3. /\ Current(p) \in Batch /\ Current(p).tid = NoTrxn
        /\ Current(p).ops = Head(wr[p].todo)
        /\ Current(p).count = Len(Current(p).ops) /\ Current(p).sn = 0
    BY <2>1, <2>2 DEF NewBatch, Batch, TrxnId, NoTrxn
  <2>4. wr[p].b.tid = NoTrxn BY <1>3 DEF NoBatch, NewBatch
  <2> QED BY <1>3, <2>1, <2>3, <2>4 DEF NextOp
<1>4. CASE ~(wr[p].b = NoBatch /\ wr[p].todo # <<>>)
  <2>1. Current(p) = wr[p].b BY <1>4 DEF Current
  <2>2. wr[p].b # NoBatch BY <2>1 DEF NoBatch, NewBatch
  <2>3. wr[p].b.ops \in Seq(Op) BY <1>2 DEF Batch
  <2> QED BY <1>1, <1>2, <2>1, <2>2, <2>3 DEF NextOp
<1> QED BY <1>3, <1>4

\* A writer after a write.
LEMMA WrittenFacts ==
  ASSUME UserType, NEW p \in Writer, Current(p).ops # <<>>,
         NEW b \in Batch, b.ops = Current(p).ops, b.count + 1 = b.sn + Len(b.ops),
         NEW to \in {"store", "push"}, NEW r \in Nat, Written(p, b, to, r)
  PROVE  /\ wr' \in [Writer -> WriterState]
         /\ \A q \in Writer : wr'[q].b.count = wr'[q].b.sn + Len(wr'[q].b.ops)
         /\ \A q \in Writer : q # p => wr'[q] = wr[q]
         /\ wr'[p].pc = to /\ wr'[p].rq = r /\ wr'[p].b.tid \in {b.tid, NoTrxn}
<1> DEFINE nb == IF Tail(b.ops) = <<>> THEN NoBatch ELSE [b EXCEPT !.ops = Tail(@)]
           nt == IF wr[p].b = NoBatch THEN Tail(wr[p].todo) ELSE wr[p].todo
<1>1. wr' = [wr EXCEPT ![p] = [pc |-> to, rq |-> r, b |-> nb, todo |-> nt]] BY DEF Written
<1>2. /\ Tail(b.ops) \in Seq(Op) /\ Len(Tail(b.ops)) = Len(b.ops) - 1 /\ Len(b.ops) \in Nat \ {0}
  BY CurrentFacts
<1>3. nb \in Batch /\ nb.count = nb.sn + Len(nb.ops) /\ nb.tid \in {b.tid, NoTrxn}
  <2>1. CASE Tail(b.ops) = <<>>
    BY <2>1 DEF NoBatch, NewBatch, Batch, TrxnId, NoTrxn
  <2>2. CASE Tail(b.ops) # <<>>
    <3>1. nb = [b EXCEPT !.ops = Tail(@)] BY <2>2
    <3>2. nb \in Batch /\ nb.ops = Tail(b.ops) /\ nb.count = b.count /\ nb.sn = b.sn /\ nb.tid = b.tid
      BY <1>2, <3>1 DEF Batch
    <3>3. b.count \in Nat /\ b.sn \in Nat BY DEF Batch
    <3>4. b.count + 1 = b.sn + Len(b.ops) OBVIOUS
    <3>5. b.count = b.sn + (Len(b.ops) - 1) BY <1>2, <3>3, <3>4
    <3> HIDE DEF nb
    <3> QED BY <1>2, <3>2, <3>5
  <2> QED BY <2>1, <2>2
<1>4. nt \in Seq(Seq(Op)) BY CurrentFacts DEF UserType, WriterState
<1> HIDE DEF nb, nt
<1>5. [pc |-> to, rq |-> r, b |-> nb, todo |-> nt] \in WriterState
  BY <1>3, <1>4 DEF WriterState
<1>6. wr \in [Writer -> WriterState]
      /\ \A q \in Writer : wr[q].b.count = wr[q].b.sn + Len(wr[q].b.ops) BY DEF UserType
<1>7. /\ wr' \in [Writer -> WriterState] /\ \A q \in Writer : q # p => wr'[q] = wr[q]
      /\ wr'[p] = [pc |-> to, rq |-> r, b |-> nb, todo |-> nt]
  BY <1>1, <1>5, <1>6
<1> QED BY <1>3, <1>6, <1>7

\* The columns under a new one: only the first one changes, and only where it ends.
LEMMA OlderFacts ==
  ASSUME UserType, NEW k \in Key, NEW tid, NEW s \in Nat
  PROVE  LET cols == uk[k].cols O == Older(k, tid, s) IN
         /\ cols \in Seq(ColumnNode) /\ Len(cols) \in Nat /\ DOMAIN cols = 1..Len(cols)
         /\ O \in Seq(ColumnNode) /\ Len(O) = Len(cols) /\ DOMAIN O = DOMAIN cols
         /\ \A i \in DOMAIN cols :
               /\ O[i].id = cols[i].id /\ O[i].trxn = cols[i].trxn
               /\ i # 1 => O[i] = cols[i]
               /\ O[i].st = IF i = 1 /\ cols[i].st = "merged" THEN "lost" ELSE cols[i].st
               /\ O[i].split = (cols[i].split \/ (i = 1 /\ Splits(k, tid)))
<1> DEFINE cols == uk[k].cols
           O == Older(k, tid, s)
<1>1. cols \in Seq(ColumnNode) BY DEF UserType, UserKey
<1>2. CASE cols = <<>>
  <2>1. O = <<>> BY <1>2 DEF Older, NoColumns
  <2> QED BY <1>1, <1>2, <2>1
<1>3. CASE cols # <<>>
  <2> DEFINE c == [Superseded(cols[1], s) EXCEPT !.split = IF Splits(k, tid) THEN TRUE ELSE @]
  <2>1. O = [cols EXCEPT ![1] = c] BY <1>3 DEF Older, NoColumns, Newest
  <2>2. 1 \in DOMAIN cols /\ cols[1] \in ColumnNode BY <1>1, <1>3
  <2>3. /\ Superseded(cols[1], s) \in ColumnNode
        /\ Superseded(cols[1], s).id = cols[1].id /\ Superseded(cols[1], s).trxn = cols[1].trxn
        /\ Superseded(cols[1], s).split = cols[1].split
        /\ Superseded(cols[1], s).st = IF cols[1].st = "merged" THEN "lost" ELSE cols[1].st
    BY <2>2 DEF ColumnNode, Superseded
  <2>4. /\ c \in ColumnNode /\ c.id = cols[1].id /\ c.trxn = cols[1].trxn
        /\ c.st = (IF cols[1].st = "merged" THEN "lost" ELSE cols[1].st)
        /\ c.split = (cols[1].split \/ Splits(k, tid))
    <3> DEFINE x == Superseded(cols[1], s)
    <3>1. x \in ColumnNode BY <2>3
    <3>2. cols[1].split \in BOOLEAN /\ x.split = cols[1].split BY <2>2, <2>3 DEF ColumnNode
    <3>3. c = [x EXCEPT !.split = IF Splits(k, tid) THEN TRUE ELSE x.split] OBVIOUS
    <3> HIDE DEF x, c
    <3>4. c \in ColumnNode /\ c.id = x.id /\ c.trxn = x.trxn /\ c.st = x.st
          /\ c.split = IF Splits(k, tid) THEN TRUE ELSE x.split
      BY <3>1, <3>2, <3>3 DEF ColumnNode
    <3>5. c.split = (cols[1].split \/ Splits(k, tid)) BY <3>2, <3>4
    <3> QED BY <2>3, <3>4, <3>5 DEF x
  <2> HIDE DEF c
  <2>5. /\ O \in Seq(ColumnNode) /\ Len(O) = Len(cols) /\ DOMAIN O = DOMAIN cols
        /\ O[1] = c /\ \A i \in DOMAIN cols : i # 1 => O[i] = cols[i]
    BY <1>1, <2>1, <2>2, <2>4
  <2>6. \A i \in DOMAIN cols : cols[i] \in ColumnNode BY <1>1
  <2> HIDE DEF O, cols
  <2>7. ASSUME NEW i \in DOMAIN cols
        PROVE  /\ O[i].id = cols[i].id /\ O[i].trxn = cols[i].trxn
               /\ O[i].st = IF i = 1 /\ cols[i].st = "merged" THEN "lost" ELSE cols[i].st
               /\ O[i].split = (cols[i].split \/ (i = 1 /\ Splits(k, tid)))
    <3>1. CASE i = 1 BY <2>4, <2>5, <3>1
    <3>2. CASE i # 1
      <4>1. cols[i].split \in BOOLEAN BY <2>6 DEF ColumnNode
      <4> QED BY <2>5, <3>2, <4>1
    <3> QED BY <3>1, <3>2
  <2> QED BY <1>1, <2>5, <2>7 DEF O, cols
<1> QED BY <1>2, <1>3

HistNode == [key : Key, del : BOOLEAN, tid : TrxnId]

\* A column c of key k and transaction tid is inserted by writer p.
New(k, tid) == ~Scheduled(k) \/ Splits(k, tid)
Inserts(p, k, tid, c) ==
    /\ c \in ColumnNode /\ c.id = seq + 1 /\ c.st = "pending" /\ c.split = FALSE
    /\ c.trxn = (tid # NoTrxn)
    /\ tid \in TrxnId /\ tid \in {nextTrxn, wr[p].b.tid}
    /\ seq' = seq + 1
    /\ uk' = [uk EXCEPT ![k] =
                 [uk[k] EXCEPT !.present = TRUE, !.dirty = TRUE, !.last = tid.g,
                               !.cols = <<c>> \o Older(k, tid, seq + 1),
                               !.req = IF New(k, tid) THEN seq + 1 ELSE @]]
    /\ Schedule(k, tid, seq + 1)
    /\ \E h \in HistNode : h.key = k /\ h.tid = tid /\ hist' = With(hist, seq + 1, h)
    /\ wr[p].pc = "store" /\ Len(Current(p).ops) > 0
    /\ wr' \in [Writer -> WriterState]
    /\ \A q \in Writer : wr'[q].b.count = wr'[q].b.sn + Len(wr'[q].b.ops)
    /\ \A q \in Writer : q # p => wr'[q] = wr[q]
    /\ wr'[p].pc = IF New(k, tid) THEN "push" ELSE "store"
    /\ wr'[p].rq = IF New(k, tid) THEN seq + 1 ELSE 0
    /\ wr'[p].b.tid \in {tid, NoTrxn}
    /\ UNCHANGED <<pending, wk, fl, sktdf, ikeys>>

\* A batch after a write of it.
LEMMA BatchStored ==
  ASSUME NEW b \in Batch, NEW tid \in TrxnId
  PROVE  LET nb == [b EXCEPT !.sn = @ + 1, !.tid = tid] IN
         nb \in Batch /\ nb.ops = b.ops /\ nb.count = b.count /\ nb.sn = b.sn + 1 /\ nb.tid = tid
<1> DEFINE x == [b EXCEPT !.sn = @ + 1]
<1>1. x \in Batch /\ x.ops = b.ops /\ x.count = b.count /\ x.sn = b.sn + 1 BY DEF Batch
<1>2. [b EXCEPT !.sn = @ + 1, !.tid = tid] = [x EXCEPT !.tid = tid] BY DEF Batch
<1> HIDE DEF x
<1>3. LET nb == [x EXCEPT !.tid = tid] IN
      nb \in Batch /\ nb.ops = x.ops /\ nb.count = x.count /\ nb.sn = x.sn /\ nb.tid = tid
  BY <1>1 DEF Batch
<1> QED BY <1>1, <1>2, <1>3

\* What the insertion of a write does.
LEMMA InsertIs ==
  ASSUME UserType, TableInv, NEW p \in Writer, Store(p), Insert(p)
  PROVE  \E k \in Key : \E tid, c : Inserts(p, k, tid, c)
<1> DEFINE b == Current(p)
           op == NextOp(p)
           k == op.key
           s == seq + 1
           first == b.count > 1 /\ b.tid = NoTrxn
           tid == IF first THEN nextTrxn ELSE b.tid
           c == Column(s, op.del, tid # NoTrxn)
           nb == [b EXCEPT !.sn = @ + 1, !.tid = tid]
           to == IF New(k, tid) THEN "push" ELSE "store"
           r == IF New(k, tid) THEN s ELSE 0
<1>1. wr[p].pc = "store" /\ Current(p).ops # <<>> /\ UNCHANGED <<wk, fl, sktdf, ikeys>>
  BY DEF Store, blockVars
<1>2. /\ b \in Batch /\ op \in Op /\ b.count = b.sn + Len(b.ops) /\ Len(b.ops) \in Nat \ {0}
      /\ b.tid = wr[p].b.tid
  BY <1>1, CurrentFacts
<1>3. seq \in Nat /\ nextTrxn \in TrxnId BY DEF UserType, TableInv, TrxnId
<1>4. k \in Key /\ op.del \in BOOLEAN BY <1>2 DEF Op
<1>5. tid \in TrxnId /\ tid \in {nextTrxn, wr[p].b.tid} BY <1>2, <1>3 DEF Batch
<1>6. /\ seq' = s /\ Schedule(k, tid, s) /\ UNCHANGED pending
      /\ uk' = [uk EXCEPT ![k] =
                 [uk[k] EXCEPT !.present = TRUE, !.dirty = TRUE, !.last = tid.g,
                               !.cols = <<c>> \o Older(k, tid, s),
                               !.req = IF New(k, tid) THEN s ELSE @]]
      /\ hist' = With(hist, s, [key |-> k, del |-> op.del, tid |-> tid])
      /\ Written(p, nb, to, r)
  BY DEF Insert, New
<1> HIDE DEF tid
<1>7. c \in ColumnNode /\ c.id = s /\ c.st = "pending" /\ c.split = FALSE /\ c.trxn = (tid # NoTrxn)
  BY <1>3, <1>4, StateAssumption DEF Column, ColumnNode
<1> HIDE DEF c, k, op, b
<1>8. [key |-> k, del |-> op.del, tid |-> tid] \in HistNode BY <1>4, <1>5 DEF HistNode
<1>9. nb \in Batch /\ nb.ops = b.ops /\ nb.count + 1 = nb.sn + Len(nb.ops) /\ nb.tid = tid
  <2>1. b.count \in Nat /\ b.sn \in Nat BY <1>2 DEF Batch
  <2>2. nb \in Batch /\ nb.ops = b.ops /\ nb.count = b.count /\ nb.sn = b.sn + 1 /\ nb.tid = tid
    BY <1>2, <1>5, BatchStored
  <2> QED BY <1>2, <2>1, <2>2
<1> HIDE DEF nb
<1>10. r \in Nat /\ to \in {"store", "push"} BY <1>3
<1>11. /\ wr' \in [Writer -> WriterState]
       /\ \A q \in Writer : wr'[q].b.count = wr'[q].b.sn + Len(wr'[q].b.ops)
       /\ \A q \in Writer : q # p => wr'[q] = wr[q]
       /\ wr'[p].pc = to /\ wr'[p].rq = r /\ wr'[p].b.tid \in {nb.tid, NoTrxn}
  <2> HIDE DEF to, r
  <2> QED BY <1>1, <1>6, <1>9, <1>10, WrittenFacts DEF b
<1>12. \E h \in HistNode : h.key = k /\ h.tid = tid /\ hist' = With(hist, s, h)
  BY <1>6, <1>8
<1>13. Len(Current(p).ops) > 0 BY <1>2 DEF b
<1>14. Inserts(p, k, tid, c)
  BY <1>1, <1>5, <1>6, <1>7, <1>9, <1>11, <1>12, <1>13 DEF Inserts
<1> QED BY <1>4, <1>14

\* The list of columns after an insertion.
Pushed(k, tid, c) ==
    LET A == uk[k].cols B == uk'[k].cols IN
    /\ uk' \in [Key -> UserKey]
    /\ \A j \in Key : j # k => uk'[j] = uk[j]
    /\ uk'[k].present /\ uk'[k].dirty /\ uk'[k].fetched = uk[k].fetched /\ uk'[k].last = tid.g
    /\ uk'[k].req = IF New(k, tid) THEN seq + 1 ELSE uk[k].req
    /\ DOMAIN A = 1..Len(A) /\ Len(A) \in Nat
    /\ Len(B) = Len(A) + 1 /\ DOMAIN B = 1..(Len(A) + 1) /\ B[1] = c
    /\ \A i \in DOMAIN A :
          /\ B[i + 1].id = A[i].id /\ B[i + 1].trxn = A[i].trxn
          /\ i # 1 => B[i + 1] = A[i]
          /\ B[i + 1].st = IF i = 1 /\ A[i].st = "merged" THEN "lost" ELSE A[i].st
          /\ B[i + 1].split = (A[i].split \/ (i = 1 /\ Splits(k, tid)))

\* The insertion pushes the column.
LEMMA InsertPushes ==
  ASSUME UserType, NEW p \in Writer, NEW k \in Key, NEW tid, NEW c, Inserts(p, k, tid, c)
  PROVE  Pushed(k, tid, c)
<1> DEFINE A == uk[k].cols
           O == Older(k, tid, seq + 1)
           B == <<c>> \o O
           rq == IF New(k, tid) THEN seq + 1 ELSE uk[k].req
           u == [uk[k] EXCEPT !.present = TRUE, !.dirty = TRUE, !.last = tid.g,
                              !.cols = B, !.req = rq]
<1>1. uk' = [uk EXCEPT ![k] = u] BY DEF Inserts
<1>2. seq + 1 \in Nat /\ c \in ColumnNode /\ tid.g \in Nat BY DEF UserType, Inserts, TrxnId
<1>3. /\ A \in Seq(ColumnNode) /\ Len(A) \in Nat /\ DOMAIN A = 1..Len(A)
      /\ O \in Seq(ColumnNode) /\ Len(O) = Len(A) /\ DOMAIN O = DOMAIN A
      /\ \A i \in DOMAIN A :
               /\ O[i].id = A[i].id /\ O[i].trxn = A[i].trxn
               /\ i # 1 => O[i] = A[i]
               /\ O[i].st = IF i = 1 /\ A[i].st = "merged" THEN "lost" ELSE A[i].st
               /\ O[i].split = (A[i].split \/ (i = 1 /\ Splits(k, tid)))
  BY <1>2, OlderFacts
<1> HIDE DEF O
<1>4. /\ B \in Seq(ColumnNode) /\ Len(B) = Len(A) + 1 /\ DOMAIN B = 1..(Len(A) + 1)
      /\ B[1] = c /\ \A i \in DOMAIN A : B[i + 1] = O[i]
  <2> HIDE DEF A
  <2> QED BY <1>2, <1>3
<1> HIDE DEF B
<1>5. uk \in [Key -> UserKey] /\ uk[k] \in UserKey BY DEF UserType
<1>6. rq \in Nat BY <1>2, <1>5 DEF UserKey
<1> HIDE DEF rq
<1>7. /\ u \in UserKey /\ u.present = TRUE /\ u.dirty = TRUE /\ u.fetched = uk[k].fetched
      /\ u.last = tid.g /\ u.req = rq /\ u.cols = B
  BY <1>2, <1>4, <1>5, <1>6 DEF UserKey
<1> HIDE DEF u
<1>8. uk' \in [Key -> UserKey] /\ uk'[k] = u /\ \A j \in Key : j # k => uk'[j] = uk[j]
  BY <1>1, <1>5, <1>7
<1>9. ASSUME NEW i \in DOMAIN A
      PROVE  /\ B[i + 1].id = A[i].id /\ B[i + 1].trxn = A[i].trxn
             /\ i # 1 => B[i + 1] = A[i]
             /\ B[i + 1].st = IF i = 1 /\ A[i].st = "merged" THEN "lost" ELSE A[i].st
             /\ B[i + 1].split = (A[i].split \/ (i = 1 /\ Splits(k, tid)))
  <2> HIDE DEF A
  <2> QED BY <1>3, <1>4
<1>10. uk'[k].cols = B BY <1>7, <1>8
<1>11. /\ uk'[k].present /\ uk'[k].dirty /\ uk'[k].fetched = uk[k].fetched /\ uk'[k].last = tid.g
       /\ uk'[k].req = IF New(k, tid) THEN seq + 1 ELSE uk[k].req
  BY <1>7, <1>8 DEF rq
<1> QED BY <1>3, <1>4, <1>8, <1>9, <1>10, <1>11 DEF Pushed

\* The requests after an insertion: the open one of the key is closed where the group
\* ends, or takes the transaction; a new one is opened.
Scheduling(k, tid) ==
    LET q == uk[k].req IN
    /\ AreRequests(reqs')
    /\ DOMAIN reqs' = DOMAIN reqs \cup (IF New(k, tid) THEN {seq + 1} ELSE {})
    /\ seq + 1 \notin DOMAIN reqs
    /\ New(k, tid) => reqs'[seq + 1] = NewRequest(k, tid)
    /\ Splits(k, tid) \/ (~New(k, tid) /\ tid # NoTrxn) => q # 0
    /\ \A r \in DOMAIN reqs :
          /\ reqs'[r].key = reqs[r].key /\ reqs'[r].built = reqs[r].built
          /\ reqs'[r].tgid = reqs[r].tgid
          /\ reqs'[r].latest = IF r = q /\ Splits(k, tid) THEN Newest(k).id ELSE reqs[r].latest
          /\ reqs'[r].trxns = IF r = q /\ ~New(k, tid) /\ tid # NoTrxn
                              THEN Append(reqs[r].trxns, tid) ELSE reqs[r].trxns

\* A new request.
LEMMA NewRequestType ==
  ASSUME NEW k \in Key, NEW tid \in TrxnId
  PROVE  LET r == NewRequest(k, tid) IN
         /\ IsRequest(r) /\ r.key = k /\ r.latest = 0 /\ r.tgid = 0 /\ ~r.built
         /\ r.trxns = IF tid = NoTrxn THEN <<>> ELSE <<tid>>
<1>1. (IF tid = NoTrxn THEN <<>> ELSE <<tid>>) \in Seq(TrxnId) OBVIOUS
<1> QED BY <1>1 DEF NewRequest, IsRequest

\* The insertion schedules the column.
LEMMA InsertSchedules ==
  ASSUME UserType, OpenInv, NEW p \in Writer, NEW k \in Key, NEW tid, NEW c, Inserts(p, k, tid, c)
  PROVE  Scheduling(k, tid)
<1> DEFINE q == uk[k].req
           s == seq + 1
           n == NewRequest(k, tid)
<1>1. /\ AreRequests(reqs) /\ DOMAIN reqs \subseteq 1..seq /\ seq \in Nat
      /\ tid \in TrxnId
  BY DEF UserType, Inserts
<1>2. s \notin DOMAIN reqs BY <1>1
<1>3. IsRequest(n) BY <1>1, NewRequestType
<1>4. q # 0 => q \in DOMAIN reqs BY DEF OpenInv
<1>5. Schedule(k, tid, s) BY DEF Inserts
<1> HIDE DEF n, s
<1>6. CASE ~Scheduled(k)
  <2>1. reqs' = With(reqs, s, n) BY <1>5, <1>6 DEF Schedule, n
  <2>2. /\ AreRequests(reqs') /\ DOMAIN reqs' = DOMAIN reqs \cup {s}
        /\ reqs'[s] = n /\ \A r \in DOMAIN reqs : reqs'[r] = reqs[r]
    BY <1>1, <1>2, <1>3, <2>1 DEF With, AreRequests
  <2>3. New(k, tid) /\ ~Splits(k, tid) BY <1>6 DEF New, Splits
  <2> QED BY <1>2, <2>2, <2>3 DEF Scheduling, n, s
<1>7. CASE Scheduled(k) /\ tid.g # uk[k].last
  <2> DEFINE x == [reqs[q] EXCEPT !.latest = Newest(k).id]
             f == [reqs EXCEPT ![q] = x]
  <2>1. Splits(k, tid) /\ New(k, tid) BY <1>7 DEF Splits, New
  <2>2. q # 0 /\ reqs' = With(f, s, n) BY <1>5, <1>7 DEF Schedule, n, SplitRequest
  <2>3. q \in DOMAIN reqs BY <1>4, <2>2
  <2>4. Newest(k).id \in Nat
    <3>1. uk[k].cols \in Seq(ColumnNode) /\ uk[k].cols # <<>>
      BY <1>7 DEF UserType, UserKey, Scheduled, NoColumns
    <3>2. Newest(k) \in ColumnNode BY <3>1 DEF Newest
    <3> QED BY <3>2 DEF ColumnNode
  <2>5. /\ IsRequest(x) /\ x.key = reqs[q].key /\ x.built = reqs[q].built
        /\ x.tgid = reqs[q].tgid /\ x.latest = Newest(k).id /\ x.trxns = reqs[q].trxns
    BY <1>1, <2>3, <2>4 DEF IsRequest, AreRequests
  <2> HIDE DEF x
  <2>6. /\ AreRequests(f) /\ DOMAIN f = DOMAIN reqs /\ f[q] = x
        /\ \A r \in DOMAIN reqs : r # q => f[r] = reqs[r]
    BY <1>1, <2>3, <2>5 DEF AreRequests
  <2> HIDE DEF f
  <2>7. /\ AreRequests(reqs') /\ DOMAIN reqs' = DOMAIN reqs \cup {s}
        /\ reqs'[s] = n /\ \A r \in DOMAIN reqs : reqs'[r] = f[r]
    <3>1. /\ AreRequests(reqs') /\ DOMAIN reqs' = DOMAIN f \cup {s}
          /\ reqs'[s] = n /\ \A r \in DOMAIN f : r # s => reqs'[r] = f[r]
      BY <1>3, <2>2, <2>6 DEF With, AreRequests
    <3> QED BY <1>2, <2>6, <3>1
  <2>8. ASSUME NEW r \in DOMAIN reqs
        PROVE  /\ reqs'[r].key = reqs[r].key /\ reqs'[r].built = reqs[r].built
               /\ reqs'[r].tgid = reqs[r].tgid /\ reqs'[r].trxns = reqs[r].trxns
               /\ reqs'[r].latest = IF r = q THEN Newest(k).id ELSE reqs[r].latest
    <3>1. CASE r = q BY <2>5, <2>6, <2>7, <3>1
    <3>2. CASE r # q BY <2>6, <2>7, <3>2
    <3> QED BY <3>1, <3>2
  <2> QED BY <1>2, <2>1, <2>2, <2>7, <2>8 DEF Scheduling, n, s
<1>8. CASE Scheduled(k) /\ tid.g = uk[k].last /\ tid = NoTrxn
  <2>1. reqs' = reqs /\ ~New(k, tid) /\ ~Splits(k, tid)
    BY <1>5, <1>8 DEF Schedule, New, Splits
  <2> QED BY <1>1, <1>2, <1>8, <2>1 DEF Scheduling, s
<1>9. CASE Scheduled(k) /\ tid.g = uk[k].last /\ tid # NoTrxn
  <2> DEFINE x == [reqs[q] EXCEPT !.trxns = Append(@, tid)]
  <2>1. q # 0 /\ reqs' = [reqs EXCEPT ![q].trxns = Append(@, tid)]
        /\ ~New(k, tid) /\ ~Splits(k, tid)
    BY <1>5, <1>9 DEF Schedule, New, Splits
  <2>2. q \in DOMAIN reqs BY <1>4, <2>1
  <2>3. /\ IsRequest(x) /\ x.key = reqs[q].key /\ x.built = reqs[q].built
        /\ x.tgid = reqs[q].tgid /\ x.latest = reqs[q].latest
        /\ x.trxns = Append(reqs[q].trxns, tid)
    <3>1. IsRequest(reqs[q]) BY <1>1, <2>2 DEF AreRequests
    <3>2. Append(reqs[q].trxns, tid) \in Seq(TrxnId) BY <1>1, <3>1 DEF IsRequest
    <3> QED BY <3>1, <3>2 DEF IsRequest
  <2>4. reqs' = [reqs EXCEPT ![q] = x] BY <1>1, <2>1, <2>2
  <2> HIDE DEF x, q
  <2>5. /\ AreRequests(reqs') /\ DOMAIN reqs' = DOMAIN reqs /\ reqs'[q] = x
        /\ \A r \in DOMAIN reqs : r # q => reqs'[r] = reqs[r]
    BY <1>1, <2>2, <2>3, <2>4 DEF AreRequests
  <2>6. ASSUME NEW r \in DOMAIN reqs
        PROVE  /\ reqs'[r].key = reqs[r].key /\ reqs'[r].built = reqs[r].built
               /\ reqs'[r].tgid = reqs[r].tgid /\ reqs'[r].latest = reqs[r].latest
               /\ reqs'[r].trxns = IF r = q THEN Append(reqs[r].trxns, tid) ELSE reqs[r].trxns
    <3>1. CASE r = q BY <2>3, <2>5, <3>1
    <3>2. CASE r # q BY <2>5, <3>2
    <3> QED BY <3>1, <3>2
  <2> QED BY <1>2, <1>9, <2>1, <2>5, <2>6 DEF Scheduling, s, q
<1> QED BY <1>6, <1>7, <1>8, <1>9

-----------------------------------------------------------------------------
(* Steps that leave columns and requests alone. *)

ColumnInv ==
    /\ UserType /\ WorkerType /\ TableType /\ ColumnsInv /\ RowsInv /\ FlushesInv
    /\ Places /\ WorkerPlaces /\ OpenInv /\ ClosedInv /\ CleanKey

\* Requests and columns are as they were.
LEMMA KeysFrame ==
  ASSUME ColumnsInv, OpenInv, ClosedInv, UNCHANGED <<uk, reqs, hist>>
  PROVE  ColumnsInv' /\ OpenInv' /\ ClosedInv'
<1>1. ColumnsInv' BY DEF ColumnsInv
<1>2. OpenInv' BY DEF OpenInv, NoColumns, Newest
<1>3. ClosedInv' BY DEF ClosedInv
<1> QED BY <1>1, <1>2, <1>3

\* Tables and columns are as they were.
LEMMA TablesFrame ==
  ASSUME TableType, RowsInv, FlushesInv, CleanKey, UNCHANGED <<uk, hist, fl, sktdf>>
  PROVE  TableType' /\ RowsInv' /\ FlushesInv' /\ CleanKey'
<1>1. TableType' BY DEF TableType
<1>2. RowsInv' BY DEF RowsInv
<1>3. FlushesInv' BY DEF FlushesInv
<1>4. CleanKey' BY DEF CleanKey, Newest, Rows
<1> QED BY <1>1, <1>2, <1>3, <1>4

\* Requests are where they were.
LEMMA QueueFrame ==
  ASSUME Places, WorkerPlaces, UNCHANGED <<reqs, pending, wk>>,
         \A p \in Writer : /\ wr'[p].rq = wr[p].rq
                           /\ wr'[p].pc = "store" <=> wr[p].pc = "store"
  PROVE  Places' /\ WorkerPlaces'
<1>1. Places' BY DEF Places
<1>2. WorkerPlaces' BY DEF WorkerPlaces, Todo, From
<1> QED BY <1>1, <1>2

\* Writers change only.
LEMMA WritersFrame ==
  ASSUME ColumnInv, UNCHANGED <<uk, reqs, hist, fl, sktdf, pending, wk, ikeys>>,
         seq' \in Nat, seq <= seq', wr' \in [Writer -> WriterState],
         \A p \in Writer : /\ wr'[p].b.count = wr'[p].b.sn + Len(wr'[p].b.ops)
                           /\ wr'[p].rq = wr[p].rq
                           /\ wr'[p].pc = "store" <=> wr[p].pc = "store"
  PROVE  ColumnInv'
<1>1. ColumnsInv' /\ OpenInv' /\ ClosedInv' BY KeysFrame DEF ColumnInv
<1>2. TableType' /\ RowsInv' /\ FlushesInv' /\ CleanKey' BY TablesFrame DEF ColumnInv
<1>3. Places' /\ WorkerPlaces' BY QueueFrame DEF ColumnInv
<1>4. UserType'
  <2>1. /\ seq \in Nat /\ uk \in [Key -> UserKey] /\ pending \in Seq(Nat)
        /\ AreRequests(reqs) /\ DOMAIN reqs \subseteq 1..seq
        /\ hist \in [DOMAIN hist -> [key : Key, del : BOOLEAN, tid : TrxnId]]
        /\ DOMAIN hist \subseteq 1..seq
    BY DEF ColumnInv, UserType
  <2>2. DOMAIN reqs \subseteq 1..seq' /\ DOMAIN hist \subseteq 1..seq' BY <2>1
  <2> QED BY <2>1, <2>2 DEF UserType
<1>5. WorkerType' BY DEF ColumnInv, WorkerType
<1> QED BY <1>1, <1>2, <1>3, <1>4, <1>5 DEF ColumnInv

\* A step of something else.
LEMMA OtherFrame ==
  ASSUME ColumnInv, UNCHANGED <<seq, uk, reqs, hist, fl, sktdf, pending, wk, ikeys, wr>>
  PROVE  ColumnInv'
<1>1. seq \in Nat /\ wr \in [Writer -> WriterState]
      /\ \A p \in Writer : wr[p].b.count = wr[p].b.sn + Len(wr[p].b.ops)
  BY DEF ColumnInv, UserType
<1> QED BY <1>1, WritersFrame

-----------------------------------------------------------------------------
(* Writers. *)

\* A batch that loses a write.
LEMMA BatchShrunk ==
  ASSUME NEW b \in Batch, b.count = b.sn + Len(b.ops), Len(b.ops) \in Nat \ {0}
  PROVE  LET nb == [b EXCEPT !.count = @ - 1] IN
         nb \in Batch /\ nb.ops = b.ops /\ nb.count + 1 = nb.sn + Len(nb.ops)
<1>1. b.count \in Nat /\ b.sn \in Nat BY DEF Batch
<1>2. b.count - 1 \in Nat /\ (b.count - 1) + 1 = b.sn + Len(b.ops) BY <1>1
<1> DEFINE nb == [b EXCEPT !.count = @ - 1]
<1>3. nb \in Batch /\ nb.ops = b.ops /\ nb.count = b.count - 1 /\ nb.sn = b.sn
  BY <1>2 DEF Batch
<1> HIDE DEF nb
<1>4. nb \in Batch /\ nb.ops = b.ops /\ nb.count + 1 = nb.sn + Len(nb.ops) BY <1>2, <1>3
<1> QED BY <1>4 DEF nb

\* A delete that is discarded.
LEMMA DiscardColumns ==
  ASSUME ColumnInv, NEW p \in Writer, Store(p), Discard(p)
  PROVE  ColumnInv'
<1> DEFINE nb == [Current(p) EXCEPT !.count = @ - 1]
<1>1. /\ wr[p].pc = "store" /\ Current(p).ops # <<>> /\ Written(p, nb, "store", 0)
      /\ seq' = seq + 1 /\ UNCHANGED <<uk, reqs, hist, fl, sktdf, pending, wk, ikeys>>
  BY DEF Store, Discard, blockVars
<1>2. UserType /\ wr[p].rq = 0 BY <1>1 DEF ColumnInv, Places
<1>3. nb \in Batch /\ nb.ops = Current(p).ops /\ nb.count + 1 = nb.sn + Len(nb.ops)
  <2>1. /\ Current(p) \in Batch /\ Current(p).count = Current(p).sn + Len(Current(p).ops)
        /\ Len(Current(p).ops) \in Nat \ {0}
    BY <1>1, <1>2, CurrentFacts
  <2> QED BY <2>1, BatchShrunk
<1> HIDE DEF nb
<1>4. /\ wr' \in [Writer -> WriterState]
      /\ \A q \in Writer : wr'[q].b.count = wr'[q].b.sn + Len(wr'[q].b.ops)
      /\ \A q \in Writer : q # p => wr'[q] = wr[q]
      /\ wr'[p].pc = "store" /\ wr'[p].rq = 0
  BY <1>1, <1>2, <1>3, WrittenFacts
<1>5. \A q \in Writer : wr'[q].rq = wr[q].rq /\ (wr'[q].pc = "store" <=> wr[q].pc = "store")
  BY <1>1, <1>2, <1>4
<1>6. seq' \in Nat /\ seq <= seq' BY <1>1, <1>2 DEF UserType
<1> QED BY <1>1, <1>4, <1>5, <1>6, WritersFrame

\* A writer goes from one state of waiting to another one.
LEMMA WaitColumns ==
  ASSUME ColumnInv, UNCHANGED <<seq, uk, reqs, hist, fl, sktdf, pending, wk, ikeys>>,
         NEW P \in SUBSET Writer, NEW to \in {"slow", "asleep", "go"},
         \A p \in P : wr[p].pc # "store",
         wr' = [p \in Writer |-> IF p \in P THEN [wr[p] EXCEPT !.pc = to] ELSE wr[p]]
  PROVE  ColumnInv'
<1>1. seq \in Nat /\ wr \in [Writer -> WriterState]
      /\ \A p \in Writer : wr[p].b.count = wr[p].b.sn + Len(wr[p].b.ops)
  BY DEF ColumnInv, UserType
<1>2. ASSUME NEW p \in Writer
      PROVE  /\ wr'[p] \in WriterState /\ wr'[p].b = wr[p].b /\ wr'[p].rq = wr[p].rq
             /\ wr'[p].pc = "store" <=> wr[p].pc = "store"
  <2>1. CASE p \in P
    <3>1. wr'[p] = [wr[p] EXCEPT !.pc = to] BY <2>1
    <3>2. wr[p] \in WriterState BY <1>1
    <3>3. wr'[p] \in WriterState /\ wr'[p].b = wr[p].b /\ wr'[p].rq = wr[p].rq /\ wr'[p].pc = to
      BY <3>1, <3>2 DEF WriterState
    <3> QED BY <2>1, <3>3
  <2>2. CASE p \notin P BY <1>1, <2>2
  <2> QED BY <2>1, <2>2
<1>3. wr' \in [Writer -> WriterState] BY <1>2
<1> QED BY <1>1, <1>2, <1>3, WritersFrame

\* A request enters the queue.
LEMMA EnqueueColumns ==
  ASSUME ColumnInv, UNCHANGED <<seq, uk, reqs, hist, fl, sktdf, wk, ikeys>>,
         NEW p \in Writer, wr[p].pc # "store", Enqueue(p)
  PROVE  ColumnInv'
<1> DEFINE r == wr[p].rq
<1>1. /\ UserType /\ WorkerType /\ Places /\ WorkerPlaces
      /\ wr \in [Writer -> WriterState] /\ pending \in Seq(Nat)
      /\ r \in DOMAIN reqs /\ \A i \in DOMAIN pending : pending[i] # r
  BY DEF ColumnInv, UserType, Places
<1>2. /\ pending' = Append(pending, r)
      /\ wr' = [wr EXCEPT ![p] = [wr[p] EXCEPT !.pc = "store", !.rq = 0]]
  BY <1>1 DEF Enqueue
<1>3. r \in Nat BY <1>1 DEF WriterState
<1>4. /\ pending' \in Seq(Nat) /\ Len(pending) \in Nat /\ DOMAIN pending = 1..Len(pending)
      /\ DOMAIN pending' = 1..(Len(pending) + 1)
      /\ \A i \in DOMAIN pending : pending'[i] = pending[i]
      /\ pending'[Len(pending) + 1] = r
  <2> HIDE DEF r
  <2> QED BY <1>1, <1>2, <1>3
<1>5. \A i \in DOMAIN pending' : i \in DOMAIN pending \/ i = Len(pending) + 1 BY <1>4
<1>6. /\ wr' \in [Writer -> WriterState] /\ wr'[p].b = wr[p].b /\ wr'[p].rq = 0
      /\ wr'[p].pc = "store" /\ \A q \in Writer : q # p => wr'[q] = wr[q]
  <2> DEFINE x == [wr[p] EXCEPT !.pc = "store", !.rq = 0]
  <2>1. wr[p] \in WriterState BY <1>1
  <2>2. x \in WriterState /\ x.b = wr[p].b /\ x.rq = 0 /\ x.pc = "store"
    BY <2>1 DEF WriterState
  <2>3. wr' = [wr EXCEPT ![p] = x] BY <1>2
  <2> HIDE DEF x
  <2> QED BY <1>1, <2>2, <2>3
<1> HIDE DEF r
<1>7. UserType'
  <2>1. \A q \in Writer : wr'[q].b = wr[q].b BY <1>6
  <2>2. \A q \in Writer : wr'[q].b.count = wr'[q].b.sn + Len(wr'[q].b.ops)
    BY <1>1, <2>1 DEF UserType
  <2> QED BY <1>1, <1>4, <1>6, <2>2 DEF UserType
<1>8. Places'
  <2>1. \A i, j \in DOMAIN pending' : pending'[i] = pending'[j] => i = j
    <3>1. \A i, j \in DOMAIN pending : pending[i] = pending[j] => i = j BY <1>1 DEF Places
    <3> QED BY <1>1, <1>4, <1>5, <3>1
  <2>2. \A i \in DOMAIN pending' : pending'[i] \in DOMAIN reqs'
    <3>1. \A i \in DOMAIN pending : pending[i] \in DOMAIN reqs BY <1>1 DEF Places
    <3> QED BY <1>1, <1>4, <1>5, <3>1
  <2>3. ASSUME NEW q \in Writer
        PROVE  IF wr'[q].pc = "store" THEN wr'[q].rq = 0
               ELSE /\ wr'[q].rq \in DOMAIN reqs' /\ \A i \in DOMAIN pending' : pending'[i] # wr'[q].rq
    <3>1. CASE q = p BY <1>6, <3>1
    <3>2. CASE q # p
      <4>1. wr'[q] = wr[q] BY <1>6, <3>2
      <4>2. wr[q].pc # "store" => wr[q].rq # r BY <1>1, <3>2 DEF Places, r
      <4>3. IF wr[q].pc = "store" THEN wr[q].rq = 0
            ELSE /\ wr[q].rq \in DOMAIN reqs /\ \A i \in DOMAIN pending : pending[i] # wr[q].rq
        BY <1>1 DEF Places
      <4> QED BY <1>4, <1>5, <4>1, <4>2, <4>3
    <3> QED BY <3>1, <3>2
  <2>4. \A q, s \in Writer : wr'[q].pc # "store" /\ wr'[q].rq = wr'[s].rq => q = s
    <3>1. 0 \notin DOMAIN reqs BY <1>1 DEF UserType
    <3>2. \A q \in Writer : wr[q].pc # "store" => wr[q].rq \in DOMAIN reqs BY <1>1 DEF Places
    <3>3. \A q, s \in Writer : wr[q].pc # "store" /\ wr[q].rq = wr[s].rq => q = s
      BY <1>1 DEF Places
    <3> QED BY <1>6, <3>1, <3>2, <3>3
  <2> QED BY <2>1, <2>2, <2>3, <2>4 DEF Places
<1>9. WorkerPlaces'
  <2>1. \A w \in Worker : Todo(w)' = Todo(w) BY DEF Todo, From
  <2>2. ASSUME NEW w \in Worker, NEW i \in Todo(w)
        PROVE  /\ \A j \in DOMAIN pending' : pending'[j] # wk[w].list[i]
               /\ \A q \in Writer : wr'[q].rq # wk[w].list[i]
    <3>1. /\ \A j \in DOMAIN pending : pending[j] # wk[w].list[i]
          /\ \A q \in Writer : wr[q].rq # wk[w].list[i]
          /\ wk[w].list[i] \in DOMAIN reqs
      BY <1>1 DEF WorkerPlaces
    <3>2. 0 \notin DOMAIN reqs BY <1>1 DEF UserType
    <3> QED BY <1>4, <1>5, <1>6, <3>1, <3>2 DEF r
  <2>3. /\ \A w \in Worker :
             /\ wk[w].pc = "idle" => wk[w] = IdleWorker
             /\ wk[w].pc = "put" => wk[w].pos = 1
             /\ wk[w].pc # "idle" => wk[w].pos \in 1..Len(wk[w].list)
             /\ \A i \in Todo(w) : wk[w].list[i] \in DOMAIN reqs /\ reqs[wk[w].list[i]].latest # 0
        /\ \A v, w \in Worker : \A i \in Todo(v), j \in Todo(w) :
             wk[v].list[i] = wk[w].list[j] => v = w /\ i = j
    BY <1>1 DEF WorkerPlaces
  <2> QED BY <2>1, <2>2, <2>3 DEF WorkerPlaces
<1>10. ColumnsInv' /\ OpenInv' /\ ClosedInv' BY KeysFrame DEF ColumnInv
<1>11. TableType' /\ RowsInv' /\ FlushesInv' /\ CleanKey' BY TablesFrame DEF ColumnInv
<1>12. WorkerType' BY DEF ColumnInv, WorkerType
<1> QED BY <1>7, <1>8, <1>9, <1>10, <1>11, <1>12 DEF ColumnInv

\* The request queue, as the writers see it.
LEMMA QueueColumns ==
  ASSUME ColumnInv, NEW p \in Writer, PutColumnNodeToRequestQueue(p)
  PROVE  ColumnInv'
<1>1. /\ UNCHANGED <<seq, uk, reqs, hist, fl, sktdf, wk, ikeys>> /\ wr \in [Writer -> WriterState]
      /\ Push(p) \/ SlowWait(p) \/ Resume(p)
  BY DEF PutColumnNodeToRequestQueue, blockVars, ColumnInv, UserType
<1>2. ASSUME NEW to \in {"slow", "asleep"}, wr' = [wr EXCEPT ![p].pc = to], UNCHANGED pending,
             wr[p].pc # "store"
      PROVE  ColumnInv'
  <2>1. wr' = [q \in Writer |-> IF q \in {p} THEN [wr[q] EXCEPT !.pc = to] ELSE wr[q]]
    BY <1>1, <1>2
  <2>2. {p} \in SUBSET Writer /\ \A q \in {p} : wr[q].pc # "store" BY <1>2
  <2> QED BY <1>1, <1>2, <2>1, <2>2, WaitColumns
<1>3. CASE Push(p) BY <1>1, <1>2, <1>3, EnqueueColumns DEF Push
<1>4. CASE SlowWait(p) BY <1>1, <1>2, <1>4 DEF SlowWait
<1>5. CASE Resume(p) BY <1>1, <1>5, EnqueueColumns DEF Resume
<1> QED BY <1>1, <1>3, <1>4, <1>5

\* Writers are woken.
LEMMA WakeIdleColumns ==
  ASSUME ColumnInv, NEW w \in Worker, WakeIdle(w)
  PROVE  ColumnInv'
<1>1. /\ UNCHANGED <<seq, uk, reqs, hist, fl, sktdf, pending, wk, ikeys>>
      /\ wr' = Woken \/ wr' = wr
  BY DEF WakeIdle, WakeIf, blockVars
<1>2. CASE wr' = wr BY <1>1, <1>2, OtherFrame
<1>3. CASE wr' = Woken
  <2> DEFINE P == {p \in Writer : wr[p].pc = "asleep"}
  <2>1. wr' = [p \in Writer |-> IF p \in P THEN [wr[p] EXCEPT !.pc = "go"] ELSE wr[p]]
    BY <1>3 DEF Woken
  <2>2. P \in SUBSET Writer /\ \A p \in P : wr[p].pc # "store" OBVIOUS
  <2> HIDE DEF P
  <2> QED BY <1>1, <2>1, <2>2, WaitColumns
<1> QED BY <1>1, <1>2, <1>3

-----------------------------------------------------------------------------
(* Workers between the merge and the update of columns. *)

\* A worker goes on with the same requests.
LEMMA WorkerFrame ==
  ASSUME ColumnInv, UNCHANGED <<seq, uk, reqs, hist, fl, sktdf, pending, wr>>,
         ikeys' \in [next : Nat, own : [Worker -> Nat]],
         NEW w \in Worker, NEW x, IsWorker(x), wk' = [wk EXCEPT ![w] = x],
         x.list = wk[w].list, x.pos = wk[w].pos, x.pc \in {"submit", "update"},
         wk[w].pc \in {"put", "submit"}
  PROVE  ColumnInv'
<1>1. UserType /\ WorkerType /\ WorkerPlaces BY DEF ColumnInv
<1>2. wk'[w] = x /\ \A v \in Worker : v # w => wk'[v] = wk[v] BY <1>1 DEF WorkerType
<1>3. WorkerType'
  <2>1. wk' = [v \in Worker |-> wk'[v]] BY <1>1 DEF WorkerType
  <2>2. \A v \in Worker : IsWorker(wk'[v]) BY <1>1, <1>2 DEF WorkerType
  <2> QED BY <2>1, <2>2 DEF WorkerType
<1>4. ASSUME NEW v \in Worker
      PROVE  wk'[v].list = wk[v].list /\ wk'[v].pos = wk[v].pos /\ Todo(v)' = Todo(v)
  <2>1. CASE v = w
    <3>1. wk[w].pc = "put" => wk[w].pos = 1 BY <1>1 DEF WorkerPlaces
    <3> QED BY <1>2, <2>1, <3>1 DEF Todo, From
  <2>2. CASE v # w BY <1>2, <2>2 DEF Todo, From
  <2> QED BY <2>1, <2>2
<1>5. WorkerPlaces'
  <2>1. ASSUME NEW v \in Worker
        PROVE  /\ wk'[v].pc = "idle" => wk'[v] = IdleWorker
               /\ wk'[v].pc = "put" => wk'[v].pos = 1
               /\ wk'[v].pc # "idle" => wk'[v].pos \in 1..Len(wk'[v].list)
    BY <1>1, <1>2 DEF WorkerPlaces
  <2>2. ASSUME NEW v \in Worker, NEW i \in Todo(v)
        PROVE  LET r == wk[v].list[i] IN
                /\ r \in DOMAIN reqs /\ reqs[r].latest # 0
                /\ \A j \in DOMAIN pending : pending[j] # r
                /\ \A p \in Writer : wr[p].rq # r
    BY <1>1 DEF WorkerPlaces
  <2>3. \A u, v \in Worker : \A i \in Todo(u), j \in Todo(v) :
          wk[u].list[i] = wk[v].list[j] => u = v /\ i = j
    BY <1>1 DEF WorkerPlaces
  <2> QED BY <1>4, <2>1, <2>2, <2>3 DEF WorkerPlaces
<1>6. Places' BY DEF ColumnInv, Places
<1>7. ColumnsInv' /\ OpenInv' /\ ClosedInv' BY KeysFrame DEF ColumnInv
<1>8. TableType' /\ RowsInv' /\ FlushesInv' /\ CleanKey' BY TablesFrame DEF ColumnInv
<1>9. UserType' BY <1>1 DEF UserType
<1> QED BY <1>3, <1>5, <1>6, <1>7, <1>8, <1>9 DEF ColumnInv

\* The key block is written.
LEMMA PutColumns ==
  ASSUME ColumnInv, NEW w \in Worker, Put(w)
  PROVE  ColumnInv'
<1> DEFINE b == ikeys.own[w]
           y == [wk[w] EXCEPT !.pc = "submit"]
           x == [y EXCEPT !.ikey = b]
<1>1. WorkerType BY DEF ColumnInv
<1>2. /\ UNCHANGED <<seq, uk, reqs, hist, fl, sktdf, pending, wr>> /\ wk[w].pc = "put"
      /\ ikeys' = [next |-> ikeys.next + 1, own |-> [ikeys.own EXCEPT ![w] = ikeys.next]]
      /\ wk' = [wk EXCEPT ![w].pc = "submit", ![w].ikey = b]
  BY DEF Put, userVars
<1>3. ikeys' \in [next : Nat, own : [Worker -> Nat]] /\ b \in Nat BY <1>1, <1>2 DEF WorkerType
<1>4. IsWorker(wk[w]) /\ wk = [v \in Worker |-> wk[v]] BY <1>1 DEF WorkerType
<1>5. wk' = [wk EXCEPT ![w] = x] BY <1>2, <1>4
<1>6. IsWorker(x) /\ x.pc = "submit" /\ x.list = wk[w].list /\ x.pos = wk[w].pos
  <2>1. IsWorker(y) /\ y.pc = "submit" /\ y.list = wk[w].list /\ y.pos = wk[w].pos
    BY <1>4 DEF IsWorker
  <2> HIDE DEF y, b
  <2> QED BY <1>3, <2>1 DEF IsWorker
<1> HIDE DEF x
<1> QED BY <1>2, <1>3, <1>5, <1>6, WorkerFrame

\* The transaction of a header leaves its group.
LEMMA DecreaseColumns ==
  ASSUME ColumnInv, NEW w \in Worker, Decrease(w)
  PROVE  ColumnInv'
<1> DEFINE x == [pc |-> "update", list |-> wk[w].list, pos |-> wk[w].pos, log |-> wk[w].log,
                 ikey |-> wk[w].ikey]
<1>1. WorkerType BY DEF ColumnInv
<1>2. /\ UNCHANGED <<seq, uk, reqs, hist, fl, sktdf, pending, wr, ikeys>> /\ wk[w].pc = "submit"
      /\ wk' = [wk EXCEPT ![w].pc = "update"]
  BY DEF Decrease, userVars, blockVars
<1>3. ikeys' \in [next : Nat, own : [Worker -> Nat]] BY <1>1, <1>2 DEF WorkerType
<1>4. IsWorker(wk[w]) /\ wk = [v \in Worker |-> wk[v]] BY <1>1 DEF WorkerType
<1>5. wk' = [wk EXCEPT ![w] = x]
  <2>1. [wk[w] EXCEPT !.pc = "update"] = x BY <1>4 DEF IsWorker
  <2>2. wk' = [wk EXCEPT ![w] = [wk[w] EXCEPT !.pc = "update"]] BY <1>2, <1>4
  <2> QED BY <2>1, <2>2
<1>6. IsWorker(x) /\ x.pc = "update" /\ x.list = wk[w].list /\ x.pos = wk[w].pos
  BY <1>4 DEF IsWorker
<1> HIDE DEF x
<1> QED BY <1>2, <1>3, <1>5, <1>6, WorkerFrame

-----------------------------------------------------------------------------
(* Flushes before and after the scan of the keys. *)

\* The smallest of one.
LEMMA MinOfOne ==
  ASSUME NEW x \in Nat
  PROVE  MinOf({x}) = x
BY DEF MinOf

\* The rows a clean key is among: those of the flush that has scanned it, or of its table.
LEMMA RowsInFacts ==
  ASSUME NEW f, NEW s, NEW k,
         \A v, w \in Worker :
            (/\ f[v].pc # "none" /\ k \in f[v].keys \ f[v].todo
             /\ f[w].pc # "none" /\ k \in f[w].keys \ f[w].todo) => v = w
  PROVE  /\ \A w \in Worker : f[w].pc # "none" /\ k \in f[w].keys \ f[w].todo =>
               RowsIn(f, s, k) = f[w].rows
         /\ (\A w \in Worker : f[w].pc # "none" => k \notin f[w].keys \ f[w].todo) =>
               RowsIn(f, s, k) = s[TableOf[k]]
<1> DEFINE F == {w \in Worker : f[w].pc # "none" /\ k \in f[w].keys \ f[w].todo}
<1>1. RowsIn(f, s, k) = IF F = {} THEN s[TableOf[k]] ELSE f[MinOf(F)].rows BY DEF RowsIn
<1>2. ASSUME NEW w \in Worker, f[w].pc # "none", k \in f[w].keys \ f[w].todo
      PROVE  RowsIn(f, s, k) = f[w].rows
  <2>1. \A v \in F : v = w BY <1>2
  <2>2. F = {w} BY <1>2, <2>1
  <2>3. w \in Nat BY StateAssumption
  <2> HIDE DEF F
  <2>4. MinOf(F) = w BY <2>2, <2>3, MinOfOne
  <2>5. F # {} BY <2>2
  <2> QED BY <1>1, <2>4, <2>5
<1>3. ASSUME \A w \in Worker : f[w].pc # "none" => k \notin f[w].keys \ f[w].todo
      PROVE  RowsIn(f, s, k) = s[TableOf[k]]
  <2>1. F = {} BY <1>3
  <2> QED BY <1>1, <2>1
<1> QED BY <1>2, <1>3

\* One flush has scanned a key at most.
LEMMA OneFlush ==
  ASSUME FlushesInv, NEW k \in Key
  PROVE  \A v, w \in Worker :
            (/\ fl[v].pc # "none" /\ k \in fl[v].keys \ fl[v].todo
             /\ fl[w].pc # "none" /\ k \in fl[w].keys \ fl[w].todo) => v = w
BY DEF FlushesInv

\* What CleanKey says of one key.
IsClean(k) ==
    uk[k].present /\ ~uk[k].dirty =>
        /\ Len(uk[k].cols) = 1 /\ uk[k].fetched
        /\ Newest(k).st = "stored" /\ Newest(k).committed /\ Newest(k).kbm = "prim"
        /\ k \in DOMAIN RowsNow(k)
        /\ RowsNow(k)[k].id = Newest(k).id /\ RowsNow(k)[k].ikey = Newest(k).ikey

\* The two forms are the same.
LEMMA CleanIs ==
  /\ CleanKey <=> \A k \in Key : IsClean(k)
  /\ CleanKey' <=> \A k \in Key : IsClean(k)'
<1>1. CleanKey <=> \A k \in Key : IsClean(k) BY DEF CleanKey, IsClean, RowsNow, RowsIn, Rows
<1>2. CleanKey' <=> \A k \in Key : IsClean(k)' BY DEF CleanKey, IsClean, RowsNow, RowsIn, Rows
<1> QED BY <1>1, <1>2

\* A flush moves on.
LEMMA FlushFrame ==
  ASSUME ColumnInv, UNCHANGED <<seq, uk, reqs, hist, sktdf, pending, wr, wk, ikeys>>,
         NEW w \in Worker, NEW x, IsFlush(x), fl' = [fl EXCEPT ![w] = x],
         x.t = fl[w].t, x.rows = fl[w].rows, x.keys = fl[w].keys, x.todo = fl[w].todo,
         x.pc # "none", fl[w].pc # "none", x.pc # "build" => fl[w].todo = {}
  PROVE  ColumnInv'
<1>1. TableType /\ FlushesInv /\ RowsInv /\ CleanKey BY DEF ColumnInv
<1>2. fl'[w] = x /\ \A v \in Worker : v # w => fl'[v] = fl[v] BY <1>1 DEF TableType
<1>3. ASSUME NEW v \in Worker
      PROVE  /\ fl'[v].t = fl[v].t /\ fl'[v].rows = fl[v].rows /\ fl'[v].keys = fl[v].keys
             /\ fl'[v].todo = fl[v].todo /\ (fl'[v].pc = "none" <=> fl[v].pc = "none")
             /\ fl'[v].pc \notin {"none", "build"} => fl'[v].todo = {}
             /\ fl'[v].pc = "none" => fl'[v] = NoFlush
             /\ IsFlush(fl'[v])
  <2>1. CASE v = w BY <1>2, <2>1
  <2>2. CASE v # w BY <1>1, <1>2, <2>2 DEF FlushesInv, TableType
  <2> QED BY <2>1, <2>2
<1>4. TableType'
  <2>1. fl' = [v \in Worker |-> fl'[v]] BY <1>1 DEF TableType
  <2> QED BY <1>1, <1>3, <2>1 DEF TableType
<1>5. RowsInv'
  BY <1>1, <1>3 DEF RowsInv
<1>6. FlushesInv'
  <2>1. ASSUME NEW v \in Worker
        PROVE  /\ fl[v].pc # "none" => fl[v].t \in Table
               /\ fl[v].todo \subseteq fl[v].keys
               /\ \A k \in fl[v].keys : TableOf[k] = fl[v].t
               /\ \A k \in Key : fl[v].pc # "none" /\ TableOf[k] = fl[v].t /\ uk[k].present /\ ~uk[k].dirty
                     => k \in fl[v].keys
    BY <1>1 DEF FlushesInv
  <2>2. \A u, v \in Worker : fl[u].pc # "none" /\ fl[v].pc # "none" /\ fl[u].t = fl[v].t => u = v
    BY <1>1 DEF FlushesInv
  <2> QED BY <1>3, <2>1, <2>2 DEF FlushesInv
<1>7. CleanKey'
  <2>1. ASSUME NEW k \in Key PROVE RowsNow(k)' = RowsNow(k)
    <3> DEFINE F(f) == {v \in Worker : f[v].pc # "none" /\ k \in f[v].keys \ f[v].todo}
    <3>1. F(fl') = F(fl) BY <1>3
    <3>2. CASE F(fl) = {} BY <3>1, <3>2 DEF RowsNow, RowsIn
    <3>3. CASE F(fl) # {}
      <4>1. \A v, u \in F(fl) : v = u BY <1>1, OneFlush
      <4>2. PICK v \in Worker : F(fl) = {v} BY <3>3, <4>1
      <4>3. RowsNow(k) = fl[MinOf(F(fl))].rows /\ RowsNow(k)' = fl'[MinOf(F(fl'))].rows
        BY <3>1, <3>3 DEF RowsNow, RowsIn
      <4>4. v \in Nat BY StateAssumption
      <4> HIDE DEF F
      <4>5. MinOf(F(fl)) = v /\ MinOf(F(fl')) = v BY <3>1, <4>2, <4>4, MinOfOne
      <4> QED BY <1>3, <4>3, <4>5
    <3> QED BY <3>2, <3>3
  <2>2. \A k \in Key : IsClean(k)' BY <1>1, <2>1, CleanIs DEF IsClean, Newest
  <2> QED BY <2>2, CleanIs
<1>8. ColumnsInv' /\ OpenInv' /\ ClosedInv' BY KeysFrame DEF ColumnInv
<1>9. Places' /\ WorkerPlaces' BY QueueFrame DEF ColumnInv
<1>10. UserType' /\ WorkerType' BY DEF ColumnInv, UserType, WorkerType
<1> QED BY <1>4, <1>5, <1>6, <1>7, <1>8, <1>9, <1>10 DEF ColumnInv

\* Writing the table and the metas of key blocks, and releasing entries.
LEMMA FlushMovesColumns ==
  ASSUME ColumnInv, NEW w \in Worker,
         FlushWrite(w) \/ FlushDelete(w) \/ FlushUpdate(w) \/ ReleaseNRS(w) \/ ReleaseRef(w)
  PROVE  ColumnInv'
<1>1. IsFlush(fl[w]) /\ fl = [v \in Worker |-> fl[v]] BY DEF ColumnInv, TableType
<1>2. fl[w].pc \notin {"none", "build"} => fl[w].todo = {} BY DEF ColumnInv, FlushesInv
<1>3. UNCHANGED <<seq, uk, reqs, hist, sktdf, pending, wr, wk, ikeys>>
  <2>1. CASE FlushWrite(w) BY <2>1 DEF FlushWrite, FlushVars, userVars
  <2>2. CASE FlushDelete(w) BY <2>2 DEF FlushDelete, FlushVars, userVars
  <2>3. CASE FlushUpdate(w) BY <2>3 DEF FlushUpdate, FlushVars, userVars
  <2>4. CASE ReleaseNRS(w) BY <2>4 DEF ReleaseNRS, FlushVars, userVars
  <2>5. CASE ReleaseRef(w) BY <2>5 DEF ReleaseRef, FlushVars, userVars
  <2> QED BY <2>1, <2>2, <2>3, <2>4, <2>5
<1>4. ASSUME NEW to \in {"end", "delete", "update", "release"}, fl' = [fl EXCEPT ![w].pc = to],
             fl[w].pc # "none", fl[w].todo = {}
      PROVE  ColumnInv'
  <2> DEFINE x == [fl[w] EXCEPT !.pc = to]
  <2>1. fl' = [fl EXCEPT ![w] = x] BY <1>1, <1>4
  <2>2. IsFlush(x) /\ x.pc = to /\ x.t = fl[w].t /\ x.rows = fl[w].rows /\ x.keys = fl[w].keys
        /\ x.todo = fl[w].todo
    BY <1>1 DEF IsFlush
  <2> HIDE DEF x
  <2> QED BY <1>3, <1>4, <2>1, <2>2, FlushFrame
<1>5. ASSUME NEW E, fl' = [fl EXCEPT ![w].ents = E], fl[w].pc = "release"
      PROVE  ColumnInv'
  <2> DEFINE x == [fl[w] EXCEPT !.ents = E]
  <2>1. fl' = [fl EXCEPT ![w] = x] BY <1>1, <1>5
  <2>2. IsFlush(x) /\ x.pc = fl[w].pc /\ x.t = fl[w].t /\ x.rows = fl[w].rows
        /\ x.keys = fl[w].keys /\ x.todo = fl[w].todo
    BY <1>1 DEF IsFlush
  <2> HIDE DEF x
  <2> QED BY <1>2, <1>3, <1>5, <2>1, <2>2, FlushFrame
<1>6. CASE FlushWrite(w) BY <1>4, <1>6 DEF FlushWrite, Moved
<1>7. CASE FlushDelete(w) BY <1>2, <1>4, <1>7 DEF FlushDelete, Moved
<1>8. CASE FlushUpdate(w) BY <1>2, <1>4, <1>8 DEF FlushUpdate, Moved
<1>9. CASE ReleaseNRS(w) BY <1>5, <1>9 DEF ReleaseNRS
<1>10. CASE ReleaseRef(w) BY <1>5, <1>10 DEF ReleaseRef
<1> QED BY <1>6, <1>7, <1>8, <1>9, <1>10

\* The row of a key where it had it.
SameRow(f, g, k) == (k \in DOMAIN f <=> k \in DOMAIN g) /\ (k \in DOMAIN g => f[k] = g[k])

\* A clean key keeps its row where no flush begins, scans or ends with it.
LEMMA RowKept ==
  ASSUME FlushesInv, NEW k \in Key, SameRow(sktdf'[TableOf[k]], sktdf[TableOf[k]], k),
         \A v \in Worker :
            LET scans(f) == f[v].pc # "none" /\ k \in f[v].keys \ f[v].todo IN
            /\ scans(fl') <=> scans(fl)
            /\ scans(fl) => SameRow(fl'[v].rows, fl[v].rows, k)
  PROVE  SameRow(RowsNow(k)', RowsNow(k), k)
<1> DEFINE F(f) == {v \in Worker : f[v].pc # "none" /\ k \in f[v].keys \ f[v].todo}
<1>1. F(fl') = F(fl) OBVIOUS
<1>2. CASE F(fl) = {} BY <1>1, <1>2 DEF RowsNow, RowsIn
<1>3. CASE F(fl) # {}
  <2>1. \A v, u \in F(fl) : v = u BY OneFlush
  <2>2. PICK v \in Worker : F(fl) = {v} BY <1>3, <2>1
  <2>3. RowsNow(k) = fl[MinOf(F(fl))].rows /\ RowsNow(k)' = fl'[MinOf(F(fl'))].rows
    BY <1>1, <1>3 DEF RowsNow, RowsIn
  <2>4. SameRow(fl'[v].rows, fl[v].rows, k) BY <2>2
  <2>5. v \in Nat BY StateAssumption
  <2> HIDE DEF F
  <2>6. MinOf(F(fl)) = v /\ MinOf(F(fl')) = v BY <1>1, <2>2, <2>5, MinOfOne
  <2> QED BY <2>3, <2>4, <2>6
<1> QED BY <1>2, <1>3

\* Such a key stays clean while its columns stay.
LEMMA CleanKept ==
  ASSUME NEW k \in Key, IsClean(k), uk'[k] = uk[k], SameRow(RowsNow(k)', RowsNow(k), k)
  PROVE  IsClean(k)'
BY DEF IsClean, SameRow, Newest

\* A flush begins.
LEMMA FlushStartColumns ==
  ASSUME ColumnInv, NEW w \in Worker, NEW t \in Table, FlushStart(w, t)
  PROVE  ColumnInv'
<1> DEFINE x == [pc |-> "build", t |-> t, snaps |-> DOMAIN snaps, keys |-> PresentKeys(t),
                 todo |-> PresentKeys(t), ents |-> {}, rows |-> Copied(t)]
<1>1. TableType /\ FlushesInv /\ RowsInv /\ CleanKey BY DEF ColumnInv
<1>2. /\ UNCHANGED <<seq, uk, reqs, hist, sktdf, pending, wr, wk, ikeys>>
      /\ fl[w].pc = "none" /\ \A v \in Worker : fl[v].pc = "none" \/ fl[v].t # t
      /\ fl' = [fl EXCEPT ![w] = x]
  BY DEF FlushStart, Idle, userVars, blockVars
<1>3. \A k \in DOMAIN Copied(t) :
         /\ k \in Key /\ k \in DOMAIN sktdf[t] /\ TableOf[k] = t /\ Copied(t)[k] = sktdf[t][k]
  <2>1. \A k \in DOMAIN sktdf[t] : k \in Key BY <1>1 DEF TableType, IsRows
  <2>2. \A k \in DOMAIN sktdf[t] : TableOf[k] = t BY <1>1, <2>1 DEF RowsInv
  <2> QED BY <2>1, <2>2 DEF Copied, Rows, Row
<1>4. IsRows(Copied(t))
  <2>1. \A k \in DOMAIN Copied(t) : Copied(t)[k] \in RowOf BY <1>1, <1>3 DEF TableType, IsRows
  <2>2. Copied(t) = [k \in DOMAIN Copied(t) |-> Copied(t)[k]] BY DEF Copied
  <2> QED BY <1>3, <2>1, <2>2 DEF IsRows
<1>5. \A k \in PresentKeys(t) : k \in Key /\ TableOf[k] = t /\ uk[k].present
  BY DEF PresentKeys, KeysOf
<1>6. \A k \in Key : TableOf[k] = t /\ uk[k].present => k \in PresentKeys(t)
  BY DEF PresentKeys, KeysOf
<1>7. /\ x.pc = "build" /\ x.t = t /\ x.keys = PresentKeys(t) /\ x.todo = PresentKeys(t)
      /\ x.rows = Copied(t) /\ IsFlush(x)
  BY <1>4, <1>5 DEF IsFlush
<1> HIDE DEF x
<1>8. fl'[w] = x /\ \A v \in Worker : v # w => fl'[v] = fl[v] BY <1>1, <1>2 DEF TableType
<1>9. TableType'
  <2>1. fl' = [v \in Worker |-> fl'[v]] BY <1>1, <1>2 DEF TableType
  <2>2. \A v \in Worker : IsFlush(fl'[v]) BY <1>1, <1>7, <1>8 DEF TableType
  <2> QED BY <1>1, <1>2, <2>1, <2>2 DEF TableType
<1>10. RowsInv'
  <2>1. ASSUME NEW k \in Key, NEW v \in Worker, k \in DOMAIN fl'[v].rows
        PROVE  LET row == fl'[v].rows[k] IN
               /\ TableOf[k] = fl'[v].t /\ row.id \in DOMAIN hist /\ hist[row.id].key = k
               /\ ~uk[k].fetched => \A i \in DOMAIN uk[k].cols : row.id < uk[k].cols[i].id
    <3>1. CASE v = w
      <4>1. k \in DOMAIN sktdf[t] /\ TableOf[k] = t /\ fl'[v].rows[k] = sktdf[t][k] /\ fl'[v].t = t
        BY <1>3, <1>7, <1>8, <2>1, <3>1
      <4> QED BY <1>1, <4>1 DEF RowsInv
    <3>2. CASE v # w BY <1>1, <1>8, <2>1, <3>2 DEF RowsInv
    <3> QED BY <3>1, <3>2
  <2> QED BY <1>1, <1>2, <2>1 DEF RowsInv
<1>11. FlushesInv'
  <2>1. ASSUME NEW v \in Worker
        PROVE  /\ fl'[v].pc = "none" => fl'[v] = NoFlush
               /\ fl'[v].pc # "none" => fl'[v].t \in Table
               /\ fl'[v].pc \notin {"none", "build"} => fl'[v].todo = {}
               /\ fl'[v].todo \subseteq fl'[v].keys
               /\ \A k \in fl'[v].keys : TableOf[k] = fl'[v].t
               /\ \A k \in Key : (/\ fl'[v].pc # "none" /\ TableOf[k] = fl'[v].t
                                  /\ uk[k].present /\ ~uk[k].dirty) => k \in fl'[v].keys
    <3>1. CASE v = w
      <4>1. fl'[v] = x BY <1>8, <3>1
      <4> QED BY <1>5, <1>6, <1>7, <4>1
    <3>2. CASE v # w
      <4>1. fl'[v] = fl[v] BY <1>8, <3>2
      <4>2. /\ fl[v].pc = "none" => fl[v] = NoFlush
            /\ fl[v].pc # "none" => fl[v].t \in Table
            /\ fl[v].pc \notin {"none", "build"} => fl[v].todo = {}
            /\ fl[v].todo \subseteq fl[v].keys
            /\ \A k \in fl[v].keys : TableOf[k] = fl[v].t
            /\ \A k \in Key : (/\ fl[v].pc # "none" /\ TableOf[k] = fl[v].t
                               /\ uk[k].present /\ ~uk[k].dirty) => k \in fl[v].keys
        BY <1>1 DEF FlushesInv
      <4> QED BY <4>1, <4>2
    <3> QED BY <3>1, <3>2
  <2>2. \A u, v \in Worker : fl'[u].pc # "none" /\ fl'[v].pc # "none" /\ fl'[u].t = fl'[v].t => u = v
    <3>1. \A u, v \in Worker : fl[u].pc # "none" /\ fl[v].pc # "none" /\ fl[u].t = fl[v].t => u = v
      BY <1>1 DEF FlushesInv
    <3> QED BY <1>2, <1>7, <1>8, <3>1
  <2> QED BY <1>2, <2>1, <2>2 DEF FlushesInv
<1>12. CleanKey'
  <2>1. ASSUME NEW k \in Key PROVE IsClean(k)'
    <3>1. ASSUME NEW v \in Worker
          PROVE  LET scans(f) == f[v].pc # "none" /\ k \in f[v].keys \ f[v].todo IN
                 /\ scans(fl') <=> scans(fl)
                 /\ scans(fl) => SameRow(fl'[v].rows, fl[v].rows, k)
      <4>1. CASE v = w BY <1>2, <1>7, <1>8, <4>1
      <4>2. CASE v # w BY <1>8, <4>2 DEF SameRow
      <4> QED BY <4>1, <4>2
    <3>2. SameRow(sktdf'[TableOf[k]], sktdf[TableOf[k]], k) BY <1>2 DEF SameRow
    <3>3. SameRow(RowsNow(k)', RowsNow(k), k) BY <1>1, <3>1, <3>2, RowKept
    <3> QED BY <1>1, <1>2, <3>3, CleanIs, CleanKept
  <2> QED BY <2>1, CleanIs
<1>13. ColumnsInv' /\ OpenInv' /\ ClosedInv' BY <1>2, KeysFrame DEF ColumnInv
<1>14. Places' /\ WorkerPlaces' BY <1>2, QueueFrame DEF ColumnInv
<1>15. UserType' /\ WorkerType' BY <1>2 DEF ColumnInv, UserType, WorkerType
<1> QED BY <1>9, <1>10, <1>11, <1>12, <1>13, <1>14, <1>15 DEF ColumnInv

\* A key without columns.
LEMMA NoUserKeyIs ==
  /\ NoUserKey \in UserKey /\ ~NoUserKey.present /\ NoUserKey.cols = <<>> /\ NoUserKey.req = 0
  /\ DOMAIN NoUserKey.cols = {} /\ ~NoUserKey.fetched
<1>1. <<>> \in Seq(ColumnNode) /\ DOMAIN << >> = {} OBVIOUS
<1> QED BY <1>1 DEF NoUserKey, UserKey

\* A key that has a request is not clean.
LEMMA RequestedDirty ==
  ASSUME UserType, ColumnsInv, OpenInv, ClosedInv, CleanKey, NEW r \in DOMAIN reqs
  PROVE  uk[reqs[r].key].present /\ uk[reqs[r].key].dirty /\ reqs[r].key \in Key
<1> DEFINE k == reqs[r].key
<1>1. k \in Key /\ reqs[r].latest \in Nat BY DEF UserType, AreRequests, IsRequest
<1> HIDE DEF k
<1>2. uk[k].cols \in Seq(ColumnNode) /\ uk[k].present \in BOOLEAN /\ uk[k].dirty \in BOOLEAN
  BY <1>1 DEF UserType, UserKey
<1>3. \E i \in DOMAIN uk[k].cols :
         uk[k].cols[i].st \in {"pending", "submitting"} /\ (reqs[r].latest = 0 => i = 1)
  <2>1. CASE reqs[r].latest = 0
    <3>1. uk[k].cols # <<>> /\ uk[k].cols[1].st = "pending"
      BY <2>1 DEF OpenInv, NoColumns, Newest, k
    <3>2. 1 \in DOMAIN uk[k].cols BY <1>2, <3>1
    <3> QED BY <3>1, <3>2
  <2>2. CASE reqs[r].latest # 0 BY <2>2 DEF ClosedInv, k
  <2> QED BY <2>1, <2>2
<1>4. PICK i \in DOMAIN uk[k].cols : uk[k].cols[i].st \in {"pending", "submitting"} BY <1>3
<1>5. uk[k].present
  <2>1. ASSUME ~uk[k].present PROVE FALSE
    <3>1. uk[k] = NoUserKey BY <1>1, <2>1 DEF ColumnsInv
    <3>2. DOMAIN uk[k].cols = {} BY <3>1, NoUserKeyIs
    <3> QED BY <1>4, <3>2
  <2> QED BY <1>2, <2>1
<1>6. uk[k].dirty
  <2>1. ASSUME ~uk[k].dirty PROVE FALSE
    <3>1. Len(uk[k].cols) = 1 /\ uk[k].cols[1].st = "stored"
      BY <1>1, <1>5, <2>1 DEF CleanKey, Newest
    <3>2. i = 1 BY <1>2, <1>4, <3>1
    <3> QED BY <1>4, <3>1, <3>2
  <2> QED BY <1>2, <2>1
<1> QED BY <1>1, <1>5, <1>6 DEF k

\* A flush ends: its rows become the rows of the table, and clean keys are evicted.
LEMMA FlushEndColumns ==
  ASSUME ColumnInv, NEW w \in Worker, FlushEnd(w)
  PROVE  ColumnInv'
<1> DEFINE E == Evicted(w)
           t == fl[w].t
<1>1. /\ UserType /\ WorkerType /\ TableType /\ ColumnsInv /\ RowsInv /\ FlushesInv
      /\ Places /\ WorkerPlaces /\ OpenInv /\ ClosedInv /\ CleanKey
  BY DEF ColumnInv
<1>2. /\ UNCHANGED <<seq, reqs, hist, pending, wr, wk, ikeys>>
      /\ fl[w].pc \in {"end", "release"}
      /\ sktdf' = [sktdf EXCEPT ![t] = fl[w].rows]
      /\ uk' = [k \in Key |-> IF k \in E THEN NoUserKey ELSE uk[k]]
      /\ fl' = [fl EXCEPT ![w] = NoFlush]
  BY DEF FlushEnd
<1>3. fl[w].todo = {} /\ t \in Table /\ fl[w].pc # "none" BY <1>1, <1>2 DEF FlushesInv
<1>4. \A k \in E : k \in Key /\ uk[k].present /\ ~uk[k].dirty
  <2>1. \A k \in fl[w].keys : k \in Key BY <1>1 DEF TableType, IsFlush
  <2>2. \A k \in Key : k <= k BY StateAssumption
  <2> QED BY <2>1, <2>2 DEF Evicted, InKeymap, Busy
<1> HIDE DEF E
<1>5. \A k \in Key : IF k \in E THEN uk'[k] = NoUserKey ELSE uk'[k] = uk[k] BY <1>2
<1>6. \A k \in Key : uk'[k].present => k \notin E /\ uk'[k] = uk[k] BY <1>5, NoUserKeyIs
<1>7. \A r \in DOMAIN reqs : uk'[reqs[r].key] = uk[reqs[r].key]
  BY <1>1, <1>4, <1>5, RequestedDirty
<1>8. /\ fl'[w] = NoFlush /\ \A v \in Worker : v # w => fl'[v] = fl[v]
      /\ sktdf'[t] = fl[w].rows /\ \A u \in Table : u # t => sktdf'[u] = sktdf[u]
  BY <1>1, <1>2, <1>3 DEF TableType
<1>9. UserType'
  <2>1. uk' \in [Key -> UserKey] BY <1>1, <1>2, NoUserKeyIs DEF UserType
  <2> QED BY <1>1, <1>2, <2>1 DEF UserType
<1>10. TableType'
  <2>1. IsFlush(NoFlush)
    <3>1. IsRows(Empty) BY DEF IsRows, Empty
    <3> QED BY <3>1 DEF IsFlush, NoFlush
  <2>2. \A v \in Worker : IsFlush(fl'[v]) BY <1>1, <1>8, <2>1 DEF TableType
  <2>3. fl' = [v \in Worker |-> fl'[v]] /\ sktdf' = [u \in Table |-> sktdf'[u]]
    BY <1>1, <1>2 DEF TableType
  <2>4. IsRows(fl[w].rows) BY <1>1 DEF TableType, IsFlush
  <2>5. \A u \in Table : IsRows(sktdf'[u]) BY <1>1, <1>8, <2>4 DEF TableType
  <2> QED BY <2>2, <2>3, <2>5 DEF TableType
<1>11. ColumnsInv'
  <2>1. ASSUME NEW k \in Key
        PROVE  /\ ~uk'[k].present => uk'[k] = NoUserKey
               /\ uk'[k].present => uk'[k].cols # <<>>
               /\ \A i \in DOMAIN uk'[k].cols :
                     uk'[k].cols[i].id \in DOMAIN hist /\ hist[uk'[k].cols[i].id].key = k
               /\ \A i, j \in DOMAIN uk'[k].cols : i < j => uk'[k].cols[j].id < uk'[k].cols[i].id
    <3>1. CASE k \in E
      <4>1. uk'[k] = NoUserKey BY <1>5, <3>1
      <4> QED BY <4>1, NoUserKeyIs
    <3>2. CASE k \notin E
      <4>1. uk'[k] = uk[k] BY <1>5, <3>2
      <4> QED BY <1>1, <4>1 DEF ColumnsInv
    <3> QED BY <3>1, <3>2
  <2> QED BY <1>2, <2>1 DEF ColumnsInv
<1>12. RowsInv'
  <2>1. ASSUME NEW k \in Key, NEW row, row.id \in DOMAIN hist, hist[row.id].key = k,
               ~uk[k].fetched => \A i \in DOMAIN uk[k].cols : row.id < uk[k].cols[i].id
        PROVE  /\ row.id \in DOMAIN hist' /\ hist'[row.id].key = k
               /\ ~uk'[k].fetched => \A i \in DOMAIN uk'[k].cols : row.id < uk'[k].cols[i].id
    <3>1. CASE k \in E
      <4>1. DOMAIN uk'[k].cols = {} BY <1>5, <3>1, NoUserKeyIs
      <4> QED BY <1>2, <2>1, <4>1
    <3>2. CASE k \notin E BY <1>2, <1>5, <2>1, <3>2
    <3> QED BY <3>1, <3>2
  <2>2. ASSUME NEW k \in Key, NEW u \in Table, k \in DOMAIN sktdf'[u]
        PROVE  LET row == sktdf'[u][k] IN
               /\ TableOf[k] = u /\ row.id \in DOMAIN hist /\ hist[row.id].key = k
               /\ ~uk[k].fetched => \A i \in DOMAIN uk[k].cols : row.id < uk[k].cols[i].id
    <3>1. CASE u = t
      <4>1. sktdf'[u] = fl[w].rows /\ k \in DOMAIN fl[w].rows BY <1>8, <2>2, <3>1
      <4> QED BY <1>1, <3>1, <4>1 DEF RowsInv
    <3>2. CASE u # t
      <4>1. sktdf'[u] = sktdf[u] /\ k \in DOMAIN sktdf[u] BY <1>8, <2>2, <3>2
      <4> QED BY <1>1, <4>1 DEF RowsInv
    <3> QED BY <3>1, <3>2
  <2>3. ASSUME NEW k \in Key, NEW v \in Worker, k \in DOMAIN fl'[v].rows
        PROVE  LET row == fl'[v].rows[k] IN
               /\ TableOf[k] = fl'[v].t /\ row.id \in DOMAIN hist /\ hist[row.id].key = k
               /\ ~uk[k].fetched => \A i \in DOMAIN uk[k].cols : row.id < uk[k].cols[i].id
    <3>1. v # w BY <1>8, <2>3 DEF NoFlush, Empty
    <3>2. fl'[v] = fl[v] /\ k \in DOMAIN fl[v].rows BY <1>8, <2>3, <3>1
    <3> QED BY <1>1, <3>2 DEF RowsInv
  <2> QED BY <2>1, <2>2, <2>3 DEF RowsInv
<1>13. FlushesInv'
  <2>1. ASSUME NEW v \in Worker
        PROVE  /\ fl'[v].pc = "none" => fl'[v] = NoFlush
               /\ fl'[v].pc # "none" => fl'[v].t \in Table
               /\ fl'[v].pc \notin {"none", "build"} => fl'[v].todo = {}
               /\ fl'[v].todo \subseteq fl'[v].keys
               /\ \A k \in fl'[v].keys : TableOf[k] = fl'[v].t
               /\ \A k \in Key : (/\ fl'[v].pc # "none" /\ TableOf[k] = fl'[v].t
                                  /\ uk'[k].present /\ ~uk'[k].dirty) => k \in fl'[v].keys
    <3>1. CASE v = w
      <4>1. fl'[v] = NoFlush BY <1>8, <3>1
      <4> QED BY <4>1 DEF NoFlush
    <3>2. CASE v # w
      <4>1. fl'[v] = fl[v] BY <1>8, <3>2
      <4>2. /\ fl[v].pc = "none" => fl[v] = NoFlush
            /\ fl[v].pc # "none" => fl[v].t \in Table
            /\ fl[v].pc \notin {"none", "build"} => fl[v].todo = {}
            /\ fl[v].todo \subseteq fl[v].keys
            /\ \A k \in fl[v].keys : TableOf[k] = fl[v].t
            /\ \A k \in Key : (/\ fl[v].pc # "none" /\ TableOf[k] = fl[v].t
                               /\ uk[k].present /\ ~uk[k].dirty) => k \in fl[v].keys
        BY <1>1 DEF FlushesInv
      <4> QED BY <1>6, <4>1, <4>2
    <3> QED BY <3>1, <3>2
  <2>2. \A u, v \in Worker : fl'[u].pc # "none" /\ fl'[v].pc # "none" /\ fl'[u].t = fl'[v].t => u = v
    <3>1. \A u, v \in Worker : fl[u].pc # "none" /\ fl[v].pc # "none" /\ fl[u].t = fl[v].t => u = v
      BY <1>1 DEF FlushesInv
    <3>2. fl'[w].pc = "none" BY <1>8 DEF NoFlush
    <3> QED BY <1>8, <3>1, <3>2
  <2> QED BY <2>1, <2>2 DEF FlushesInv
<1>14. CleanKey'
  <2>1. ASSUME NEW k \in Key PROVE IsClean(k)'
    <3>0. CASE ~(uk'[k].present /\ ~uk'[k].dirty) BY <3>0 DEF IsClean
    <3>1. CASE uk'[k].present /\ ~uk'[k].dirty
      <4>1. uk'[k] = uk[k] BY <1>6, <3>1
      <4>2. IsClean(k) BY <1>1, CleanIs
      <4>3. \A v \in Worker : \A j \in fl[v].keys : TableOf[j] = fl[v].t BY <1>1 DEF FlushesInv
      <4>4. CASE TableOf[k] = t
        <5>1. k \in fl[w].keys BY <1>1, <1>3, <3>1, <4>1, <4>4 DEF FlushesInv
        <5>2. RowsNow(k) = fl[w].rows
          <6>1. k \in fl[w].keys \ fl[w].todo BY <1>3, <5>1
          <6> QED BY <1>1, <1>3, <6>1, OneFlush, RowsInFacts DEF RowsNow
        <5>3. \A v \in Worker : fl'[v].pc # "none" => k \notin fl'[v].keys \ fl'[v].todo
          <6>1. \A v \in Worker : v # w /\ fl[v].pc # "none" => fl[v].t # t
            BY <1>1, <1>3 DEF FlushesInv
          <6>2. fl'[w].pc = "none" BY <1>8 DEF NoFlush
          <6> QED BY <1>8, <4>3, <4>4, <6>1, <6>2
        <5>4. RowsNow(k)' = sktdf'[TableOf[k]]
          <6>1. {v \in Worker : fl'[v].pc # "none" /\ k \in fl'[v].keys \ fl'[v].todo} = {} BY <5>3
          <6> QED BY <6>1 DEF RowsNow, RowsIn
        <5>5. RowsNow(k)' = RowsNow(k) BY <1>8, <4>4, <5>2, <5>4
        <5> QED BY <4>1, <4>2, <5>5, CleanKept DEF SameRow
      <4>5. CASE TableOf[k] # t
        <5>1. ASSUME NEW v \in Worker
              PROVE  LET scans(f) == f[v].pc # "none" /\ k \in f[v].keys \ f[v].todo IN
                     /\ scans(fl') <=> scans(fl)
                     /\ scans(fl) => SameRow(fl'[v].rows, fl[v].rows, k)
          <6>1. CASE v = w
            <7>1. fl'[v].pc = "none" BY <1>8, <6>1 DEF NoFlush
            <7>2. k \notin fl[v].keys BY <4>3, <4>5, <6>1
            <7> QED BY <7>1, <7>2
          <6>2. CASE v # w BY <1>8, <6>2 DEF SameRow
          <6> QED BY <6>1, <6>2
        <5>2. TableOf[k] \in Table BY StateAssumption
        <5>3. SameRow(sktdf'[TableOf[k]], sktdf[TableOf[k]], k) BY <1>8, <4>5, <5>2 DEF SameRow
        <5>4. SameRow(RowsNow(k)', RowsNow(k), k) BY <1>1, <5>1, <5>3, RowKept
        <5> QED BY <4>1, <4>2, <5>4, CleanKept
      <4> QED BY <4>4, <4>5
    <3> QED BY <3>0, <3>1
  <2> QED BY <2>1, CleanIs
<1>15. OpenInv'
  <2>1. \A k \in Key : uk'[k].req # 0 => uk'[k] = uk[k] BY <1>5, NoUserKeyIs
  <2>2. \A k \in Key : uk'[k].req # 0 =>
          uk'[k].req \in DOMAIN reqs /\ reqs[uk'[k].req].key = k /\ reqs[uk'[k].req].latest = 0
    BY <1>1, <2>1 DEF OpenInv
  <2>3. ASSUME NEW r \in DOMAIN reqs, reqs[r].latest = 0
        PROVE  LET k == reqs[r].key IN
               /\ uk'[k].req = r /\ uk'[k].cols # <<>> /\ uk'[k].cols[1].st = "pending"
               /\ \A x \in DOMAIN reqs : reqs[x].latest # uk'[k].cols[1].id
    <3>1. uk'[reqs[r].key] = uk[reqs[r].key] BY <1>7
    <3>2. LET k == reqs[r].key IN
          /\ uk[k].req = r /\ uk[k].cols # <<>> /\ uk[k].cols[1].st = "pending"
          /\ \A x \in DOMAIN reqs : reqs[x].latest # uk[k].cols[1].id
      BY <1>1, <2>3 DEF OpenInv, NoColumns, Newest
    <3> QED BY <3>1, <3>2
  <2> QED BY <1>2, <2>2, <2>3 DEF OpenInv, NoColumns, Newest
<1>16. ClosedInv'
  <2>1. ASSUME NEW r \in DOMAIN reqs, reqs[r].latest # 0
        PROVE  /\ \E i \in DOMAIN uk'[reqs[r].key].cols :
                     /\ uk'[reqs[r].key].cols[i].id = reqs[r].latest
                     /\ uk'[reqs[r].key].cols[i].st \in {"pending", "submitting"}
               /\ \A x \in DOMAIN reqs : reqs[x].latest = reqs[r].latest => x = r
    <3>1. uk'[reqs[r].key] = uk[reqs[r].key] BY <1>7
    <3>2. /\ \E i \in DOMAIN uk[reqs[r].key].cols :
                /\ uk[reqs[r].key].cols[i].id = reqs[r].latest
                /\ uk[reqs[r].key].cols[i].st \in {"pending", "submitting"}
          /\ \A x \in DOMAIN reqs : reqs[x].latest = reqs[r].latest => x = r
      BY <1>1, <2>1 DEF ClosedInv
    <3> QED BY <3>1, <3>2
  <2>2. reqs' = reqs BY <1>2
  <2> QED BY <2>1, <2>2 DEF ClosedInv
<1>17. Places' /\ WorkerPlaces' BY <1>1, <1>2, QueueFrame
<1>18. WorkerType' BY <1>1, <1>2 DEF WorkerType
<1> QED BY <1>9, <1>10, <1>11, <1>12, <1>13, <1>14, <1>15, <1>16, <1>17, <1>18 DEF ColumnInv

\* The latest column of a closed request is a write of its key.
LEMMA LatestWrite ==
  ASSUME UserType, ColumnsInv, ClosedInv, NEW r \in DOMAIN reqs, reqs[r].latest # 0
  PROVE  reqs[r].latest \in DOMAIN hist /\ hist[reqs[r].latest].key = reqs[r].key
<1>1. reqs[r].key \in Key BY DEF UserType, AreRequests, IsRequest
<1>2. PICK i \in DOMAIN uk[reqs[r].key].cols : uk[reqs[r].key].cols[i].id = reqs[r].latest
  BY DEF ClosedInv
<1> QED BY <1>1, <1>2 DEF ColumnsInv

\* So is the newest column of a key.
LEMMA NewestWrite ==
  ASSUME UserType, ColumnsInv, NEW k \in Key, uk[k].cols # <<>>
  PROVE  /\ 1 \in DOMAIN uk[k].cols /\ uk[k].cols[1].id \in DOMAIN hist
         /\ hist[uk[k].cols[1].id].key = k
<1>1. uk[k].cols \in Seq(ColumnNode) BY DEF UserType, UserKey
<1>2. 1 \in DOMAIN uk[k].cols BY <1>1
<1> QED BY <1>2 DEF ColumnsInv

\* A clean key whose columns and row stay is clean.
LEMMA CleanStays ==
  ASSUME NEW k \in Key, IsClean(k), UNCHANGED <<fl, sktdf>>,
         uk'[k].present /\ ~uk'[k].dirty =>
            /\ uk[k].present /\ ~uk[k].dirty
            /\ uk'[k].fetched = uk[k].fetched /\ uk'[k].cols = uk[k].cols
  PROVE  IsClean(k)'
<1>1. RowsNow(k)' = RowsNow(k) BY DEF RowsNow, RowsIn
<1> QED BY <1>1 DEF IsClean, Newest

\* A write is inserted.
LEMMA InsertColumns ==
  ASSUME ColumnInv, TableInv, NEW p \in Writer, Store(p), Insert(p)
  PROVE  ColumnInv'
<1>1. /\ UserType /\ WorkerType /\ TableType /\ ColumnsInv /\ RowsInv /\ FlushesInv
      /\ Places /\ WorkerPlaces /\ OpenInv /\ ClosedInv /\ CleanKey
  BY DEF ColumnInv
<1>2. PICK k \in Key : \E tid, c : Inserts(p, k, tid, c) BY <1>1, InsertIs
<1>3. PICK tid, c : Inserts(p, k, tid, c) BY <1>2
<1>4. Pushed(k, tid, c) /\ Scheduling(k, tid) BY <1>1, <1>3, InsertPushes, InsertSchedules
<1> DEFINE s == seq + 1
           q == uk[k].req
           A == uk[k].cols
           B == uk'[k].cols
           new == New(k, tid)
           splits == Splits(k, tid)
<1>5. /\ seq \in Nat /\ s \in Nat /\ s # 0 /\ DOMAIN reqs \subseteq 1..seq /\ DOMAIN hist \subseteq 1..seq
      /\ s \notin DOMAIN reqs /\ s \notin DOMAIN hist /\ 0 \notin DOMAIN reqs /\ 0 \notin DOMAIN hist
      /\ \A i \in DOMAIN hist : i \in Nat /\ i < s
  BY <1>1 DEF UserType
<1>6. PICK h \in HistNode : h.key = k /\ h.tid = tid /\ hist' = With(hist, s, h)
  BY <1>3 DEF Inserts
<1>7. /\ DOMAIN hist' = DOMAIN hist \cup {s} /\ hist'[s].key = k
      /\ hist' \in [DOMAIN hist' -> HistNode]
      /\ \A i \in DOMAIN hist : hist'[i] = hist[i]
  <2>1. hist \in [DOMAIN hist -> HistNode] BY <1>1 DEF UserType, HistNode
  <2> QED BY <1>5, <1>6, <2>1 DEF With
<1>8. /\ seq' = s /\ UNCHANGED <<pending, wk, fl, sktdf, ikeys>>
      /\ c.id = s /\ c.st = "pending"
  BY <1>3 DEF Inserts
<1>9. /\ \A j \in Key : j # k => uk'[j] = uk[j]
      /\ uk'[k].present /\ uk'[k].dirty /\ uk'[k].fetched = uk[k].fetched
      /\ uk'[k].req = IF new THEN s ELSE q
      /\ DOMAIN A = 1..Len(A) /\ Len(A) \in Nat /\ Len(B) = Len(A) + 1
      /\ DOMAIN B = 1..(Len(A) + 1) /\ B[1] = c
      /\ \A i \in DOMAIN A : /\ B[i + 1].id = A[i].id
                             /\ A[i].st # "merged" => B[i + 1].st = A[i].st
  <2>1. \A i \in DOMAIN A :
          B[i + 1].st = IF i = 1 /\ A[i].st = "merged" THEN "lost" ELSE A[i].st
    BY <1>4 DEF Pushed
  <2> QED BY <1>4, <2>1 DEF Pushed
<1>10. \A i \in DOMAIN B : i = 1 \/ (i - 1 \in DOMAIN A /\ B[i].id = A[i - 1].id)
  <2>1. \A i \in DOMAIN B : i = 1 \/ (i - 1 \in DOMAIN A /\ (i - 1) + 1 = i) BY <1>9
  <2> QED BY <1>9, <2>1
<1>11. /\ DOMAIN reqs' = DOMAIN reqs \cup (IF new THEN {s} ELSE {})
       /\ new => reqs'[s].key = k /\ reqs'[s].latest = 0
       /\ \A r \in DOMAIN reqs :
             /\ reqs'[r].key = reqs[r].key
             /\ reqs'[r].latest = IF r = q /\ splits THEN A[1].id ELSE reqs[r].latest
       /\ splits => /\ q # 0 /\ q \in DOMAIN reqs /\ reqs[q].key = k /\ reqs[q].latest = 0
                    /\ new /\ A # <<>> /\ A[1].st = "pending"
  <2>1. /\ DOMAIN reqs' = DOMAIN reqs \cup (IF new THEN {s} ELSE {})
        /\ new => reqs'[s] = NewRequest(k, tid)
        /\ splits => q # 0
        /\ \A r \in DOMAIN reqs :
             /\ reqs'[r].key = reqs[r].key
             /\ reqs'[r].latest = IF r = q /\ splits THEN A[1].id ELSE reqs[r].latest
    BY <1>4 DEF Scheduling, Newest
  <2>2. new => reqs'[s].key = k /\ reqs'[s].latest = 0 BY <2>1 DEF NewRequest
  <2>3. splits => /\ q # 0 /\ q \in DOMAIN reqs /\ reqs[q].key = k /\ reqs[q].latest = 0
    BY <1>1, <2>1 DEF OpenInv
  <2>4. splits => new /\ A # <<>> /\ A[1].st = "pending"
    BY DEF New, Splits, Scheduled, NoColumns, Newest
  <2> QED BY <2>1, <2>2, <2>3, <2>4
<1>12. A # <<>> => 1 \in DOMAIN A /\ A[1].id \in DOMAIN hist /\ hist[A[1].id].key = k
  BY <1>1, NewestWrite
<1>13. \A r \in DOMAIN reqs : reqs[r].latest # 0 =>
          reqs[r].latest \in DOMAIN hist /\ hist[reqs[r].latest].key = reqs[r].key
  BY <1>1, LatestWrite
<1>14. \A r \in DOMAIN reqs' : reqs'[r].latest # s
  BY <1>5, <1>11, <1>12, <1>13
<1>15. /\ wr' \in [Writer -> WriterState]
       /\ \A x \in Writer : wr'[x].b.count = wr'[x].b.sn + Len(wr'[x].b.ops)
       /\ \A x \in Writer : x # p => wr'[x] = wr[x]
       /\ wr[p].pc = "store"
       /\ wr'[p].pc = (IF new THEN "push" ELSE "store") /\ wr'[p].rq = IF new THEN s ELSE 0
  BY <1>3 DEF Inserts
<1> HIDE DEF s, q, A, B, new, splits
<1>16. UserType'
  <2>1. uk' \in [Key -> UserKey] /\ AreRequests(reqs')
    BY <1>4 DEF Pushed, Scheduling
  <2>2. DOMAIN reqs' \subseteq 1..s /\ DOMAIN hist' \subseteq 1..s
    <3>1. \A i : i \in 1..seq => i \in 1..s BY <1>5 DEF s
    <3>2. s \in 1..s BY <1>5
    <3> QED BY <1>5, <1>7, <1>11, <3>1, <3>2
  <2> QED BY <1>1, <1>5, <1>7, <1>8, <1>15, <2>1, <2>2 DEF UserType, HistNode
<1>17. ColumnsInv'
  <2>1. ASSUME NEW j \in Key, j # k
        PROVE  /\ ~uk'[j].present => uk'[j] = NoUserKey
               /\ uk'[j].present => uk'[j].cols # <<>>
               /\ \A i \in DOMAIN uk'[j].cols :
                     uk'[j].cols[i].id \in DOMAIN hist' /\ hist'[uk'[j].cols[i].id].key = j
               /\ \A i, m \in DOMAIN uk'[j].cols : i < m => uk'[j].cols[m].id < uk'[j].cols[i].id
    <3>1. uk'[j] = uk[j] BY <1>9, <2>1
    <3>2. /\ ~uk[j].present => uk[j] = NoUserKey
          /\ uk[j].present => uk[j].cols # <<>>
          /\ \A i \in DOMAIN uk[j].cols :
                 uk[j].cols[i].id \in DOMAIN hist /\ hist[uk[j].cols[i].id].key = j
          /\ \A i, m \in DOMAIN uk[j].cols : i < m => uk[j].cols[m].id < uk[j].cols[i].id
      BY <1>1 DEF ColumnsInv
    <3> QED BY <1>7, <3>1, <3>2
  <2>2. B # <<>> BY <1>9
  <2>3. /\ \A i \in DOMAIN A : A[i].id \in DOMAIN hist /\ hist[A[i].id].key = k
        /\ \A i, m \in DOMAIN A : i < m => A[m].id < A[i].id
    BY <1>1 DEF ColumnsInv, A
  <2>4. \A i \in DOMAIN B : B[i].id \in DOMAIN hist' /\ hist'[B[i].id].key = k
    BY <1>7, <1>8, <1>9, <1>10, <2>3
  <2>5. ASSUME NEW i \in DOMAIN B, NEW m \in DOMAIN B, i < m PROVE B[m].id < B[i].id
    <3>1. m # 1 /\ i \in Nat /\ m \in Nat BY <1>9, <2>5
    <3>2. CASE i = 1 BY <1>5, <1>8, <1>9, <1>10, <2>3, <3>1, <3>2
    <3>3. CASE i # 1
      <4>1. i - 1 \in DOMAIN A /\ m - 1 \in DOMAIN A /\ i - 1 < m - 1
            /\ B[i].id = A[i - 1].id /\ B[m].id = A[m - 1].id
        BY <1>10, <2>5, <3>1, <3>3
      <4> QED BY <2>3, <4>1
    <3> QED BY <3>2, <3>3
  <2>6. uk'[k].present BY <1>9
  <2> QED BY <2>1, <2>2, <2>4, <2>5, <2>6 DEF ColumnsInv, B
<1>18. RowsInv'
  <2>1. ASSUME NEW j \in Key, NEW row, row.id \in DOMAIN hist, hist[row.id].key = j,
               ~uk[j].fetched => \A i \in DOMAIN uk[j].cols : row.id < uk[j].cols[i].id
        PROVE  /\ row.id \in DOMAIN hist' /\ hist'[row.id].key = j
               /\ ~uk'[j].fetched => \A i \in DOMAIN uk'[j].cols : row.id < uk'[j].cols[i].id
    <3>1. CASE j # k BY <1>7, <1>9, <2>1, <3>1
    <3>2. CASE j = k
      <4>1. row.id \in Nat /\ row.id < s BY <1>5, <2>1
      <4>2. uk'[k].fetched = uk[k].fetched BY <1>9
      <4>3. ASSUME ~uk[k].fetched, NEW i \in DOMAIN B PROVE row.id < B[i].id
        <5>1. \A m \in DOMAIN A : row.id < A[m].id BY <2>1, <3>2, <4>3 DEF A
        <5> QED BY <1>8, <1>9, <1>10, <4>1, <5>1
      <4> QED BY <1>7, <2>1, <3>2, <4>2, <4>3 DEF B
    <3> QED BY <3>1, <3>2
  <2>2. ASSUME NEW j \in Key, NEW u \in Table, j \in DOMAIN sktdf[u]
        PROVE  LET row == sktdf[u][j] IN
               /\ TableOf[j] = u /\ row.id \in DOMAIN hist /\ hist[row.id].key = j
               /\ ~uk[j].fetched => \A i \in DOMAIN uk[j].cols : row.id < uk[j].cols[i].id
    BY <1>1, <2>2 DEF RowsInv
  <2>3. ASSUME NEW j \in Key, NEW v \in Worker, j \in DOMAIN fl[v].rows
        PROVE  LET row == fl[v].rows[j] IN
               /\ TableOf[j] = fl[v].t /\ row.id \in DOMAIN hist /\ hist[row.id].key = j
               /\ ~uk[j].fetched => \A i \in DOMAIN uk[j].cols : row.id < uk[j].cols[i].id
    BY <1>1, <2>3 DEF RowsInv
  <2>4. fl' = fl /\ sktdf' = sktdf BY <1>8
  <2> QED BY <2>1, <2>2, <2>3, <2>4 DEF RowsInv
<1>19. FlushesInv'
  <2>1. fl' = fl BY <1>8
  <2>2. \A j \in Key : uk'[j].present /\ ~uk'[j].dirty => uk[j].present /\ ~uk[j].dirty
    BY <1>9
  <2> QED BY <1>1, <2>1, <2>2 DEF FlushesInv
<1>20. CleanKey'
  <2>1. ASSUME NEW j \in Key PROVE IsClean(j)'
    <3>1. IsClean(j) BY <1>1, CleanIs
    <3>2. CASE j = k BY <1>9, <3>2 DEF IsClean
    <3>3. CASE j # k BY <1>8, <1>9, <3>1, <3>3, CleanStays
    <3> QED BY <3>2, <3>3
  <2> QED BY <2>1, CleanIs
<1>21. Places'
  <2>1. /\ \A i, j \in DOMAIN pending : pending[i] = pending[j] => i = j
        /\ \A i \in DOMAIN pending : pending[i] \in DOMAIN reqs
    BY <1>1 DEF Places
  <2>2. \A x \in Writer :
          IF wr[x].pc = "store" THEN wr[x].rq = 0
          ELSE /\ wr[x].rq \in DOMAIN reqs /\ \A i \in DOMAIN pending : pending[i] # wr[x].rq
    BY <1>1 DEF Places
  <2>3. \A x, y \in Writer : wr[x].pc # "store" /\ wr[x].rq = wr[y].rq => x = y
    BY <1>1 DEF Places
  <2>4. \A x \in Writer :
          IF wr'[x].pc = "store" THEN wr'[x].rq = 0
          ELSE /\ wr'[x].rq \in DOMAIN reqs' /\ \A i \in DOMAIN pending : pending[i] # wr'[x].rq
    BY <1>5, <1>11, <1>15, <2>1, <2>2
  <2>5. \A x, y \in Writer : wr'[x].pc # "store" /\ wr'[x].rq = wr'[y].rq => x = y
    BY <1>5, <1>15, <2>2, <2>3
  <2>6. \A i \in DOMAIN pending : pending[i] \in DOMAIN reqs' BY <1>11, <2>1
  <2>7. pending' = pending BY <1>8
  <2> QED BY <2>1, <2>4, <2>5, <2>6, <2>7 DEF Places
<1>22. WorkerPlaces'
  <2>1. \A w \in Worker : Todo(w)' = Todo(w) BY <1>8 DEF Todo, From
  <2>2. ASSUME NEW w \in Worker, NEW i \in Todo(w)
        PROVE  LET r == wk[w].list[i] IN
               /\ r \in DOMAIN reqs' /\ reqs'[r].latest # 0
               /\ \A j \in DOMAIN pending : pending[j] # r
               /\ \A x \in Writer : wr'[x].rq # r
    <3> DEFINE r == wk[w].list[i]
    <3>1. /\ r \in DOMAIN reqs /\ reqs[r].latest # 0
          /\ \A j \in DOMAIN pending : pending[j] # r /\ \A x \in Writer : wr[x].rq # r
      BY <1>1 DEF WorkerPlaces
    <3>2. \A x \in Writer : wr[x].rq # r BY <1>1 DEF WorkerPlaces
    <3> HIDE DEF r
    <3>3. r \in DOMAIN reqs' /\ reqs'[r].latest # 0 BY <1>11, <3>1
    <3>4. \A x \in Writer : wr'[x].rq # r BY <1>5, <1>15, <3>1, <3>2
    <3> QED BY <3>1, <3>3, <3>4 DEF r
  <2>3. /\ \A w \in Worker :
             /\ wk[w].pc = "idle" => wk[w] = IdleWorker
             /\ wk[w].pc = "put" => wk[w].pos = 1
             /\ wk[w].pc # "idle" => wk[w].pos \in 1..Len(wk[w].list)
        /\ \A v, w \in Worker : \A i \in Todo(v), j \in Todo(w) :
             wk[v].list[i] = wk[w].list[j] => v = w /\ i = j
    BY <1>1 DEF WorkerPlaces
  <2>4. wk' = wk /\ pending' = pending BY <1>8
  <2> QED BY <2>1, <2>2, <2>3, <2>4 DEF WorkerPlaces
<1>23. OpenInv'
  <2>1. ASSUME NEW j \in Key, uk'[j].req # 0
        PROVE  uk'[j].req \in DOMAIN reqs' /\ reqs'[uk'[j].req].key = j /\ reqs'[uk'[j].req].latest = 0
    <3>1. \A m \in Key : uk[m].req # 0 =>
             uk[m].req \in DOMAIN reqs /\ reqs[uk[m].req].key = m /\ reqs[uk[m].req].latest = 0
      BY <1>1 DEF OpenInv
    <3>2. CASE j # k
      <4>1. uk'[j].req = uk[j].req BY <1>9, <3>2
      <4>2. ~(uk[j].req = q /\ splits) BY <1>11, <2>1, <3>1, <3>2, <4>1
      <4> QED BY <1>11, <2>1, <3>1, <4>1, <4>2
    <3>3. CASE j = k
      <4>1. CASE new BY <1>9, <1>11, <3>3, <4>1
      <4>2. CASE ~new
        <5>1. ~splits BY <1>11, <4>2
        <5>2. uk'[k].req = q BY <1>9, <4>2
        <5>3. q \in DOMAIN reqs /\ reqs[q].key = k /\ reqs[q].latest = 0
          BY <2>1, <3>1, <3>3, <5>2 DEF q
        <5> QED BY <1>11, <3>3, <5>1, <5>2, <5>3
      <4> QED BY <4>1, <4>2
    <3> QED BY <3>2, <3>3
  <2>2. ASSUME NEW r \in DOMAIN reqs', reqs'[r].latest = 0
        PROVE  LET j == reqs'[r].key IN
               /\ uk'[j].req = r /\ uk'[j].cols # <<>> /\ uk'[j].cols[1].st = "pending"
               /\ \A x \in DOMAIN reqs' : reqs'[x].latest # uk'[j].cols[1].id
    <3> DEFINE j == reqs'[r].key
    <3>0. B # <<>> /\ B[1].id = s /\ B[1].st = "pending" BY <1>8, <1>9
    <3>1. CASE r \notin DOMAIN reqs
      <4>1. r = s /\ new /\ j = k BY <1>11, <3>1
      <4>2. uk'[k].req = s BY <1>9, <4>1
      <4> QED BY <1>14, <3>0, <4>1, <4>2 DEF B
    <3>2. CASE r \in DOMAIN reqs
      <4>1. j = reqs[r].key /\ j \in Key BY <1>1, <1>11, <3>2 DEF UserType, AreRequests, IsRequest
      <4>2. ~(r = q /\ splits) /\ reqs[r].latest = 0
        <5>1. ASSUME r = q, splits PROVE FALSE
          <6>1. reqs'[r].latest = A[1].id BY <1>11, <3>2, <5>1
          <6>2. A[1].id # 0 BY <1>5, <1>11, <1>12, <5>1
          <6> QED BY <2>2, <6>1, <6>2
        <5> QED BY <1>11, <2>2, <3>2, <5>1
      <4>3. /\ uk[j].req = r /\ uk[j].cols # <<>> /\ uk[j].cols[1].st = "pending"
            /\ \A x \in DOMAIN reqs : reqs[x].latest # uk[j].cols[1].id
        BY <1>1, <3>2, <4>1, <4>2 DEF OpenInv, NoColumns, Newest
      <4> HIDE DEF j
      <4>4. CASE j = k
        <5>1. r = q BY <4>3, <4>4 DEF q
        <5>2. ~new
          <6>1. Scheduled(k) BY <4>3, <4>4 DEF Scheduled, NoColumns, Newest
          <6>2. ~splits BY <4>2, <5>1
          <6> QED BY <6>1, <6>2 DEF new, splits, New
        <5>3. uk'[k].req = r BY <1>9, <5>1, <5>2
        <5> QED BY <1>14, <3>0, <4>4, <5>3 DEF B, j
      <4>5. CASE j # k
        <5>1. uk'[j] = uk[j] BY <1>9, <4>1, <4>5
        <5>2. uk[j].cols[1].id \in DOMAIN hist /\ hist[uk[j].cols[1].id].key = j
          BY <1>1, <4>1, <4>3, NewestWrite
        <5>3. ASSUME NEW x \in DOMAIN reqs' PROVE reqs'[x].latest # uk[j].cols[1].id
          <6>1. CASE x \notin DOMAIN reqs
            <7>1. reqs'[x].latest = 0 BY <1>11, <6>1
            <7> QED BY <1>5, <5>2, <7>1
          <6>2. CASE x \in DOMAIN reqs /\ x = q /\ splits
            <7>1. reqs'[x].latest = A[1].id /\ hist[A[1].id].key = k BY <1>11, <1>12, <6>2
            <7> QED BY <4>5, <5>2, <7>1
          <6>3. CASE x \in DOMAIN reqs /\ ~(x = q /\ splits) BY <1>11, <4>3, <6>3
          <6> QED BY <6>1, <6>2, <6>3
        <5> QED BY <4>3, <5>1, <5>3 DEF j
      <4> QED BY <4>4, <4>5
    <3> QED BY <3>1, <3>2
  <2> QED BY <2>1, <2>2 DEF OpenInv, NoColumns, Newest
<1>24. ClosedInv'
  <2>1. ASSUME NEW r \in DOMAIN reqs', reqs'[r].latest # 0
        PROVE  /\ \E i \in DOMAIN uk'[reqs'[r].key].cols :
                     /\ uk'[reqs'[r].key].cols[i].id = reqs'[r].latest
                     /\ uk'[reqs'[r].key].cols[i].st \in {"pending", "submitting"}
               /\ \A x \in DOMAIN reqs' : reqs'[x].latest = reqs'[r].latest => x = r
    <3>1. r \in DOMAIN reqs /\ reqs'[r].key = reqs[r].key BY <1>11, <2>1
    <3>2. reqs[r].key \in Key BY <1>1, <3>1 DEF UserType, AreRequests, IsRequest
    <3>3. splits => \A x \in DOMAIN reqs : reqs[x].latest # A[1].id
      <4>1. ASSUME splits PROVE \A x \in DOMAIN reqs : reqs[x].latest # A[1].id
        <5>1. q \in DOMAIN reqs /\ reqs[q].key = k /\ reqs[q].latest = 0 BY <1>11, <4>1
        <5> QED BY <1>1, <5>1 DEF OpenInv, Newest, A
      <4> QED BY <4>1
    <3>4. CASE r = q /\ splits
      <4>1. reqs'[r].latest = A[1].id /\ reqs[r].key = k /\ 1 \in DOMAIN A /\ A[1].st = "pending"
        BY <1>11, <1>12, <3>1, <3>4
      <4>2. 2 \in DOMAIN B /\ B[2].id = A[1].id /\ B[2].st = "pending"
        <5>1. 1 + 1 \in DOMAIN B /\ B[1 + 1].id = A[1].id /\ B[1 + 1].st = "pending"
          BY <1>9, <4>1
        <5> QED BY <5>1
      <4>3. \A x \in DOMAIN reqs' : reqs'[x].latest = A[1].id => x = r
        <5>1. A[1].id # 0 BY <1>5, <1>11, <1>12, <3>4
        <5> QED BY <1>11, <3>3, <3>4, <5>1
      <4> QED BY <3>1, <4>1, <4>2, <4>3 DEF B
    <3>5. CASE ~(r = q /\ splits)
      <4>1. reqs'[r].latest = reqs[r].latest BY <1>11, <3>1, <3>5
      <4>2. /\ \E i \in DOMAIN uk[reqs[r].key].cols :
                  /\ uk[reqs[r].key].cols[i].id = reqs[r].latest
                  /\ uk[reqs[r].key].cols[i].st \in {"pending", "submitting"}
            /\ \A x \in DOMAIN reqs : reqs[x].latest = reqs[r].latest => x = r
        BY <1>1, <2>1, <3>1, <4>1 DEF ClosedInv
      <4>3. \A x \in DOMAIN reqs' : reqs'[x].latest = reqs'[r].latest => x = r
        <5> TAKE x \in DOMAIN reqs'
        <5>1. CASE x \notin DOMAIN reqs BY <1>11, <2>1, <5>1
        <5>2. CASE x \in DOMAIN reqs /\ x = q /\ splits BY <1>11, <3>1, <3>3, <4>1, <5>2
        <5>3. CASE x \in DOMAIN reqs /\ ~(x = q /\ splits) BY <1>11, <4>1, <4>2, <5>3
        <5> QED BY <5>1, <5>2, <5>3
      <4>4. \E i \in DOMAIN uk'[reqs[r].key].cols :
                  /\ uk'[reqs[r].key].cols[i].id = reqs[r].latest
                  /\ uk'[reqs[r].key].cols[i].st \in {"pending", "submitting"}
        <5>1. CASE reqs[r].key # k
          <6>1. uk'[reqs[r].key] = uk[reqs[r].key] BY <1>9, <3>2, <5>1
          <6> QED BY <4>2, <6>1
        <5>2. CASE reqs[r].key = k
          <6>1. PICK i \in DOMAIN A : A[i].id = reqs[r].latest /\ A[i].st \in {"pending", "submitting"}
            BY <4>2, <5>2 DEF A
          <6>2. i + 1 \in DOMAIN B /\ B[i + 1].id = A[i].id /\ B[i + 1].st = A[i].st BY <1>9, <6>1
          <6> QED BY <5>2, <6>1, <6>2 DEF B
        <5> QED BY <5>1, <5>2
      <4> QED BY <3>1, <4>1, <4>3, <4>4
    <3> QED BY <3>4, <3>5
  <2> QED BY <2>1 DEF ClosedInv
<1>25. WorkerType' /\ TableType' BY <1>1, <1>8 DEF WorkerType, TableType
<1> QED BY <1>16, <1>17, <1>18, <1>19, <1>20, <1>21, <1>22, <1>23, <1>24, <1>25 DEF ColumnInv

-----------------------------------------------------------------------------
(* Steps that change columns in place. *)

\* The columns of key k are the same writes.
SameWrites(k) ==
    /\ uk'[k].present = uk[k].present /\ uk'[k].fetched = uk[k].fetched
    /\ uk'[k].dirty = uk[k].dirty /\ DOMAIN uk'[k].cols = DOMAIN uk[k].cols
    /\ \A i \in DOMAIN uk[k].cols : uk'[k].cols[i].id = uk[k].cols[i].id
    /\ ~uk[k].present => uk'[k] = uk[k]
    /\ uk[k].cols # <<>> => uk'[k].cols # <<>>

\* Columns that are the same writes.
LEMMA WritesFrame ==
  ASSUME ColumnsInv, RowsInv, FlushesInv, UNCHANGED <<hist, fl, sktdf>>,
         \A k \in Key : SameWrites(k)
  PROVE  ColumnsInv' /\ RowsInv' /\ FlushesInv'
<1>1. ColumnsInv'
  <2>1. ASSUME NEW k \in Key
        PROVE  /\ ~uk'[k].present => uk'[k] = NoUserKey
               /\ uk'[k].present => uk'[k].cols # <<>>
               /\ \A i \in DOMAIN uk'[k].cols :
                     uk'[k].cols[i].id \in DOMAIN hist /\ hist[uk'[k].cols[i].id].key = k
               /\ \A i, j \in DOMAIN uk'[k].cols : i < j => uk'[k].cols[j].id < uk'[k].cols[i].id
    <3>1. SameWrites(k) OBVIOUS
    <3>2. /\ ~uk[k].present => uk[k] = NoUserKey
          /\ uk[k].present => uk[k].cols # <<>>
          /\ \A i \in DOMAIN uk[k].cols :
                uk[k].cols[i].id \in DOMAIN hist /\ hist[uk[k].cols[i].id].key = k
          /\ \A i, j \in DOMAIN uk[k].cols : i < j => uk[k].cols[j].id < uk[k].cols[i].id
      BY DEF ColumnsInv
    <3> QED BY <3>1, <3>2 DEF SameWrites
  <2> QED BY <2>1 DEF ColumnsInv
<1>2. RowsInv'
  <2>1. \A k \in Key : /\ uk'[k].fetched = uk[k].fetched /\ DOMAIN uk'[k].cols = DOMAIN uk[k].cols
                       /\ \A i \in DOMAIN uk[k].cols : uk'[k].cols[i].id = uk[k].cols[i].id
    BY DEF SameWrites
  <2> QED BY <2>1 DEF RowsInv
<1>3. FlushesInv'
  <2>1. \A k \in Key : uk'[k].present = uk[k].present /\ uk'[k].dirty = uk[k].dirty
    BY DEF SameWrites
  <2> QED BY <2>1 DEF FlushesInv
<1> QED BY <1>1, <1>2, <1>3

\* The column of a closed request.
LEMMA AtFacts ==
  ASSUME UserType, ColumnsInv, ClosedInv, NEW r \in DOMAIN reqs, reqs[r].latest # 0
  PROVE  LET k == reqs[r].key h == At(k, reqs[r].latest) IN
         /\ k \in Key /\ uk[k] \in UserKey /\ uk[k].cols \in Seq(ColumnNode)
         /\ h \in DOMAIN uk[k].cols /\ uk[k].cols[h].id = reqs[r].latest
         /\ uk[k].cols[h].st \in {"pending", "submitting"}
         /\ \A i \in DOMAIN uk[k].cols : uk[k].cols[i].id = reqs[r].latest => i = h
<1> DEFINE k == reqs[r].key
           h == At(k, reqs[r].latest)
<1>1. k \in Key BY DEF UserType, AreRequests, IsRequest
<1>2. uk[k] \in UserKey /\ uk[k].cols \in Seq(ColumnNode) BY <1>1 DEF UserType, UserKey
<1>3. PICK i \in DOMAIN uk[k].cols :
         uk[k].cols[i].id = reqs[r].latest /\ uk[k].cols[i].st \in {"pending", "submitting"}
  BY DEF ClosedInv
<1>4. h \in DOMAIN uk[k].cols /\ uk[k].cols[h].id = reqs[r].latest BY <1>3 DEF At
<1>5. \A j, m \in DOMAIN uk[k].cols : uk[k].cols[j].id = uk[k].cols[m].id => j = m
  <2>0. \A j \in DOMAIN uk[k].cols : j \in Nat /\ uk[k].cols[j] \in ColumnNode
    <3> HIDE DEF k
    <3> QED BY <1>2
  <2>1. \A j \in DOMAIN uk[k].cols : j \in Nat /\ uk[k].cols[j].id \in Nat
    BY <2>0 DEF ColumnNode
  <2>2. \A j, m \in DOMAIN uk[k].cols : j < m => uk[k].cols[m].id < uk[k].cols[j].id
    BY <1>1 DEF ColumnsInv
  <2> QED BY <2>1, <2>2
<1> HIDE DEF h, k
<1>6. i = h BY <1>3, <1>4, <1>5
<1> QED BY <1>1, <1>2, <1>3, <1>4, <1>5, <1>6 DEF h, k

\* A column is updated and its request freed.
LEMMA UpdateColumns ==
  ASSUME ColumnInv, NEW w \in Worker, Update(w)
  PROVE  ColumnInv'
<1> DEFINE r == wk[w].list[wk[w].pos]
           k == reqs[r].key
           cols == uk[k].cols
           h == At(k, reqs[r].latest)
           c == [cols[h] EXCEPT !.st = "stored", !.ikey = wk[w].ikey, !.kbm = "log"]
           last == wk[w].pos = Len(wk[w].list)
           x == IF last THEN IdleWorker ELSE [wk[w] EXCEPT !.pc = "submit", !.pos = @ + 1]
<1>1. /\ UserType /\ WorkerType /\ TableType /\ ColumnsInv /\ RowsInv /\ FlushesInv
      /\ Places /\ WorkerPlaces /\ OpenInv /\ ClosedInv /\ CleanKey
  BY DEF ColumnInv
<1>2. /\ wk[w].pc \in {"submit", "update"}
      /\ uk' = [uk EXCEPT ![k].cols[h] = c]
      /\ reqs' = Remove(reqs, r) /\ wk' = [wk EXCEPT ![w] = x]
      /\ UNCHANGED <<seq, pending, wr, hist, fl, sktdf, ikeys>>
  BY DEF Update, blockVars
<1>3. /\ IsWorker(wk[w]) /\ wk[w].list \in Seq(Nat) /\ wk[w].pos \in Nat
      /\ wk[w].pos \in 1..Len(wk[w].list) /\ Todo(w) = wk[w].pos..Len(wk[w].list)
      /\ wk[w].pos \in Todo(w)
  <2>1. IsWorker(wk[w]) BY <1>1 DEF WorkerType
  <2>2. wk[w].list \in Seq(Nat) /\ wk[w].pos \in Nat BY <2>1 DEF IsWorker
  <2>3. wk[w].pos \in 1..Len(wk[w].list) BY <1>1, <1>2 DEF WorkerPlaces
  <2>4. Todo(w) = wk[w].pos..Len(wk[w].list) BY <1>2 DEF Todo, From
  <2> QED BY <2>1, <2>2, <2>3, <2>4
<1>4. /\ r \in DOMAIN reqs /\ reqs[r].latest # 0
      /\ \A j \in DOMAIN pending : pending[j] # r
      /\ \A p \in Writer : wr[p].rq # r
  BY <1>1, <1>3 DEF WorkerPlaces
<1> HIDE DEF r
<1>5. /\ k \in Key /\ uk[k] \in UserKey /\ cols \in Seq(ColumnNode) /\ h \in DOMAIN cols
      /\ cols[h].id = reqs[r].latest
      /\ \A i \in DOMAIN cols : cols[i].id = reqs[r].latest => i = h
  BY <1>1, <1>4, AtFacts
<1>6. uk[k].present /\ uk[k].dirty BY <1>1, <1>4, RequestedDirty
<1>7. c \in ColumnNode /\ c.id = cols[h].id
  <2>1. cols[h] \in ColumnNode BY <1>5
  <2>2. wk[w].ikey \in Nat BY <1>3 DEF IsWorker
  <2> HIDE DEF cols, h
  <2> QED BY <2>1, <2>2 DEF ColumnNode
<1> HIDE DEF c, h, k
<1> DEFINE B == [cols EXCEPT ![h] = c]
           u == [uk[k] EXCEPT !.cols = B]
<1>8. uk' = [uk EXCEPT ![k] = u]
  <2>1. uk \in [Key -> UserKey] BY <1>1 DEF UserType
  <2> QED BY <1>2, <1>5, <2>1
<1>9. /\ B \in Seq(ColumnNode) /\ DOMAIN B = DOMAIN cols /\ B # <<>> /\ cols # <<>>
      /\ B[h] = c /\ \A i \in DOMAIN cols : i # h => B[i] = cols[i]
  <2> HIDE DEF cols
  <2> QED BY <1>5, <1>7
<1> HIDE DEF B
<1>10. /\ u \in UserKey /\ u.cols = B /\ u.present = uk[k].present /\ u.fetched = uk[k].fetched
       /\ u.dirty = uk[k].dirty /\ u.req = uk[k].req
  BY <1>5, <1>9 DEF UserKey
<1> HIDE DEF u
<1>11. uk' \in [Key -> UserKey] /\ uk'[k] = u /\ \A j \in Key : j # k => uk'[j] = uk[j]
  <2>1. uk \in [Key -> UserKey] BY <1>1 DEF UserType
  <2> QED BY <1>5, <1>8, <1>10, <2>1
<1>12. /\ DOMAIN reqs' = DOMAIN reqs \ {r} /\ \A y \in DOMAIN reqs' : reqs'[y] = reqs[y]
       /\ AreRequests(reqs')
  BY <1>1, <1>2 DEF Remove, UserType, AreRequests
<1>13. UserType'
  <2>1. DOMAIN reqs' \subseteq 1..seq BY <1>1, <1>12 DEF UserType
  <2> QED BY <1>1, <1>2, <1>11, <1>12, <2>1 DEF UserType
<1>14. wk'[w] = x /\ (\A v \in Worker : v # w => wk'[v] = wk[v]) /\ wk' = [v \in Worker |-> wk'[v]]
  BY <1>1, <1>2 DEF WorkerType
<1>15. /\ IsWorker(x)
       /\ last => x = IdleWorker
       /\ ~last => x.pc = "submit" /\ x.list = wk[w].list /\ x.pos = wk[w].pos + 1
  <2>1. CASE last
    <3>1. x = IdleWorker BY <2>1
    <3>2. IsWorker(IdleWorker) BY DEF IsWorker, IdleWorker
    <3> QED BY <2>1, <3>1, <3>2
  <2>2. CASE ~last
    <3> DEFINE y == [wk[w] EXCEPT !.pc = "submit"]
               z == [y EXCEPT !.pos = wk[w].pos + 1]
    <3>1. IsWorker(y) /\ y.pc = "submit" /\ y.list = wk[w].list BY <1>3 DEF IsWorker
    <3>2. x = z BY <2>2
    <3> HIDE DEF y
    <3>3. IsWorker(z) /\ z.pc = "submit" /\ z.list = wk[w].list /\ z.pos = wk[w].pos + 1
      BY <1>3, <3>1 DEF IsWorker
    <3> QED BY <2>2, <3>2, <3>3
  <2> QED BY <2>1, <2>2
<1> HIDE DEF x
<1>16. WorkerType' BY <1>1, <1>2, <1>14, <1>15 DEF WorkerType
<1>17. \A j \in Key : SameWrites(j)
  <2> TAKE j \in Key
  <2>1. CASE j = k
    <3>1. \A i \in DOMAIN cols : B[i].id = cols[i].id BY <1>7, <1>9
    <3> QED BY <1>6, <1>9, <1>10, <1>11, <2>1, <3>1 DEF SameWrites
  <2>2. CASE j # k BY <1>11, <2>2 DEF SameWrites
  <2> QED BY <2>1, <2>2
<1>18. ColumnsInv' /\ RowsInv' /\ FlushesInv' BY <1>1, <1>2, <1>17, WritesFrame
<1>19. TableType' BY <1>1, <1>2 DEF TableType
<1>20. CleanKey'
  <2>1. ASSUME NEW j \in Key PROVE IsClean(j)'
    <3>1. IsClean(j) BY <1>1, CleanIs
    <3>2. CASE j = k
      <4>1. uk'[j].dirty BY <1>6, <1>10, <1>11, <3>2
      <4> QED BY <4>1 DEF IsClean
    <3>3. CASE j # k BY <1>2, <1>11, <3>1, <3>3, CleanStays
    <3> QED BY <3>2, <3>3
  <2> QED BY <2>1, CleanIs
<1>21. Places'
  <2>1. \A i \in DOMAIN pending : pending[i] \in DOMAIN reqs' BY <1>1, <1>4, <1>12 DEF Places
  <2>2. \A p \in Writer : wr[p].pc # "store" => wr[p].rq \in DOMAIN reqs'
    BY <1>1, <1>4, <1>12 DEF Places
  <2>3. pending' = pending /\ wr' = wr BY <1>2
  <2> QED BY <1>1, <2>1, <2>2, <2>3 DEF Places
<1>22. WorkerPlaces'
  <2>1. ASSUME NEW v \in Worker
        PROVE  /\ wk'[v].pc = "idle" => wk'[v] = IdleWorker
               /\ wk'[v].pc = "put" => wk'[v].pos = 1
               /\ wk'[v].pc # "idle" => wk'[v].pos \in 1..Len(wk'[v].list)
               /\ \A i \in Todo(v)' : /\ i \in Todo(v) /\ wk'[v].list[i] = wk[v].list[i]
                                      /\ ~(v = w /\ i = wk[w].pos)
    <3>1. CASE v # w
      <4>1. wk'[v] = wk[v] BY <1>14, <3>1
      <4>2. Todo(v)' = Todo(v) BY <4>1 DEF Todo, From
      <4> QED BY <1>1, <3>1, <4>1, <4>2 DEF WorkerPlaces
    <3>2. CASE v = w /\ last
      <4>1. wk'[v] = IdleWorker BY <1>14, <1>15, <3>2
      <4>2. IdleWorker.pc = "idle" /\ IdleWorker.list = <<>> BY DEF IdleWorker
      <4>3. Todo(v)' = 1..0 BY <4>1, <4>2 DEF Todo, From
      <4>4. \A i \in 1..0 : FALSE OBVIOUS
      <4> QED BY <4>1, <4>2, <4>3, <4>4
    <3>3. CASE v = w /\ ~last
      <4>1. wk'[v].pc = "submit" /\ wk'[v].list = wk[w].list /\ wk'[v].pos = wk[w].pos + 1
        BY <1>14, <1>15, <3>3
      <4>2. Todo(v)' = (wk[w].pos + 1)..Len(wk[w].list) BY <4>1 DEF Todo, From
      <4>3. wk[w].pos < Len(wk[w].list) /\ Len(wk[w].list) \in Nat BY <1>3, <3>3
      <4>4. \A i \in (wk[w].pos + 1)..Len(wk[w].list) : i \in wk[w].pos..Len(wk[w].list) /\ i # wk[w].pos
        BY <1>3
      <4>5. wk[w].pos + 1 \in 1..Len(wk[w].list) BY <1>3, <4>3
      <4> QED BY <1>3, <3>3, <4>1, <4>2, <4>4, <4>5
    <3> QED BY <3>1, <3>2, <3>3
  <2>2. \A u2, v \in Worker : \A i \in Todo(u2), j \in Todo(v) :
          wk[u2].list[i] = wk[v].list[j] => u2 = v /\ i = j
    BY <1>1 DEF WorkerPlaces
  <2>3. ASSUME NEW v \in Worker, NEW i \in Todo(v)'
        PROVE  LET y == wk'[v].list[i] IN
               /\ y \in DOMAIN reqs' /\ reqs'[y].latest # 0
               /\ \A j \in DOMAIN pending' : pending'[j] # y
               /\ \A p \in Writer : wr'[p].rq # y
    <3> DEFINE y == wk[v].list[i]
    <3>1. i \in Todo(v) /\ wk'[v].list[i] = y /\ ~(v = w /\ i = wk[w].pos) BY <2>1, <2>3
    <3>2. /\ y \in DOMAIN reqs /\ reqs[y].latest # 0
          /\ \A j \in DOMAIN pending : pending[j] # y
      BY <1>1, <3>1 DEF WorkerPlaces
    <3>3. \A p \in Writer : wr[p].rq # y BY <1>1, <3>1 DEF WorkerPlaces
    <3>4. y # r BY <1>3, <2>2, <3>1 DEF r
    <3> HIDE DEF y
    <3>5. y \in DOMAIN reqs' /\ reqs'[y].latest # 0 BY <1>12, <3>2, <3>4
    <3> QED BY <1>2, <3>1, <3>2, <3>3, <3>5
  <2>4. \A u2, v \in Worker : \A i \in Todo(u2)', j \in Todo(v)' :
          wk'[u2].list[i] = wk'[v].list[j] => u2 = v /\ i = j
    BY <2>1, <2>2
  <2> QED BY <2>1, <2>3, <2>4 DEF WorkerPlaces
<1>23. OpenInv'
  <2>1. \A j \in Key : uk'[j].req = uk[j].req BY <1>10, <1>11
  <2>2. \A j \in Key : uk[j].req # 0 =>
          uk[j].req \in DOMAIN reqs /\ reqs[uk[j].req].key = j /\ reqs[uk[j].req].latest = 0
    BY <1>1 DEF OpenInv
  <2>3. \A j \in Key : uk'[j].req # 0 =>
          uk'[j].req \in DOMAIN reqs' /\ reqs'[uk'[j].req].key = j /\ reqs'[uk'[j].req].latest = 0
    BY <1>4, <1>12, <2>1, <2>2
  <2>4. ASSUME NEW y \in DOMAIN reqs', reqs'[y].latest = 0
        PROVE  LET j == reqs'[y].key IN
               /\ uk'[j].req = y /\ uk'[j].cols # <<>> /\ uk'[j].cols[1].st = "pending"
               /\ \A z \in DOMAIN reqs' : reqs'[z].latest # uk'[j].cols[1].id
    <3> DEFINE j == reqs[y].key
    <3>1. y \in DOMAIN reqs /\ reqs'[y] = reqs[y] /\ reqs[y].latest = 0 BY <1>12, <2>4
    <3>2. /\ uk[j].req = y /\ uk[j].cols # <<>> /\ uk[j].cols[1].st = "pending"
          /\ \A z \in DOMAIN reqs : reqs[z].latest # uk[j].cols[1].id
      BY <1>1, <3>1 DEF OpenInv, NoColumns, Newest
    <3>3. j \in Key BY <1>1, <3>1 DEF UserType, AreRequests, IsRequest
    <3> HIDE DEF j
    <3>4. uk'[j].req = y /\ uk'[j].cols # <<>> /\ uk'[j].cols[1] = uk[j].cols[1]
      <4>1. CASE j = k
        <5>1. 1 \in DOMAIN cols
          <6>1. cols # <<>> BY <1>9
          <6> HIDE DEF cols
          <6> QED BY <1>5, <6>1
        <5>2. h # 1 BY <1>4, <1>5, <3>2, <4>1
        <5>3. B[1] = cols[1] BY <1>9, <5>1, <5>2
        <5> QED BY <1>9, <1>10, <1>11, <3>2, <4>1, <5>3
      <4>2. CASE j # k BY <1>11, <3>2, <3>3, <4>2
      <4> QED BY <4>1, <4>2
    <3>5. \A z \in DOMAIN reqs' : reqs'[z].latest # uk[j].cols[1].id BY <1>12, <3>2
    <3> QED BY <3>1, <3>2, <3>4, <3>5 DEF j
  <2> QED BY <2>3, <2>4 DEF OpenInv, NoColumns, Newest
<1>24. ClosedInv'
  <2>1. ASSUME NEW y \in DOMAIN reqs', reqs'[y].latest # 0
        PROVE  /\ \E i \in DOMAIN uk'[reqs'[y].key].cols :
                     /\ uk'[reqs'[y].key].cols[i].id = reqs'[y].latest
                     /\ uk'[reqs'[y].key].cols[i].st \in {"pending", "submitting"}
               /\ \A z \in DOMAIN reqs' : reqs'[z].latest = reqs'[y].latest => z = y
    <3> DEFINE j == reqs[y].key
    <3>1. y \in DOMAIN reqs /\ reqs'[y] = reqs[y] /\ y # r BY <1>12, <2>1
    <3>2. /\ \E i \in DOMAIN uk[j].cols :
                /\ uk[j].cols[i].id = reqs[y].latest
                /\ uk[j].cols[i].st \in {"pending", "submitting"}
          /\ \A z \in DOMAIN reqs : reqs[z].latest = reqs[y].latest => z = y
      BY <1>1, <2>1, <3>1 DEF ClosedInv
    <3>3. j \in Key BY <1>1, <3>1 DEF UserType, AreRequests, IsRequest
    <3> HIDE DEF j
    <3>4. PICK i \in DOMAIN uk[j].cols :
             uk[j].cols[i].id = reqs[y].latest /\ uk[j].cols[i].st \in {"pending", "submitting"}
      BY <3>2
    <3>5. i \in DOMAIN uk'[j].cols /\ uk'[j].cols[i] = uk[j].cols[i]
      <4>1. CASE j = k
        <5>1. i # h BY <1>4, <1>5, <3>1, <3>2, <3>4, <4>1
        <5> QED BY <1>9, <1>10, <1>11, <3>4, <4>1, <5>1
      <4>2. CASE j # k BY <1>11, <3>3, <3>4, <4>2
      <4> QED BY <4>1, <4>2
    <3>6. \A z \in DOMAIN reqs' : reqs'[z].latest = reqs[y].latest => z = y BY <1>12, <3>2
    <3> QED BY <3>1, <3>4, <3>5, <3>6 DEF j
  <2> QED BY <2>1 DEF ClosedInv
<1> QED BY <1>13, <1>16, <1>18, <1>19, <1>20, <1>21, <1>22, <1>23, <1>24 DEF ColumnInv

\* The column a request submits.
LEMMA HeaderFacts ==
  ASSUME UserType, ColumnsInv, OpenInv, ClosedInv, NEW r \in DOMAIN reqs
  PROVE  /\ reqs[r].key \in Key /\ Header(r) \in DOMAIN hist /\ hist[Header(r)].key = reqs[r].key
         /\ Header(r) \in Nat \ {0}
         /\ \E i \in DOMAIN uk[reqs[r].key].cols :
               /\ uk[reqs[r].key].cols[i].id = Header(r)
               /\ uk[reqs[r].key].cols[i].st \in {"pending", "submitting"}
<1> DEFINE k == reqs[r].key
<1>1. k \in Key BY DEF UserType, AreRequests, IsRequest
<1>2. \E i \in DOMAIN uk[k].cols :
          uk[k].cols[i].id = Header(r) /\ uk[k].cols[i].st \in {"pending", "submitting"}
  <2>1. CASE reqs[r].latest = 0
    <3>1. Header(r) = uk[k].cols[1].id BY <2>1 DEF Header, Newest
    <3>2. uk[k].cols # <<>> /\ uk[k].cols[1].st = "pending"
      BY <2>1 DEF OpenInv, NoColumns, Newest
    <3>3. 1 \in DOMAIN uk[k].cols BY <1>1, <3>2, NewestWrite
    <3> QED BY <3>1, <3>2, <3>3
  <2>2. CASE reqs[r].latest # 0
    <3>1. Header(r) = reqs[r].latest BY <2>2 DEF Header
    <3> QED BY <2>2, <3>1 DEF ClosedInv
  <2> QED BY <2>1, <2>2
<1> HIDE DEF k
<1>3. Header(r) \in DOMAIN hist /\ hist[Header(r)].key = k BY <1>1, <1>2 DEF ColumnsInv
<1>4. Header(r) \in Nat \ {0} BY <1>3 DEF UserType
<1> QED BY <1>1, <1>2, <1>3, <1>4 DEF k

\* No two requests submit the same column.
LEMMA HeaderUnique ==
  ASSUME UserType, ColumnsInv, OpenInv, ClosedInv, NEW r \in DOMAIN reqs, NEW x \in DOMAIN reqs,
         Header(r) = Header(x)
  PROVE  r = x
<1>1. reqs[r].key = reqs[x].key BY HeaderFacts
<1>2. ASSUME NEW y \in DOMAIN reqs, NEW z \in DOMAIN reqs, Header(y) = Header(z),
             reqs[y].latest = 0, reqs[z].latest # 0
      PROVE  FALSE
  <2>1. Header(y) = Newest(reqs[y].key).id /\ Header(z) = reqs[z].latest BY <1>2 DEF Header
  <2>2. reqs[z].latest # Newest(reqs[y].key).id BY <1>2 DEF OpenInv
  <2> QED BY <1>2, <2>1, <2>2
<1>3. CASE reqs[r].latest = 0 /\ reqs[x].latest = 0
  <2>1. uk[reqs[r].key].req = r /\ uk[reqs[x].key].req = x BY <1>3 DEF OpenInv
  <2> QED BY <1>1, <2>1
<1>4. CASE reqs[r].latest # 0 /\ reqs[x].latest # 0
  <2>1. Header(r) = reqs[r].latest /\ Header(x) = reqs[x].latest BY <1>4 DEF Header
  <2> QED BY <1>4, <2>1 DEF ClosedInv
<1> QED BY <1>2, <1>3, <1>4

\* Some requests are taken.
LEMMA TakenFacts ==
  ASSUME pending \in Seq(Nat), pending # <<>>
  PROVE  Taken \in 1..Len(pending)
<1> DEFINE S == {n \in 1..Len(pending) : Full(n) \/ n = Len(pending)}
<1>1. Len(pending) \in S OBVIOUS
<1>2. S \subseteq Nat OBVIOUS
<1>3. S \subseteq 1..Len(pending) OBVIOUS
<1>4. Taken = MinOf(S) BY DEF Taken
<1> HIDE DEF S
<1>5. \E n \in S : \A m \in S : n <= m BY <1>1, <1>2, Smallest
<1>6. MinOf(S) \in S BY <1>5 DEF MinOf
<1> QED BY <1>3, <1>4, <1>6

\* The two parts of a sequence.
LEMMA SplitFacts ==
  ASSUME NEW s \in Seq(Nat), NEW n \in 1..Len(s)
  PROVE  /\ SubSeq(s, 1, n) \in Seq(Nat) /\ Len(SubSeq(s, 1, n)) = n
         /\ \A i \in 1..n : SubSeq(s, 1, n)[i] = s[i]
         /\ SubSeq(s, n + 1, Len(s)) \in Seq(Nat) /\ Len(SubSeq(s, n + 1, Len(s))) = Len(s) - n
         /\ \A i \in 1..(Len(s) - n) : SubSeq(s, n + 1, Len(s))[i] = s[(n + 1) + i - 1]
<1>1. Len(s) \in Nat /\ n \in Nat /\ n <= Len(s) /\ 1 <= n OBVIOUS
<1>2. /\ SubSeq(s, 1, n) \in Seq(Nat) /\ Len(SubSeq(s, 1, n)) = n
      /\ \A i \in 1..n : SubSeq(s, 1, n)[i] = s[i]
  BY <1>1
<1>3. SubSeq(s, n + 1, Len(s)) \in Seq(Nat) /\ Len(SubSeq(s, n + 1, Len(s))) = Len(s) - n
  <2>1. CASE n = Len(s) BY <1>1, <2>1
  <2>2. CASE n # Len(s) BY <1>1, <2>2
  <2> QED BY <2>1, <2>2
<1>4. \A i \in 1..(Len(s) - n) : SubSeq(s, n + 1, Len(s))[i] = s[(n + 1) + i - 1]
  BY <1>1
<1> QED BY <1>2, <1>3, <1>4

\* Requests are taken off the queue.
LEMMA PopColumns ==
  ASSUME ColumnInv, NEW w \in Worker, Pop(w)
  PROVE  ColumnInv'
<1> DEFINE n == Taken
           mine == {pending[i] : i \in 1..n}
           heads == {Header(r) : r \in mine}
<1>1. /\ UserType /\ WorkerType /\ TableType /\ ColumnsInv /\ RowsInv /\ FlushesInv
      /\ Places /\ WorkerPlaces /\ OpenInv /\ ClosedInv /\ CleanKey
  BY DEF ColumnInv
<1>2. /\ wk[w].pc = "idle" /\ pending # <<>>
      /\ pending' = SubSeq(pending, n + 1, Len(pending))
      /\ reqs' = [r \in DOMAIN reqs |->
                     IF r \in mine THEN [reqs[r] EXCEPT !.latest = Header(r)] ELSE reqs[r]]
      /\ uk' = [k \in Key |->
                   [uk[k] EXCEPT !.req = IF @ \in mine THEN 0 ELSE @, !.cols = Submitting(@, heads)]]
      /\ wk' = [wk EXCEPT ![w].pc = "merge", ![w].list = SubSeq(pending, 1, n)]
      /\ wr' = Woken \/ wr' = wr
      /\ UNCHANGED <<seq, hist, fl, sktdf, ikeys>>
  BY DEF Pop, Idle, WakeIf, blockVars, n, mine, heads
<1>3. /\ pending \in Seq(Nat) /\ Len(pending) \in Nat /\ DOMAIN pending = 1..Len(pending)
      /\ n \in 1..Len(pending)
  <2>1. pending \in Seq(Nat) /\ pending # <<>> BY <1>1, <1>2 DEF UserType
  <2> HIDE DEF n
  <2>2. n \in 1..Len(pending) BY <2>1, TakenFacts DEF n
  <2> QED BY <2>1, <2>2
<1> HIDE DEF n
<1>4. /\ mine \subseteq DOMAIN reqs
      /\ \A i \in DOMAIN pending : pending[i] \in mine => i <= n
  <2>1. \A i \in 1..n : i \in DOMAIN pending BY <1>3
  <2>2. \A i, j \in DOMAIN pending : pending[i] = pending[j] => i = j BY <1>1 DEF Places
  <2>3. \A i \in DOMAIN pending : pending[i] \in DOMAIN reqs BY <1>1 DEF Places
  <2>4. mine \subseteq DOMAIN reqs BY <2>1, <2>3
  <2>5. ASSUME NEW i \in DOMAIN pending, pending[i] \in mine PROVE i <= n
    <3>1. PICK j \in 1..n : pending[i] = pending[j] BY <2>5
    <3>2. i = j BY <2>1, <2>2, <3>1
    <3> QED BY <1>3, <3>1, <3>2
  <2> QED BY <2>4, <2>5
<1>5. \A i \in 1..n : pending[i] \in mine OBVIOUS
<1>6. /\ \A id \in heads : \E r \in mine : id = Header(r)
      /\ \A r \in mine : Header(r) \in heads
  OBVIOUS
<1> HIDE DEF mine, heads
<1>7. ASSUME NEW k \in Key
      PROVE  /\ uk'[k] \in UserKey /\ DOMAIN uk'[k].cols = DOMAIN uk[k].cols
             /\ uk'[k].cols \in Seq(ColumnNode) /\ Len(uk'[k].cols) = Len(uk[k].cols)
             /\ uk'[k].req = IF uk[k].req \in mine THEN 0 ELSE uk[k].req
             /\ uk'[k].present = uk[k].present /\ uk'[k].fetched = uk[k].fetched
             /\ uk'[k].dirty = uk[k].dirty
             /\ \A i \in DOMAIN uk[k].cols :
                   /\ uk'[k].cols[i].id = uk[k].cols[i].id
                   /\ uk[k].cols[i].id \in heads => uk'[k].cols[i].st = "submitting"
                   /\ uk[k].cols[i].id \notin heads => uk'[k].cols[i] = uk[k].cols[i]
  <2> DEFINE cols == uk[k].cols
             B == Submitting(cols, heads)
             rq == IF uk[k].req \in mine THEN 0 ELSE uk[k].req
             u == [uk[k] EXCEPT !.req = rq]
  <2>1. uk[k] \in UserKey /\ cols \in Seq(ColumnNode) /\ uk[k].req \in Nat
    BY <1>1 DEF UserType, UserKey
  <2>2. ASSUME NEW i \in DOMAIN cols
        PROVE  /\ B[i] \in ColumnNode /\ B[i].id = cols[i].id
               /\ cols[i].id \in heads => B[i].st = "submitting"
               /\ cols[i].id \notin heads => B[i] = cols[i]
    <3>1. cols[i] \in ColumnNode BY <2>1
    <3> DEFINE d == [cols[i] EXCEPT !.st = "submitting", !.split = FALSE]
    <3>2. d \in ColumnNode /\ d.id = cols[i].id /\ d.st = "submitting"
      <4> HIDE DEF cols
      <4> QED BY <3>1 DEF ColumnNode
    <3>3. B[i] = IF cols[i].id \in heads THEN d ELSE cols[i] BY DEF Submitting
    <3> HIDE DEF d, B, cols
    <3> QED BY <3>1, <3>2, <3>3
  <2>3. B \in Seq(ColumnNode) /\ DOMAIN B = DOMAIN cols /\ Len(B) = Len(cols)
    <3>1. DOMAIN cols = 1..Len(cols) /\ Len(cols) \in Nat
      <4> HIDE DEF cols
      <4> QED BY <2>1
    <3>2. B = [i \in 1..Len(cols) |-> B[i]] BY <3>1 DEF Submitting
    <3> HIDE DEF B, cols
    <3> QED BY <2>2, <3>1, <3>2
  <2>4. uk'[k] = [u EXCEPT !.cols = B]
    <3>1. uk'[k] = [uk[k] EXCEPT !.req = rq, !.cols = B] BY <1>2
    <3> QED BY <3>1
  <2> HIDE DEF B, rq
  <2>5. /\ u \in UserKey /\ u.req = rq /\ u.present = uk[k].present /\ u.fetched = uk[k].fetched
        /\ u.dirty = uk[k].dirty
    <3>1. rq \in Nat BY <2>1 DEF rq
    <3> QED BY <2>1, <3>1 DEF UserKey
  <2> HIDE DEF u
  <2>6. /\ uk'[k] \in UserKey /\ uk'[k].cols = B /\ uk'[k].req = rq
        /\ uk'[k].present = uk[k].present /\ uk'[k].fetched = uk[k].fetched
        /\ uk'[k].dirty = uk[k].dirty
    BY <2>3, <2>4, <2>5 DEF UserKey
  <2> QED BY <2>2, <2>3, <2>6 DEF rq
<1>8. /\ DOMAIN reqs' = DOMAIN reqs /\ AreRequests(reqs')
      /\ \A r \in DOMAIN reqs :
            /\ reqs'[r].key = reqs[r].key
            /\ reqs'[r].latest = IF r \in mine THEN Header(r) ELSE reqs[r].latest
  <2>1. AreRequests(reqs) BY <1>1 DEF UserType
  <2>2. ASSUME NEW r \in DOMAIN reqs
        PROVE  /\ IsRequest(reqs'[r]) /\ reqs'[r].key = reqs[r].key
               /\ reqs'[r].latest = IF r \in mine THEN Header(r) ELSE reqs[r].latest
    <3>1. Header(r) \in Nat BY <1>1, HeaderFacts
    <3>2. IsRequest(reqs[r]) BY <2>1 DEF AreRequests
    <3>3. CASE r \in mine
      <4>1. reqs'[r] = [reqs[r] EXCEPT !.latest = Header(r)] BY <1>2, <3>3
      <4> QED BY <3>1, <3>2, <3>3, <4>1 DEF IsRequest
    <3>4. CASE r \notin mine BY <1>2, <3>2, <3>4
    <3> QED BY <3>3, <3>4
  <2>3. DOMAIN reqs' = DOMAIN reqs /\ reqs' = [r \in DOMAIN reqs' |-> reqs'[r]] BY <1>2
  <2> QED BY <2>2, <2>3 DEF AreRequests
<1>9. /\ \A r \in DOMAIN reqs : Header(r) # 0 /\ (reqs[r].latest # 0 => Header(r) = reqs[r].latest)
      /\ \A r, x \in DOMAIN reqs : Header(r) = Header(x) => r = x
  <2>1. \A r \in DOMAIN reqs : Header(r) # 0 BY <1>1, HeaderFacts
  <2>2. \A r \in DOMAIN reqs : reqs[r].latest # 0 => Header(r) = reqs[r].latest BY DEF Header
  <2> QED BY <1>1, <2>1, <2>2, HeaderUnique
<1>10. /\ pending' \in Seq(Nat) /\ DOMAIN pending' = 1..(Len(pending) - n)
       /\ \A i \in DOMAIN pending' : n + i \in DOMAIN pending /\ pending'[i] = pending[n + i]
  <2>1. n + 1 \in Nat /\ Len(pending) - n \in Nat BY <1>3
  <2>2. /\ pending' \in Seq(Nat) /\ Len(pending') = Len(pending) - n
        /\ \A i \in 1..(Len(pending) - n) : pending'[i] = pending[(n + 1) + i - 1]
    BY <1>2, <1>3, SplitFacts
  <2>3. \A i \in 1..(Len(pending) - n) : (n + 1) + i - 1 = n + i /\ n + i \in 1..Len(pending)
    BY <1>3
  <2> QED BY <1>3, <2>1, <2>2, <2>3
<1>11. /\ wr' \in [Writer -> WriterState]
       /\ \A p \in Writer : /\ wr'[p].b = wr[p].b /\ wr'[p].rq = wr[p].rq
                            /\ wr'[p].pc = "store" <=> wr[p].pc = "store"
  <2>1. wr \in [Writer -> WriterState] BY <1>1 DEF UserType
  <2>2. CASE wr' = wr BY <2>1, <2>2
  <2>3. CASE wr' = Woken
    <3>1. ASSUME NEW p \in Writer
          PROVE  /\ wr'[p] \in WriterState /\ wr'[p].b = wr[p].b /\ wr'[p].rq = wr[p].rq
                 /\ wr'[p].pc = "store" <=> wr[p].pc = "store"
      <4>1. wr[p] \in WriterState BY <2>1
      <4>2. CASE wr[p].pc = "asleep"
        <5>1. wr'[p] = [wr[p] EXCEPT !.pc = "go"] BY <2>3, <4>2 DEF Woken
        <5>2. /\ wr'[p] \in WriterState /\ wr'[p].b = wr[p].b /\ wr'[p].rq = wr[p].rq
              /\ wr'[p].pc = "go"
          BY <4>1, <5>1 DEF WriterState
        <5> QED BY <4>2, <5>2
      <4>3. CASE wr[p].pc # "asleep"
        <5>1. wr'[p] = wr[p] BY <2>3, <4>3 DEF Woken
        <5> QED BY <4>1, <5>1
      <4> QED BY <4>2, <4>3
    <3>2. wr' = [p \in Writer |-> wr'[p]] BY <2>3 DEF Woken
    <3> QED BY <3>1, <3>2
  <2> QED BY <1>2, <2>2, <2>3
<1>12. UserType'
  <2>1. uk' \in [Key -> UserKey]
    <3>1. uk' = [k \in Key |-> uk'[k]] BY <1>2
    <3> QED BY <1>7, <3>1
  <2>2. \A p \in Writer : wr'[p].b.count = wr'[p].b.sn + Len(wr'[p].b.ops)
    BY <1>1, <1>11 DEF UserType
  <2> QED BY <1>1, <1>2, <1>8, <1>10, <1>11, <2>1, <2>2 DEF UserType
<1> DEFINE y == [wk[w] EXCEPT !.pc = "merge"]
           x == [y EXCEPT !.list = SubSeq(pending, 1, n)]
<1>13. wk' = [wk EXCEPT ![w] = x]
  <2>1. wk = [v \in Worker |-> wk[v]] BY <1>1 DEF WorkerType
  <2> QED BY <1>2, <2>1
<1>14. /\ IsWorker(x) /\ x.pc = "merge" /\ x.pos = 1 /\ Len(x.list) = n
       /\ \A i \in 1..n : x.list[i] = pending[i]
  <2>1. IsWorker(wk[w]) /\ wk[w].pos = 1
    <3>1. IsWorker(wk[w]) BY <1>1 DEF WorkerType
    <3>2. wk[w] = IdleWorker BY <1>1, <1>2 DEF WorkerPlaces
    <3>3. IdleWorker.pos = 1 BY DEF IdleWorker
    <3> QED BY <3>1, <3>2, <3>3
  <2>2. IsWorker(y) /\ y.pc = "merge" /\ y.pos = 1 BY <2>1 DEF IsWorker
  <2>3. /\ SubSeq(pending, 1, n) \in Seq(Nat) /\ Len(SubSeq(pending, 1, n)) = n
        /\ \A i \in 1..n : SubSeq(pending, 1, n)[i] = pending[i]
    BY <1>3, SplitFacts
  <2> HIDE DEF y
  <2>4. IsWorker(x) /\ x.pc = "merge" /\ x.pos = 1 /\ x.list = SubSeq(pending, 1, n)
    BY <2>2, <2>3 DEF IsWorker
  <2> QED BY <2>3, <2>4
<1> HIDE DEF x
<1>15. wk'[w] = x /\ (\A v \in Worker : v # w => wk'[v] = wk[v]) /\ wk' = [v \in Worker |-> wk'[v]]
  BY <1>1, <1>13 DEF WorkerType
<1>16. WorkerType' BY <1>1, <1>2, <1>14, <1>15 DEF WorkerType
<1>17. \A k \in Key : SameWrites(k)
  <2> TAKE k \in Key
  <2>1. uk[k].cols # <<>> => uk'[k].cols # <<>>
    <3>1. uk[k].cols \in Seq(ColumnNode) BY <1>1 DEF UserType, UserKey
    <3> QED BY <1>7, <3>1
  <2>2. ~uk[k].present => uk'[k] = uk[k]
    <3>1. ASSUME ~uk[k].present PROVE uk'[k] = uk[k]
      <4>1. uk[k] = NoUserKey BY <1>1, <3>1 DEF ColumnsInv
      <4>2. DOMAIN uk[k].cols = {} /\ uk[k].cols = <<>> /\ uk[k].req = 0 BY <4>1, NoUserKeyIs
      <4>3. 0 \notin mine BY <1>1, <1>4 DEF UserType
      <4>4. Submitting(uk[k].cols, heads) = <<>> BY <4>2 DEF Submitting
      <4>5. uk'[k] = [uk[k] EXCEPT !.req = IF @ \in mine THEN 0 ELSE @, !.cols = Submitting(@, heads)]
        BY <1>2
      <4>6. uk'[k] = [[uk[k] EXCEPT !.req = uk[k].req] EXCEPT !.cols = uk[k].cols]
        BY <4>2, <4>3, <4>4, <4>5
      <4>7. uk[k] \in UserKey BY <1>1 DEF UserType
      <4> QED BY <4>6, <4>7 DEF UserKey
    <3> QED BY <3>1
  <2> QED BY <1>7, <2>1, <2>2 DEF SameWrites
<1>18. ColumnsInv' /\ RowsInv' /\ FlushesInv' BY <1>1, <1>2, <1>17, WritesFrame
<1>19. TableType' BY <1>1, <1>2 DEF TableType
<1>20. CleanKey'
  <2>1. ASSUME NEW k \in Key PROVE IsClean(k)'
    <3>1. IsClean(k) BY <1>1, CleanIs
    <3>2. ASSUME uk'[k].present /\ ~uk'[k].dirty PROVE uk'[k].cols = uk[k].cols
      <4>1. uk[k].present /\ ~uk[k].dirty BY <1>7, <3>2
      <4>2. ASSUME NEW i \in DOMAIN uk[k].cols PROVE uk[k].cols[i].id \notin heads
        <5>1. hist[uk[k].cols[i].id].key = k BY <1>1 DEF ColumnsInv
        <5>2. \A r \in DOMAIN reqs : reqs[r].key # k BY <1>1, <4>1, RequestedDirty
        <5>3. \A r \in mine : hist[Header(r)].key # k BY <1>1, <1>4, <5>2, HeaderFacts
        <5> QED BY <1>6, <5>1, <5>3
      <4>3. \A i \in DOMAIN uk[k].cols : uk'[k].cols[i] = uk[k].cols[i] BY <1>7, <4>2
      <4>4. uk[k].cols \in Seq(ColumnNode) BY <1>1 DEF UserType, UserKey
      <4>5. uk'[k].cols \in Seq(ColumnNode) /\ Len(uk'[k].cols) = Len(uk[k].cols) BY <1>7
      <4> QED BY <4>3, <4>4, <4>5
    <3> QED BY <1>2, <1>7, <3>1, <3>2, CleanStays
  <2> QED BY <2>1, CleanIs
<1>21. Places'
  <2>1. /\ \A i, j \in DOMAIN pending : pending[i] = pending[j] => i = j
        /\ \A i \in DOMAIN pending : pending[i] \in DOMAIN reqs
        /\ \A p, q \in Writer : wr[p].pc # "store" /\ wr[p].rq = wr[q].rq => p = q
    BY <1>1 DEF Places
  <2>2. \A p \in Writer :
          IF wr[p].pc = "store" THEN wr[p].rq = 0
          ELSE /\ wr[p].rq \in DOMAIN reqs /\ \A i \in DOMAIN pending : pending[i] # wr[p].rq
    BY <1>1 DEF Places
  <2>3. \A i, j \in DOMAIN pending' : pending'[i] = pending'[j] => i = j
    <3> TAKE i, j \in DOMAIN pending'
    <3> HAVE pending'[i] = pending'[j]
    <3>1. n + i = n + j BY <1>10, <2>1
    <3> QED BY <1>3, <1>10, <3>1
  <2>4. \A i \in DOMAIN pending' : pending'[i] \in DOMAIN reqs' BY <1>8, <1>10, <2>1
  <2>5. \A p \in Writer :
          IF wr'[p].pc = "store" THEN wr'[p].rq = 0
          ELSE /\ wr'[p].rq \in DOMAIN reqs' /\ \A i \in DOMAIN pending' : pending'[i] # wr'[p].rq
    BY <1>8, <1>10, <1>11, <2>2
  <2>6. \A p, q \in Writer : wr'[p].pc # "store" /\ wr'[p].rq = wr'[q].rq => p = q
    BY <1>11, <2>1
  <2> QED BY <2>3, <2>4, <2>5, <2>6 DEF Places
<1>22. WorkerPlaces'
  <2>0. /\ \A i, j \in DOMAIN pending : pending[i] = pending[j] => i = j
        /\ \A p \in Writer : \A i \in DOMAIN pending : pending[i] # wr[p].rq
    <3>1. 0 \notin DOMAIN reqs BY <1>1 DEF UserType
    <3> QED BY <1>1, <3>1 DEF Places
  <2>1. Todo(w)' = 1..n BY <1>14, <1>15 DEF Todo, From
  <2>2. \A v \in Worker : v # w => Todo(v)' = Todo(v) BY <1>15 DEF Todo, From
  <2>3. ASSUME NEW v \in Worker
        PROVE  /\ wk'[v].pc = "idle" => wk'[v] = IdleWorker
               /\ wk'[v].pc = "put" => wk'[v].pos = 1
               /\ wk'[v].pc # "idle" => wk'[v].pos \in 1..Len(wk'[v].list)
    <3>1. CASE v = w BY <1>3, <1>14, <1>15, <3>1
    <3>2. CASE v # w BY <1>1, <1>15, <3>2 DEF WorkerPlaces
    <3> QED BY <3>1, <3>2
  <2>4. ASSUME NEW v \in Worker, v # w, NEW i \in Todo(v)
        PROVE  LET z == wk[v].list[i] IN
               /\ z \in DOMAIN reqs /\ reqs[z].latest # 0 /\ z \notin mine
               /\ \A j \in DOMAIN pending : pending[j] # z
               /\ \A p \in Writer : wr[p].rq # z
    <3> DEFINE z == wk[v].list[i]
    <3>1. z \in DOMAIN reqs /\ reqs[z].latest # 0 /\ \A j \in DOMAIN pending : pending[j] # z
      BY <1>1 DEF WorkerPlaces
    <3>2. \A p \in Writer : wr[p].rq # z BY <1>1 DEF WorkerPlaces
    <3>3. z \notin mine
      <4>1. \A j \in 1..n : pending[j] # z BY <1>3, <3>1
      <4> QED BY <4>1 DEF mine
    <3> QED BY <3>1, <3>2, <3>3
  <2>5. ASSUME NEW v \in Worker, NEW i \in Todo(v)'
        PROVE  LET z == wk'[v].list[i] IN
               /\ z \in DOMAIN reqs' /\ reqs'[z].latest # 0
               /\ \A j \in DOMAIN pending' : pending'[j] # z
               /\ \A p \in Writer : wr'[p].rq # z
    <3>1. CASE v = w
      <4>1. i \in 1..n /\ i \in DOMAIN pending /\ i \in Nat BY <1>3, <2>1, <2>5, <3>1
      <4>2. wk'[v].list[i] = pending[i] BY <1>14, <1>15, <3>1, <4>1
      <4>3. pending[i] \in mine /\ pending[i] \in DOMAIN reqs BY <1>4, <1>5, <4>1
      <4>4. reqs'[pending[i]].latest # 0 BY <1>8, <1>9, <4>3
      <4>5. \A j \in DOMAIN pending' : pending'[j] # pending[i]
        <5> TAKE j \in DOMAIN pending'
        <5>1. n + j \in DOMAIN pending /\ pending'[j] = pending[n + j] BY <1>10
        <5>2. n + j # i BY <1>3, <1>10, <4>1
        <5> QED BY <2>0, <4>1, <5>1, <5>2
      <4> QED BY <1>8, <1>11, <2>0, <4>1, <4>2, <4>3, <4>4, <4>5
    <3>2. CASE v # w
      <4>1. wk'[v] = wk[v] /\ i \in Todo(v) BY <1>15, <2>2, <2>5, <3>2
      <4> DEFINE z == wk[v].list[i]
      <4>2. /\ z \in DOMAIN reqs /\ reqs[z].latest # 0 /\ z \notin mine
            /\ \A j \in DOMAIN pending : pending[j] # z
        BY <2>4, <3>2, <4>1
      <4>3. \A p \in Writer : wr[p].rq # z BY <2>4, <3>2, <4>1
      <4> HIDE DEF z
      <4>4. z \in DOMAIN reqs' /\ reqs'[z].latest # 0 BY <1>8, <4>2
      <4>5. \A j \in DOMAIN pending' : pending'[j] # z BY <1>10, <4>2
      <4>6. \A p \in Writer : wr'[p].rq # z BY <1>11, <4>3
      <4> QED BY <4>1, <4>4, <4>5, <4>6 DEF z
    <3> QED BY <3>1, <3>2
  <2>6. ASSUME NEW u \in Worker, NEW v \in Worker, NEW i \in Todo(u)', NEW j \in Todo(v)',
               wk'[u].list[i] = wk'[v].list[j]
        PROVE  u = v /\ i = j
    <3>1. \A z \in 1..n : z \in DOMAIN pending BY <1>3
    <3>2. ASSUME NEW a \in Worker, NEW b \in Worker, a = w, b # w, NEW l \in Todo(a)', NEW m \in Todo(b)'
          PROVE  wk'[a].list[l] # wk'[b].list[m]
      <4>1. l \in 1..n /\ wk'[a].list[l] = pending[l] BY <1>14, <1>15, <2>1, <3>2
      <4>2. m \in Todo(b) /\ wk'[b] = wk[b] BY <1>15, <2>2, <3>2
      <4> QED BY <2>4, <3>1, <3>2, <4>1, <4>2
    <3>3. CASE u = w /\ v = w
      <4>1. wk'[u].list[i] = pending[i] /\ wk'[v].list[j] = pending[j] /\ i \in 1..n /\ j \in 1..n
        BY <1>14, <1>15, <2>1, <2>6, <3>3
      <4> QED BY <2>0, <2>6, <3>1, <3>3, <4>1
    <3>4. CASE u # w /\ v # w
      <4>1. wk'[u] = wk[u] /\ wk'[v] = wk[v] /\ i \in Todo(u) /\ j \in Todo(v)
        BY <1>15, <2>2, <2>6, <3>4
      <4> QED BY <1>1, <2>6, <4>1 DEF WorkerPlaces
    <3> QED BY <2>6, <3>2, <3>3, <3>4
  <2> QED BY <2>3, <2>5, <2>6 DEF WorkerPlaces
<1>23. OpenInv'
  <2>1. \A k \in Key : uk[k].req # 0 =>
          uk[k].req \in DOMAIN reqs /\ reqs[uk[k].req].key = k /\ reqs[uk[k].req].latest = 0
    BY <1>1 DEF OpenInv
  <2>2. \A k \in Key : uk'[k].req # 0 =>
          uk'[k].req \in DOMAIN reqs' /\ reqs'[uk'[k].req].key = k /\ reqs'[uk'[k].req].latest = 0
    BY <1>7, <1>8, <2>1
  <2>3. ASSUME NEW r \in DOMAIN reqs', reqs'[r].latest = 0
        PROVE  LET k == reqs'[r].key IN
               /\ uk'[k].req = r /\ uk'[k].cols # <<>> /\ uk'[k].cols[1].st = "pending"
               /\ \A z \in DOMAIN reqs' : reqs'[z].latest # uk'[k].cols[1].id
    <3> DEFINE k == reqs[r].key
    <3>1. r \in DOMAIN reqs /\ reqs'[r].key = k /\ r \notin mine /\ reqs[r].latest = 0
      BY <1>8, <1>9, <2>3
    <3>2. /\ uk[k].req = r /\ uk[k].cols # <<>> /\ uk[k].cols[1].st = "pending"
          /\ \A z \in DOMAIN reqs : reqs[z].latest # uk[k].cols[1].id
      BY <1>1, <3>1 DEF OpenInv, NoColumns, Newest
    <3>3. k \in Key BY <1>1, <3>1 DEF UserType, AreRequests, IsRequest
    <3>4. Header(r) = uk[k].cols[1].id BY <3>1 DEF Header, Newest
    <3> HIDE DEF k
    <3>5. 1 \in DOMAIN uk[k].cols BY <1>1, <3>2, <3>3, NewestWrite
    <3>6. uk[k].cols[1].id \notin heads BY <1>4, <1>6, <1>9, <3>1, <3>4
    <3>7. uk'[k].req = r /\ uk'[k].cols[1] = uk[k].cols[1] BY <1>7, <3>1, <3>2, <3>3, <3>5, <3>6
    <3>8. uk'[k].cols # <<>> BY <1>17, <3>2, <3>3 DEF SameWrites
    <3>9. \A z \in DOMAIN reqs' : reqs'[z].latest # uk[k].cols[1].id
      BY <1>4, <1>6, <1>8, <3>2, <3>6
    <3> QED BY <3>1, <3>2, <3>7, <3>8, <3>9
  <2> QED BY <2>2, <2>3 DEF OpenInv, NoColumns, Newest
<1>24. ClosedInv'
  <2>1. ASSUME NEW r \in DOMAIN reqs', reqs'[r].latest # 0
        PROVE  /\ \E i \in DOMAIN uk'[reqs'[r].key].cols :
                     /\ uk'[reqs'[r].key].cols[i].id = reqs'[r].latest
                     /\ uk'[reqs'[r].key].cols[i].st \in {"pending", "submitting"}
               /\ \A z \in DOMAIN reqs' : reqs'[z].latest = reqs'[r].latest => z = r
    <3> DEFINE k == reqs[r].key
    <3>1. r \in DOMAIN reqs /\ reqs'[r].key = k /\ reqs'[r].latest = Header(r) BY <1>8, <1>9, <2>1
    <3>2. \A z \in DOMAIN reqs' : reqs'[z].latest # 0 => z \in DOMAIN reqs /\ reqs'[z].latest = Header(z)
      BY <1>8, <1>9
    <3>3. PICK i \in DOMAIN uk[k].cols :
             uk[k].cols[i].id = Header(r) /\ uk[k].cols[i].st \in {"pending", "submitting"}
      BY <1>1, <3>1, HeaderFacts
    <3>4. k \in Key BY <1>1, <3>1, HeaderFacts
    <3> HIDE DEF k
    <3>5. /\ i \in DOMAIN uk'[k].cols /\ uk'[k].cols[i].id = Header(r)
          /\ uk'[k].cols[i].st \in {"pending", "submitting"}
      BY <1>7, <3>3, <3>4
    <3>6. \A z \in DOMAIN reqs' : reqs'[z].latest = reqs'[r].latest => z = r
      BY <1>9, <2>1, <3>1, <3>2
    <3> QED BY <3>1, <3>5, <3>6
  <2> QED BY <2>1 DEF ClosedInv
<1> QED BY <1>12, <1>16, <1>18, <1>19, <1>20, <1>21, <1>22, <1>23, <1>24 DEF ColumnInv

-----------------------------------------------------------------------------
(* Steps that drop columns. *)

\* The columns of list B are those of A at the places f, in their order.
Thinned(A, B, f) ==
    /\ f \in [DOMAIN B -> DOMAIN A]
    /\ \A m, n \in DOMAIN B : m < n => f[m] < f[n]
    /\ \A m \in DOMAIN B : B[m].id = A[f[m]].id

\* The end of a merge.
LEMMA MergeEndFacts ==
  ASSUME NEW cols \in Seq(ColumnNode), NEW h \in 1..Len(cols)
  PROVE  MergeEnd(cols, h) \in (h + 1)..(Len(cols) + 1)
<1> DEFINE S == {i \in (h + 1)..(Len(cols) + 1) : i = Len(cols) + 1 \/ StopsMerge(cols[i])}
<1>1. Len(cols) \in Nat /\ h \in Nat /\ h <= Len(cols) OBVIOUS
<1>2. Len(cols) + 1 \in S BY <1>1
<1>3. S \subseteq Nat /\ S \subseteq (h + 1)..(Len(cols) + 1) BY <1>1
<1>4. MergeEnd(cols, h) = MinOf(S) BY DEF MergeEnd
<1> HIDE DEF S
<1>5. \E n \in S : \A m \in S : n <= m BY <1>2, <1>3, Smallest
<1>6. MinOf(S) \in S BY <1>5 DEF MinOf
<1> QED BY <1>3, <1>4, <1>6

\* List B is what a merge of the columns between places h and e leaves: none is gone
\* that it does not merge.
MergedList(cols, h, e, B, f) ==
    /\ Thinned(cols, B, f)
    /\ \A m \in DOMAIN B : f[m] <= h \/ e <= f[m] => B[m].st = cols[f[m]].st
    /\ \A i \in DOMAIN cols : i <= h \/ e <= i => \E m \in DOMAIN B : f[m] = i
    /\ \A i \in 1..h : i \in DOMAIN B /\ f[i] = i

\* The merge leaves it.
LEMMA AfterMergeFacts ==
  ASSUME NEW cols \in Seq(ColumnNode), NEW h \in 1..Len(cols), NEW e \in (h + 1)..(Len(cols) + 1)
  PROVE  /\ AfterMerge(cols, h, e) \in Seq(ColumnNode)
         /\ \E f : MergedList(cols, h, e, AfterMerge(cols, h, e), f)
<1> DEFINE C == [i \in DOMAIN cols |->
                    IF i = h THEN [cols[i] EXCEPT !.trxn = FALSE]
                    ELSE IF i = e THEN [cols[i] EXCEPT !.split = FALSE]
                    ELSE IF h < i /\ i < e
                    THEN [cols[i] EXCEPT !.st = "merged", !.committed = TRUE, !.trxn = FALSE]
                    ELSE cols[i]]
           R == {i \in (h + 1)..(e - 1) : ~Seen(cols, DOMAIN snaps, h, i)}
           B == AfterMerge(cols, h, e)
<1>1. /\ Len(cols) \in Nat /\ DOMAIN cols = 1..Len(cols)
      /\ h \in Nat /\ e \in Nat /\ h <= Len(cols) /\ h + 1 <= e /\ e <= Len(cols) + 1
  OBVIOUS
<1>2. B = Keep(C, R) BY DEF AfterMerge
<1>3. ASSUME NEW i \in DOMAIN cols
      PROVE  /\ C[i] \in ColumnNode /\ C[i].id = cols[i].id
             /\ i <= h \/ e <= i => C[i].st = cols[i].st
  <2> DEFINE c == cols[i]
  <2>1. c \in ColumnNode OBVIOUS
  <2>2. i \in Nat BY <1>1
  <2> HIDE DEF c
  <2>3. /\ [c EXCEPT !.trxn = FALSE] \in ColumnNode
        /\ [c EXCEPT !.trxn = FALSE].id = c.id /\ [c EXCEPT !.trxn = FALSE].st = c.st
        /\ [c EXCEPT !.split = FALSE] \in ColumnNode
        /\ [c EXCEPT !.split = FALSE].id = c.id /\ [c EXCEPT !.split = FALSE].st = c.st
    BY <2>1 DEF ColumnNode
  <2>4. /\ [c EXCEPT !.st = "merged", !.committed = TRUE, !.trxn = FALSE] \in ColumnNode
        /\ [c EXCEPT !.st = "merged", !.committed = TRUE, !.trxn = FALSE].id = c.id
    BY <2>1 DEF ColumnNode
  <2>5. C[i] = IF i = h THEN [c EXCEPT !.trxn = FALSE]
               ELSE IF i = e THEN [c EXCEPT !.split = FALSE]
               ELSE IF h < i /\ i < e
               THEN [c EXCEPT !.st = "merged", !.committed = TRUE, !.trxn = FALSE]
               ELSE c
    BY DEF c
  <2> HIDE DEF C
  <2>6. CASE i = h BY <2>3, <2>5, <2>6 DEF c
  <2>7. CASE i # h /\ i = e BY <2>3, <2>5, <2>7 DEF c
  <2>8. CASE h < i /\ i < e
    <3>1. C[i] = [c EXCEPT !.st = "merged", !.committed = TRUE, !.trxn = FALSE]
      BY <1>1, <2>2, <2>5, <2>8
    <3>2. ~(i <= h \/ e <= i) BY <1>1, <2>2, <2>8
    <3> QED BY <2>4, <3>1, <3>2 DEF c
  <2>9. CASE i # h /\ i # e /\ ~(h < i /\ i < e) BY <2>1, <2>5, <2>9 DEF c
  <2> QED BY <2>6, <2>7, <2>8, <2>9
<1>4. C \in Seq(ColumnNode) /\ DOMAIN C = DOMAIN cols /\ Len(C) = Len(cols)
  <2>1. DOMAIN C = DOMAIN cols /\ C = [i \in 1..Len(cols) |-> C[i]] BY <1>1
  <2> HIDE DEF C
  <2> QED BY <1>1, <1>3, <2>1
<1> HIDE DEF C
<1>5. R \in SUBSET ((h + 1)..(e - 1)) OBVIOUS
<1> HIDE DEF R, B
<1>6. PICK f : KeptAt(C, R, f) /\ \A m \in DOMAIN B : B[m] = C[f[m]]
  <2>1. \E f : KeptList(C, R, Keep(C, R), f) BY <1>4, KeepFacts
  <2> QED BY <1>2, <2>1 DEF KeptList
<1>7. B \in Seq(ColumnNode) /\ Len(B) = Cardinality(DOMAIN C \ R) BY <1>2, <1>4, KeepFacts
<1>8. h \in 0..Len(C) /\ e \in (h + 1)..(Len(C) + 1) BY <1>1, <1>4
<1>9. PICK d \in Nat : Shifted(Len(C), h, e, f, d) BY <1>4, <1>5, <1>6, <1>8, KeepShift
<1>10. DOMAIN B = DOMAIN f /\ f \in [DOMAIN B -> DOMAIN cols]
       /\ \A m, n \in DOMAIN B : m < n => f[m] < f[n]
  <2>1. /\ f \in [1..Cardinality(DOMAIN C \ R) -> DOMAIN C \ R]
        /\ \A m, n \in DOMAIN f : m < n => f[m] < f[n]
    BY <1>6 DEF KeptAt
  <2>2. DOMAIN B = 1..Cardinality(DOMAIN C \ R) BY <1>7
  <2> QED BY <1>4, <2>1, <2>2
<1>11. Thinned(cols, B, f)
  <2>1. \A m \in DOMAIN B : f[m] \in DOMAIN cols BY <1>10
  <2>2. \A m \in DOMAIN B : B[m].id = cols[f[m]].id BY <1>3, <1>6, <2>1
  <2> QED BY <1>10, <2>2 DEF Thinned
<1>12. \A m \in DOMAIN B : f[m] <= h \/ e <= f[m] => B[m].st = cols[f[m]].st
  <2>1. \A m \in DOMAIN B : f[m] \in DOMAIN cols BY <1>10
  <2> QED BY <1>3, <1>6, <2>1
<1>13. \A i \in DOMAIN cols : i <= h \/ e <= i => \E m \in DOMAIN B : f[m] = i
  <2> TAKE i \in DOMAIN cols
  <2>1. CASE i <= h
    <3>1. i \in 1..h BY <1>1, <2>1
    <3> QED BY <1>9, <1>10, <3>1 DEF Shifted
  <2>2. CASE e <= i
    <3>1. i \in e..Len(C) BY <1>1, <1>4, <2>2
    <3> QED BY <1>9, <1>10, <3>1 DEF Shifted
  <2> QED BY <2>1, <2>2
<1>14. \A i \in 1..h : i \in DOMAIN B /\ f[i] = i BY <1>9, <1>10 DEF Shifted
<1>15. MergedList(cols, h, e, B, f) BY <1>11, <1>12, <1>13, <1>14 DEF MergedList
<1> QED BY <1>7, <1>15 DEF B

\* The columns of key k are some of the writes they were.
FewerWrites(k) ==
    /\ uk'[k].present = uk[k].present /\ uk'[k].fetched = uk[k].fetched
    /\ uk'[k].dirty = uk[k].dirty
    /\ \E f : Thinned(uk[k].cols, uk'[k].cols, f)
    /\ ~uk[k].present => uk'[k] = uk[k]
    /\ uk[k].cols # <<>> => uk'[k].cols # <<>>

\* Where columns are dropped, the others are still in order and newer than their row.
LEMMA FewerFrame ==
  ASSUME ColumnsInv, RowsInv, FlushesInv, UNCHANGED <<hist, fl, sktdf>>,
         \A k \in Key : FewerWrites(k)
  PROVE  ColumnsInv' /\ RowsInv' /\ FlushesInv'
<1>0. \A k \in Key : \A i \in DOMAIN uk'[k].cols :
        \E j \in DOMAIN uk[k].cols : uk'[k].cols[i].id = uk[k].cols[j].id
  BY DEF FewerWrites, Thinned
<1>1. ColumnsInv'
  <2>1. ASSUME NEW k \in Key
        PROVE  /\ ~uk'[k].present => uk'[k] = NoUserKey
               /\ uk'[k].present => uk'[k].cols # <<>>
               /\ \A i \in DOMAIN uk'[k].cols :
                     uk'[k].cols[i].id \in DOMAIN hist /\ hist[uk'[k].cols[i].id].key = k
               /\ \A i, j \in DOMAIN uk'[k].cols : i < j => uk'[k].cols[j].id < uk'[k].cols[i].id
    <3>1. FewerWrites(k) OBVIOUS
    <3>2. /\ ~uk[k].present => uk[k] = NoUserKey
          /\ uk[k].present => uk[k].cols # <<>>
          /\ \A i \in DOMAIN uk[k].cols :
                uk[k].cols[i].id \in DOMAIN hist /\ hist[uk[k].cols[i].id].key = k
          /\ \A i, j \in DOMAIN uk[k].cols : i < j => uk[k].cols[j].id < uk[k].cols[i].id
      BY DEF ColumnsInv
    <3>3. PICK f : Thinned(uk[k].cols, uk'[k].cols, f) BY <3>1 DEF FewerWrites
    <3>4. \A i, j \in DOMAIN uk'[k].cols : i < j => uk'[k].cols[j].id < uk'[k].cols[i].id
      BY <3>2, <3>3 DEF Thinned
    <3> QED BY <1>0, <3>1, <3>2, <3>4 DEF FewerWrites
  <2> QED BY <2>1 DEF ColumnsInv
<1>2. RowsInv'
  <2>1. \A k \in Key : uk'[k].fetched = uk[k].fetched BY DEF FewerWrites
  <2> QED BY <1>0, <2>1 DEF RowsInv
<1>3. FlushesInv'
  <2>1. \A k \in Key : uk'[k].present = uk[k].present /\ uk'[k].dirty = uk[k].dirty
    BY DEF FewerWrites
  <2> QED BY <2>1 DEF FlushesInv
<1> QED BY <1>1, <1>2, <1>3

\* The columns of a key are merged into the one a request submits.
LEMMA MergeColumns ==
  ASSUME ColumnInv, NEW w \in Worker, Merge(w)
  PROVE  ColumnInv'
<1> DEFINE r == wk[w].list[wk[w].pos]
           k == reqs[r].key
           cols == uk[k].cols
           h == At(k, reqs[r].latest)
           e == MergeEnd(cols, h)
           B == AfterMerge(cols, h, e)
           last == wk[w].pos = Len(wk[w].list)
<1>1. /\ UserType /\ WorkerType /\ TableType /\ ColumnsInv /\ RowsInv /\ FlushesInv
      /\ Places /\ WorkerPlaces /\ OpenInv /\ ClosedInv /\ CleanKey
  BY DEF ColumnInv
<1>2. /\ wk[w].pc = "merge"
      /\ \A i \in (h + 1)..(e - 1) : ~Claimed(r, cols[i].id)
      /\ uk' = [uk EXCEPT ![k].cols = B]
      /\ UNCHANGED <<seq, pending, wr, hist, fl, sktdf, ikeys>>
  BY DEF Merge, blockVars
<1>3. PICK g : reqs' = [reqs EXCEPT ![r].built = TRUE, ![r].tgid = g] BY DEF Merge
<1>4. PICK l : wk' = [wk EXCEPT ![w] = [wk[w] EXCEPT !.pc = IF last THEN "put" ELSE "merge",
                                                     !.pos = IF last THEN 1 ELSE wk[w].pos + 1,
                                                     !.log = l]]
  BY DEF Merge
<1>5. /\ IsWorker(wk[w]) /\ wk[w].list \in Seq(Nat) /\ wk[w].pos \in Nat
      /\ wk[w].pos \in 1..Len(wk[w].list) /\ Todo(w) = 1..Len(wk[w].list)
      /\ wk[w].pos \in Todo(w)
  <2>1. IsWorker(wk[w]) BY <1>1 DEF WorkerType
  <2>2. wk[w].list \in Seq(Nat) /\ wk[w].pos \in Nat BY <2>1 DEF IsWorker
  <2>3. wk[w].pos \in 1..Len(wk[w].list) BY <1>1, <1>2 DEF WorkerPlaces
  <2>4. Todo(w) = 1..Len(wk[w].list) BY <1>2 DEF Todo, From
  <2> QED BY <2>1, <2>2, <2>3, <2>4
<1>6. r \in DOMAIN reqs /\ reqs[r].latest # 0 BY <1>1, <1>5 DEF WorkerPlaces
<1> HIDE DEF r
<1>7. /\ k \in Key /\ uk[k] \in UserKey /\ cols \in Seq(ColumnNode) /\ h \in DOMAIN cols
      /\ cols[h].id = reqs[r].latest
      /\ \A i \in DOMAIN cols : cols[i].id = reqs[r].latest => i = h
  BY <1>1, <1>6, AtFacts
<1>8. uk[k].present /\ uk[k].dirty BY <1>1, <1>6, RequestedDirty
<1> HIDE DEF h, k
<1>9. /\ Len(cols) \in Nat /\ DOMAIN cols = 1..Len(cols) /\ h \in Nat /\ 1 <= h
      /\ e \in (h + 1)..(Len(cols) + 1) /\ cols # <<>> /\ 1 \in DOMAIN cols
  <2> HIDE DEF cols, e
  <2>1. Len(cols) \in Nat /\ DOMAIN cols = 1..Len(cols) BY <1>7
  <2>2. h \in 1..Len(cols) BY <1>7, <2>1
  <2>3. e \in (h + 1)..(Len(cols) + 1) BY <1>7, <2>2, MergeEndFacts DEF e
  <2>4. cols # <<>> BY <2>1, <2>2
  <2> QED BY <2>1, <2>2, <2>3, <2>4
<1> HIDE DEF e
<1>10. PICK f : /\ Thinned(cols, B, f)
                /\ \A m \in DOMAIN B : f[m] <= h \/ e <= f[m] => B[m].st = cols[f[m]].st
                /\ \A i \in DOMAIN cols : i <= h \/ e <= i => \E m \in DOMAIN B : f[m] = i
                /\ \A i \in 1..h : i \in DOMAIN B /\ f[i] = i
  <2> HIDE DEF cols
  <2>1. h \in 1..Len(cols) BY <1>7, <1>9
  <2>2. \E q : MergedList(cols, h, e, B, q) BY <1>7, <1>9, <2>1, AfterMergeFacts
  <2> QED BY <2>2 DEF MergedList
<1>11. B \in Seq(ColumnNode) /\ B # <<>> /\ 1 \in DOMAIN B /\ f[1] = 1
  <2>1. B \in Seq(ColumnNode)
    <3> HIDE DEF cols
    <3>1. h \in 1..Len(cols) BY <1>7, <1>9
    <3> QED BY <1>7, <1>9, <3>1, AfterMergeFacts
  <2>2. 1 \in 1..h BY <1>9
  <2>3. 1 \in DOMAIN B /\ f[1] = 1 BY <1>10, <2>2
  <2> HIDE DEF B
  <2> QED BY <2>1, <2>3
<1> HIDE DEF B
<1>12. \A m \in DOMAIN B : f[m] \in DOMAIN cols /\ B[m].id = cols[f[m]].id BY <1>10 DEF Thinned
<1> DEFINE u == [uk[k] EXCEPT !.cols = B]
<1>13. uk' = [uk EXCEPT ![k] = u]
  <2>1. uk \in [Key -> UserKey] BY <1>1 DEF UserType
  <2> QED BY <1>2, <1>7, <2>1
<1>14. /\ u \in UserKey /\ u.cols = B /\ u.present = uk[k].present /\ u.fetched = uk[k].fetched
       /\ u.dirty = uk[k].dirty /\ u.req = uk[k].req
  BY <1>7, <1>11 DEF UserKey
<1> HIDE DEF u
<1>15. uk' \in [Key -> UserKey] /\ uk'[k] = u /\ \A j \in Key : j # k => uk'[j] = uk[j]
  <2>1. uk \in [Key -> UserKey] BY <1>1 DEF UserType
  <2> QED BY <1>7, <1>13, <1>14, <2>1
<1>16. /\ DOMAIN reqs' = DOMAIN reqs /\ AreRequests(reqs')
       /\ \A y \in DOMAIN reqs : reqs'[y].key = reqs[y].key /\ reqs'[y].latest = reqs[y].latest
  <2> DEFINE y == [reqs[r] EXCEPT !.built = TRUE]
             z == [y EXCEPT !.tgid = g]
  <2>1. IsRequest(reqs[r]) BY <1>1, <1>6 DEF UserType, AreRequests
  <2>2. IsRequest(y) /\ y.key = reqs[r].key /\ y.latest = reqs[r].latest BY <2>1 DEF IsRequest
  <2>3. reqs' = [reqs EXCEPT ![r] = z]
    <3>1. reqs = [v \in DOMAIN reqs |-> reqs[v]] BY <1>1 DEF UserType, AreRequests
    <3> QED BY <1>3, <1>6, <3>1
  <2> HIDE DEF y
  <2>4. IsRequest(z) /\ z.key = reqs[r].key /\ z.latest = reqs[r].latest BY <2>2 DEF IsRequest
  <2> HIDE DEF z
  <2>5. AreRequests(reqs) BY <1>1 DEF UserType
  <2>6. DOMAIN reqs' = DOMAIN reqs /\ reqs' = [v \in DOMAIN reqs' |-> reqs'[v]]
    BY <2>3, <2>5 DEF AreRequests
  <2>7. \A v \in DOMAIN reqs : reqs'[v] = IF v = r THEN z ELSE reqs[v] BY <2>3, <2>5 DEF AreRequests
  <2>8. \A v \in DOMAIN reqs : IsRequest(reqs'[v]) BY <2>4, <2>5, <2>7 DEF AreRequests
  <2> QED BY <2>4, <2>6, <2>7, <2>8 DEF AreRequests
<1>17. UserType' BY <1>1, <1>2, <1>15, <1>16 DEF UserType
<1> DEFINE npc == IF last THEN "put" ELSE "merge"
           npos == IF last THEN 1 ELSE wk[w].pos + 1
           x1 == [wk[w] EXCEPT !.pc = npc]
           x2 == [x1 EXCEPT !.pos = npos]
           x == [x2 EXCEPT !.log = l]
<1>18. wk' = [wk EXCEPT ![w] = x] BY <1>4
<1>19. /\ IsWorker(x) /\ x.list = wk[w].list /\ x.pc = npc /\ x.pos = npos
       /\ npos \in 1..Len(wk[w].list) /\ npc \in {"put", "merge"} /\ (npc = "put" => npos = 1)
  <2>1. npos \in 1..Len(wk[w].list) /\ npos \in Nat BY <1>5
  <2>2. npc \in {"put", "merge"} /\ (npc = "put" => npos = 1) OBVIOUS
  <2> HIDE DEF npos, npc
  <2>3. IsWorker(x1) /\ x1.list = wk[w].list /\ x1.pc = npc BY <1>5, <2>2 DEF IsWorker
  <2> HIDE DEF x1
  <2>4. IsWorker(x2) /\ x2.list = wk[w].list /\ x2.pc = npc /\ x2.pos = npos BY <2>1, <2>3 DEF IsWorker
  <2> HIDE DEF x2
  <2>5. IsWorker(x) /\ x.list = wk[w].list /\ x.pc = npc /\ x.pos = npos BY <2>4 DEF IsWorker
  <2> QED BY <2>1, <2>2, <2>5
<1> HIDE DEF x, npc, npos
<1>20. wk'[w] = x /\ (\A v \in Worker : v # w => wk'[v] = wk[v]) /\ wk' = [v \in Worker |-> wk'[v]]
  BY <1>1, <1>18 DEF WorkerType
<1>21. WorkerType' BY <1>1, <1>2, <1>19, <1>20 DEF WorkerType
<1>22. \A j \in Key : FewerWrites(j)
  <2> TAKE j \in Key
  <2>1. CASE j = k
    <3>1. \E q : Thinned(uk[j].cols, uk'[j].cols, q) BY <1>10, <1>14, <1>15, <2>1
    <3> QED BY <1>8, <1>11, <1>14, <1>15, <2>1, <3>1 DEF FewerWrites
  <2>2. CASE j # k
    <3> DEFINE q == [i \in DOMAIN uk[j].cols |-> i]
    <3>1. Thinned(uk[j].cols, uk[j].cols, q) BY DEF Thinned
    <3> QED BY <1>15, <2>2, <3>1 DEF FewerWrites
  <2> QED BY <2>1, <2>2
<1>23. ColumnsInv' /\ RowsInv' /\ FlushesInv' BY <1>1, <1>2, <1>22, FewerFrame
<1>24. TableType' BY <1>1, <1>2 DEF TableType
<1>25. CleanKey'
  <2>1. ASSUME NEW j \in Key PROVE IsClean(j)'
    <3>1. IsClean(j) BY <1>1, CleanIs
    <3>2. CASE j = k
      <4>1. uk'[j].dirty BY <1>8, <1>14, <1>15, <3>2
      <4> QED BY <4>1 DEF IsClean
    <3>3. CASE j # k BY <1>2, <1>15, <3>1, <3>3, CleanStays
    <3> QED BY <3>2, <3>3
  <2> QED BY <2>1, CleanIs
<1>26. Places'
  <2>1. pending' = pending /\ wr' = wr /\ DOMAIN reqs' = DOMAIN reqs BY <1>2, <1>16
  <2> QED BY <1>1, <2>1 DEF Places
<1>27. WorkerPlaces'
  <2>1. ASSUME NEW v \in Worker
        PROVE  /\ wk'[v].pc = "idle" => wk'[v] = IdleWorker
               /\ wk'[v].pc = "put" => wk'[v].pos = 1
               /\ wk'[v].pc # "idle" => wk'[v].pos \in 1..Len(wk'[v].list)
               /\ wk'[v].list = wk[v].list /\ Todo(v)' = Todo(v)
    <3>1. CASE v # w
      <4>1. wk'[v] = wk[v] BY <1>20, <3>1
      <4>2. Todo(v)' = Todo(v) BY <4>1 DEF Todo, From
      <4> QED BY <1>1, <3>1, <4>1, <4>2 DEF WorkerPlaces
    <3>2. CASE v = w
      <4>1. wk'[v].pc \in {"put", "merge"} /\ wk'[v].list = wk[v].list BY <1>19, <1>20, <3>2
      <4>2. Todo(v)' = Todo(v) BY <1>5, <3>2, <4>1 DEF Todo, From
      <4> QED BY <1>19, <1>20, <3>2, <4>1, <4>2
    <3> QED BY <3>1, <3>2
  <2>2. ASSUME NEW v \in Worker, NEW i \in Todo(v)'
        PROVE  LET y == wk'[v].list[i] IN
               /\ y \in DOMAIN reqs' /\ reqs'[y].latest # 0
               /\ \A j \in DOMAIN pending' : pending'[j] # y
               /\ \A p \in Writer : wr'[p].rq # y
    <3> DEFINE y == wk[v].list[i]
    <3>1. i \in Todo(v) /\ wk'[v].list[i] = y BY <2>1, <2>2
    <3>2. /\ y \in DOMAIN reqs /\ reqs[y].latest # 0
          /\ \A j \in DOMAIN pending : pending[j] # y
      BY <1>1, <3>1 DEF WorkerPlaces
    <3>3. \A p \in Writer : wr[p].rq # y BY <1>1, <3>1 DEF WorkerPlaces
    <3> HIDE DEF y
    <3> QED BY <1>2, <1>16, <3>1, <3>2, <3>3
  <2>3. \A a, v \in Worker : \A i \in Todo(a), j \in Todo(v) :
          wk[a].list[i] = wk[v].list[j] => a = v /\ i = j
    BY <1>1 DEF WorkerPlaces
  <2>4. \A a, v \in Worker : \A i \in Todo(a)', j \in Todo(v)' :
          wk'[a].list[i] = wk'[v].list[j] => a = v /\ i = j
    BY <2>1, <2>3
  <2> QED BY <2>1, <2>2, <2>4 DEF WorkerPlaces
<1>28. OpenInv'
  <2>1. \A j \in Key : uk'[j].req = uk[j].req BY <1>14, <1>15
  <2>2. \A j \in Key : uk[j].req # 0 =>
          uk[j].req \in DOMAIN reqs /\ reqs[uk[j].req].key = j /\ reqs[uk[j].req].latest = 0
    BY <1>1 DEF OpenInv
  <2>3. \A j \in Key : uk'[j].req # 0 =>
          uk'[j].req \in DOMAIN reqs' /\ reqs'[uk'[j].req].key = j /\ reqs'[uk'[j].req].latest = 0
    BY <1>16, <2>1, <2>2
  <2>4. ASSUME NEW y \in DOMAIN reqs', reqs'[y].latest = 0
        PROVE  LET j == reqs'[y].key IN
               /\ uk'[j].req = y /\ uk'[j].cols # <<>> /\ uk'[j].cols[1].st = "pending"
               /\ \A z \in DOMAIN reqs' : reqs'[z].latest # uk'[j].cols[1].id
    <3> DEFINE j == reqs[y].key
    <3>1. y \in DOMAIN reqs /\ reqs'[y].key = reqs[y].key /\ reqs[y].latest = 0 BY <1>16, <2>4
    <3>2. /\ uk[j].req = y /\ uk[j].cols # <<>> /\ uk[j].cols[1].st = "pending"
          /\ \A z \in DOMAIN reqs : reqs[z].latest # uk[j].cols[1].id
      BY <1>1, <3>1 DEF OpenInv, NoColumns, Newest
    <3>3. j \in Key BY <1>1, <3>1 DEF UserType, AreRequests, IsRequest
    <3> HIDE DEF j
    <3>4. /\ uk'[j].req = y /\ uk'[j].cols # <<>>
          /\ uk'[j].cols[1].id = uk[j].cols[1].id /\ uk'[j].cols[1].st = uk[j].cols[1].st
      <4>1. CASE j = k
        <5>1. B[1].id = cols[1].id BY <1>11, <1>12
        <5>2. B[1].st = cols[1].st BY <1>9, <1>10, <1>11
        <5> QED BY <1>11, <1>14, <1>15, <3>2, <4>1, <5>1, <5>2
      <4>2. CASE j # k BY <1>15, <3>2, <3>3, <4>2
      <4> QED BY <4>1, <4>2
    <3>5. \A z \in DOMAIN reqs' : reqs'[z].latest # uk[j].cols[1].id BY <1>16, <3>2
    <3> QED BY <3>1, <3>2, <3>4, <3>5 DEF j
  <2> QED BY <2>3, <2>4 DEF OpenInv, NoColumns, Newest
<1>29. ClosedInv'
  <2>1. ASSUME NEW y \in DOMAIN reqs', reqs'[y].latest # 0
        PROVE  /\ \E i \in DOMAIN uk'[reqs'[y].key].cols :
                     /\ uk'[reqs'[y].key].cols[i].id = reqs'[y].latest
                     /\ uk'[reqs'[y].key].cols[i].st \in {"pending", "submitting"}
               /\ \A z \in DOMAIN reqs' : reqs'[z].latest = reqs'[y].latest => z = y
    <3> DEFINE j == reqs[y].key
    <3>1. y \in DOMAIN reqs /\ reqs'[y].key = reqs[y].key /\ reqs'[y].latest = reqs[y].latest
      BY <1>16, <2>1
    <3>2. /\ \E i \in DOMAIN uk[j].cols :
                /\ uk[j].cols[i].id = reqs[y].latest
                /\ uk[j].cols[i].st \in {"pending", "submitting"}
          /\ \A z \in DOMAIN reqs : reqs[z].latest = reqs[y].latest => z = y
      BY <1>1, <2>1, <3>1 DEF ClosedInv
    <3>3. j \in Key BY <1>1, <3>1 DEF UserType, AreRequests, IsRequest
    <3> HIDE DEF j
    <3>4. PICK i \in DOMAIN uk[j].cols :
             uk[j].cols[i].id = reqs[y].latest /\ uk[j].cols[i].st \in {"pending", "submitting"}
      BY <3>2
    <3>5. \E m \in DOMAIN uk'[j].cols : /\ uk'[j].cols[m].id = uk[j].cols[i].id
                                        /\ uk'[j].cols[m].st = uk[j].cols[i].st
      <4>1. CASE j = k
        <5>1. i \in DOMAIN cols /\ i \in Nat BY <1>9, <3>4, <4>1
        <5>2. i <= h \/ e <= i
          <6>1. CASE y = r
            <7>1. i = h BY <1>7, <3>4, <4>1, <6>1
            <7> QED BY <1>9, <7>1
          <6>2. CASE y # r
            <7>1. Claimed(r, cols[i].id) BY <3>1, <3>4, <4>1, <6>2 DEF Claimed
            <7>2. i \notin (h + 1)..(e - 1) BY <1>2, <7>1
            <7> QED BY <1>9, <5>1, <7>2
          <6> QED BY <6>1, <6>2
        <5>3. PICK m \in DOMAIN B : f[m] = i BY <1>10, <5>1, <5>2
        <5>4. B[m].id = cols[i].id /\ B[m].st = cols[i].st BY <1>10, <1>12, <5>2, <5>3
        <5> QED BY <1>14, <1>15, <4>1, <5>4
      <4>2. CASE j # k BY <1>15, <3>3, <3>4, <4>2
      <4> QED BY <4>1, <4>2
    <3>6. \A z \in DOMAIN reqs' : reqs'[z].latest = reqs[y].latest => z = y BY <1>16, <3>2
    <3> QED BY <3>1, <3>4, <3>5, <3>6 DEF j
  <2> QED BY <2>1 DEF ClosedInv
<1> QED BY <1>17, <1>21, <1>23, <1>24, <1>25, <1>26, <1>27, <1>28, <1>29 DEF ColumnInv

-----------------------------------------------------------------------------
(* The scan of a key by a flush. *)

\* The columns of a key with the one of its row.
LEMMA ColumnsFacts ==
  ASSUME UserType, TableType, ColumnsInv, RowsInv, NEW k \in Key
  PROVE  /\ Columns(k) \in Seq(ColumnNode)
         /\ \A i \in DOMAIN uk[k].cols : i \in DOMAIN Columns(k) /\ Columns(k)[i] = uk[k].cols[i]
         /\ \A i \in DOMAIN Columns(k) :
               Columns(k)[i].id \in DOMAIN hist /\ hist[Columns(k)[i].id].key = k
         /\ \A i, j \in DOMAIN Columns(k) : i < j => Columns(k)[j].id < Columns(k)[i].id
         /\ Columns(k) # <<>> => uk[k].cols # <<>> \/ HasRow(k)
<1> DEFINE A == uk[k].cols
           c == RowColumn(k)
<1>1. A \in Seq(ColumnNode) BY DEF UserType, UserKey
<1>2. /\ \A i \in DOMAIN A : A[i].id \in DOMAIN hist /\ hist[A[i].id].key = k
      /\ \A i, j \in DOMAIN A : i < j => A[j].id < A[i].id
  BY DEF ColumnsInv
<1>3. CASE ~Fetches(k)
  <2>1. Columns(k) = A BY <1>3 DEF Columns
  <2> QED BY <1>1, <1>2, <2>1
<1>4. CASE Fetches(k)
  <2>1. Columns(k) = Append(A, c) BY <1>4 DEF Columns
  <2>2. HasRow(k) /\ ~uk[k].fetched /\ TableOf[k] \in Table BY <1>4, StateAssumption DEF Fetches
  <2>3. /\ Row(k) \in RowOf /\ Row(k).id \in DOMAIN hist /\ hist[Row(k).id].key = k
        /\ \A i \in DOMAIN A : Row(k).id < A[i].id
    <3>1. Row(k) \in RowOf BY <2>2 DEF TableType, IsRows, HasRow, Row
    <3> QED BY <2>2, <3>1 DEF RowsInv, HasRow, Row
  <2>4. c \in ColumnNode /\ c.id = Row(k).id
    <3> DEFINE row == Row(k)
               end == IF A = <<>> THEN MaxSeq ELSE A[Len(A)].begin
               d == FetchedColumn(row, end)
    <3>1. row.id \in Nat /\ row.begin \in Nat /\ row.ikey \in Nat BY <2>3 DEF RowOf
    <3>2. end \in Nat
      <4>1. CASE A = <<>> BY <4>1, StateAssumption
      <4>2. CASE A # <<>>
        <5>1. Len(A) \in DOMAIN A /\ A[Len(A)] \in ColumnNode
          <6> HIDE DEF A
          <6> QED BY <1>1, <4>2
        <5>2. A[Len(A)].begin \in Nat BY <5>1 DEF ColumnNode
        <5> QED BY <4>2, <5>2
      <4> QED BY <4>1, <4>2
    <3>3. c = [d EXCEPT !.kbm = "prim"] BY DEF RowColumn
    <3> HIDE DEF row, end
    <3>4. d \in ColumnNode /\ d.id = row.id
      <4>1. MaxSeq \in Nat BY StateAssumption
      <4>2. Column(row.id, FALSE, FALSE) \in ColumnNode /\ Column(row.id, FALSE, FALSE).id = row.id
        BY <3>1, <4>1 DEF Column, ColumnNode
      <4> HIDE DEF c
      <4> QED BY <3>1, <3>2, <4>2 DEF FetchedColumn, ColumnNode
    <3> HIDE DEF d, c
    <3>5. c \in ColumnNode /\ c.id = d.id BY <3>3, <3>4 DEF ColumnNode
    <3> QED BY <3>4, <3>5 DEF row
  <2> HIDE DEF A, c
  <2>5. /\ Len(A) \in Nat /\ DOMAIN A = 1..Len(A)
        /\ Columns(k) \in Seq(ColumnNode) /\ DOMAIN Columns(k) = 1..(Len(A) + 1)
        /\ Columns(k)[Len(A) + 1] = c /\ \A i \in DOMAIN A : Columns(k)[i] = A[i]
    BY <1>1, <2>1, <2>4
  <2>6. \A i \in DOMAIN Columns(k) : i = Len(A) + 1 \/ i \in DOMAIN A BY <2>5
  <2>7. \A i \in DOMAIN Columns(k) :
          Columns(k)[i].id \in DOMAIN hist /\ hist[Columns(k)[i].id].key = k
    BY <1>2, <2>3, <2>4, <2>5, <2>6
  <2>8. ASSUME NEW i \in DOMAIN Columns(k), NEW j \in DOMAIN Columns(k), i < j
        PROVE  Columns(k)[j].id < Columns(k)[i].id
    <3>1. i \in DOMAIN A BY <2>5, <2>8
    <3>2. CASE j \in DOMAIN A BY <1>2, <2>5, <2>8, <3>1, <3>2
    <3>3. CASE j = Len(A) + 1 BY <2>3, <2>4, <2>5, <3>1, <3>3
    <3> QED BY <2>6, <3>2, <3>3
  <2>9. \A i \in DOMAIN A : i \in DOMAIN Columns(k) BY <2>5
  <2> QED BY <2>2, <2>5, <2>7, <2>8, <2>9 DEF A
<1> QED BY <1>3, <1>4

\* The verdicts: columns without a block are skipped, and one is recorded at most.
LEMMA VerdictFacts ==
  ASSUME NEW cols \in Seq(ColumnNode), NEW S
  PROVE  /\ \A i \in DOMAIN cols : Verdict(cols, S, i) \in {"skip", "valid", "iter", "drop"}
         /\ \A i \in DOMAIN cols : cols[i].st \in {"pending", "submitting"} => Verdict(cols, S, i) = "skip"
         /\ \A i \in DOMAIN cols : Verdict(cols, S, i) = "valid" => cols[i].st = "stored"
         /\ \A i, j \in DOMAIN cols :
               Verdict(cols, S, i) = "valid" /\ Verdict(cols, S, j) = "valid" => i = j
<1>1. \A i \in DOMAIN cols : Verdict(cols, S, i) \in {"skip", "valid", "iter", "drop"} BY DEF Verdict
<1>2. \A i \in DOMAIN cols : cols[i].st \in {"pending", "submitting"} => Verdict(cols, S, i) = "skip"
  BY DEF Verdict, Skipped
<1>3. \A i \in DOMAIN cols : Verdict(cols, S, i) = "valid" => IsFirstStored(cols, i) BY DEF Verdict
<1>4. \A i, j \in DOMAIN cols : IsFirstStored(cols, i) /\ IsFirstStored(cols, j) => i = j
  <2> TAKE i, j \in DOMAIN cols
  <2> HAVE IsFirstStored(cols, i) /\ IsFirstStored(cols, j)
  <2>1. i \in Nat /\ j \in Nat /\ 1 <= i /\ 1 <= j OBVIOUS
  <2>2. cols[i].st = "stored" /\ \A n \in 1..(i - 1) : cols[n].st # "stored" BY DEF IsFirstStored
  <2>3. cols[j].st = "stored" /\ \A n \in 1..(j - 1) : cols[n].st # "stored" BY DEF IsFirstStored
  <2>4. ~(i < j)
    <3>1. i < j => i \in 1..(j - 1) BY <2>1
    <3> QED BY <2>2, <2>3, <3>1
  <2>5. ~(j < i)
    <3>1. j < i => j \in 1..(i - 1) BY <2>1
    <3> QED BY <2>2, <2>3, <3>1
  <2> QED BY <2>1, <2>4, <2>5
<1>5. \A i \in DOMAIN cols : IsFirstStored(cols, i) => cols[i].st = "stored" BY DEF IsFirstStored
<1>6. \A i, j \in DOMAIN cols :
         Verdict(cols, S, i) = "valid" /\ Verdict(cols, S, j) = "valid" => i = j
  BY <1>3, <1>4
<1>7. \A i \in DOMAIN cols : Verdict(cols, S, i) = "valid" => cols[i].st = "stored" BY <1>3, <1>5
<1> QED BY <1>1, <1>2, <1>6, <1>7

\* The scan keeps a column what it is; a recorded one points to its block.
LEMMA ScannedFacts ==
  ASSUME NEW cols \in Seq(ColumnNode), NEW S, NEW i \in DOMAIN cols
  PROVE  /\ Scanned(cols, S, i) \in ColumnNode
         /\ Scanned(cols, S, i).id = cols[i].id /\ Scanned(cols, S, i).st = cols[i].st
         /\ Scanned(cols, S, i).ikey = cols[i].ikey
         /\ Verdict(cols, S, i) = "valid" =>
               Scanned(cols, S, i).committed /\ Scanned(cols, S, i).kbm = "prim"
<1> DEFINE v == Verdict(cols, S, i)
           rd == cols[i].recdel \/ \E j \in 1..(i - 1) : Verdict(cols, S, j) = "drop"
           c == [cols[i] EXCEPT !.recdel = rd]
           ho == c.holding \/ v = "iter"
           d1 == [c EXCEPT !.committed = TRUE]
           d2 == [d1 EXCEPT !.kbm = "prim"]
           d == [d2 EXCEPT !.holding = ho]
<1>1. cols[i] \in ColumnNode OBVIOUS
<1>2. v = "valid" => cols[i].st = "stored" BY VerdictFacts
<1>3. Scanned(cols, S, i) = IF c.st # "stored" \/ v \notin {"valid", "iter"} THEN c ELSE d
  <2> DEFINE e == [c EXCEPT !.committed = TRUE, !.kbm = "prim", !.holding = ho]
  <2>1. Scanned(cols, S, i) = IF c.st # "stored" \/ v \notin {"valid", "iter"} THEN c ELSE e
    BY Zenon DEF Scanned
  <2>2. e = d OBVIOUS
  <2> QED BY <2>1, <2>2
<1>4. rd \in BOOLEAN OBVIOUS
<1> HIDE DEF rd, v
<1>5. c \in ColumnNode /\ c.id = cols[i].id /\ c.st = cols[i].st /\ c.ikey = cols[i].ikey
  BY <1>1, <1>4 DEF ColumnNode
<1> HIDE DEF c
<1>6. ho \in BOOLEAN OBVIOUS
<1> HIDE DEF ho
<1>7. /\ d1 \in ColumnNode /\ d1.id = c.id /\ d1.st = c.st /\ d1.ikey = c.ikey /\ d1.committed = TRUE
  BY <1>5 DEF ColumnNode
<1> HIDE DEF d1
<1>8. /\ d2 \in ColumnNode /\ d2.id = c.id /\ d2.st = c.st /\ d2.ikey = c.ikey /\ d2.committed = TRUE
      /\ d2.kbm = "prim"
  BY <1>7 DEF ColumnNode
<1> HIDE DEF d2
<1>9. /\ d \in ColumnNode /\ d.id = c.id /\ d.st = c.st /\ d.ikey = c.ikey /\ d.committed = TRUE
      /\ d.kbm = "prim"
  BY <1>6, <1>8 DEF ColumnNode
<1> HIDE DEF d
<1> QED BY <1>2, <1>3, <1>5, <1>9 DEF v

\* The list that a scan with snapshots S leaves of a list.
Rest(cols, S) ==
    Keep([i \in DOMAIN cols |-> Scanned(cols, S, i)],
         {i \in DOMAIN cols : Verdict(cols, S, i) = "drop"})

\* List B is what a scan leaves: all but the columns that are dropped.
ScannedList(cols, S, B, f) ==
    /\ Thinned(cols, B, f)
    /\ \A m \in DOMAIN B : B[m] = Scanned(cols, S, f[m]) /\ Verdict(cols, S, f[m]) # "drop"
    /\ \A i \in DOMAIN cols : Verdict(cols, S, i) # "drop" => \E m \in DOMAIN B : f[m] = i

\* The scan leaves it.
LEMMA RestFacts ==
  ASSUME NEW cols \in Seq(ColumnNode), NEW S
  PROVE  Rest(cols, S) \in Seq(ColumnNode) /\ \E f : ScannedList(cols, S, Rest(cols, S), f)
<1> DEFINE C == [i \in DOMAIN cols |-> Scanned(cols, S, i)]
           R == {i \in DOMAIN cols : Verdict(cols, S, i) = "drop"}
           B == Rest(cols, S)
<1>1. Len(cols) \in Nat /\ DOMAIN cols = 1..Len(cols) OBVIOUS
<1>2. B = Keep(C, R) BY DEF Rest
<1>3. /\ \A i \in DOMAIN cols : C[i] = Scanned(cols, S, i)
      /\ \A i \in DOMAIN cols : C[i] \in ColumnNode /\ C[i].id = cols[i].id
  BY ScannedFacts
<1>4. C \in Seq(ColumnNode) /\ DOMAIN C = DOMAIN cols
  <2>1. DOMAIN C = DOMAIN cols /\ C = [i \in 1..Len(cols) |-> C[i]] BY <1>1
  <2> HIDE DEF C
  <2> QED BY <1>1, <1>3, <2>1
<1>5. \A i \in DOMAIN cols : i \in R <=> Verdict(cols, S, i) = "drop" OBVIOUS
<1> HIDE DEF C, R, B
<1>6. PICK f : KeptList(C, R, B, f) BY <1>2, <1>4, KeepFacts
<1>7. B \in Seq(ColumnNode) /\ Len(B) = Cardinality(DOMAIN C \ R) BY <1>2, <1>4, KeepFacts
<1>8. /\ f \in [DOMAIN B -> DOMAIN cols \ R] /\ DOMAIN f = DOMAIN B
      /\ \A m, n \in DOMAIN B : m < n => f[m] < f[n]
      /\ \A m \in DOMAIN B : B[m] = C[f[m]]
      /\ \A i \in DOMAIN cols \ R : \E m \in DOMAIN B : f[m] = i
  <2>1. DOMAIN B = 1..Cardinality(DOMAIN C \ R) BY <1>7
  <2>2. /\ f \in [1..Cardinality(DOMAIN C \ R) -> DOMAIN C \ R]
        /\ \A m, n \in DOMAIN f : m < n => f[m] < f[n]
        /\ \A i \in DOMAIN C \ R : \E m \in DOMAIN f : f[m] = i
    BY <1>6 DEF KeptList, KeptAt
  <2>3. \A m \in DOMAIN B : B[m] = C[f[m]] BY <1>6 DEF KeptList
  <2> QED BY <1>4, <2>1, <2>2, <2>3
<1>9. \A m \in DOMAIN B : f[m] \in DOMAIN cols /\ f[m] \notin R BY <1>8
<1>10. f \in [DOMAIN B -> DOMAIN cols]
  <2>1. f = [m \in DOMAIN B |-> f[m]] BY <1>8
  <2> QED BY <1>9, <2>1
<1>11. Thinned(cols, B, f)
  <2>1. \A m \in DOMAIN B : B[m].id = cols[f[m]].id BY <1>3, <1>8, <1>9
  <2> QED BY <1>8, <1>10, <2>1 DEF Thinned
<1>12. ScannedList(cols, S, B, f) BY <1>3, <1>5, <1>8, <1>9, <1>11 DEF ScannedList
<1> QED BY <1>7, <1>12 DEF B

\* What a scan leaves of a list whose ids are decreasing.
ScanResult(cols, S, B) ==
    /\ \A m \in DOMAIN B : \E i \in DOMAIN cols : B[m].id = cols[i].id
    /\ \A m, n \in DOMAIN B : m < n => B[n].id < B[m].id
    /\ \A i \in DOMAIN cols : cols[i].st \in {"pending", "submitting"} =>
          \E m \in DOMAIN B : B[m].id = cols[i].id /\ B[m].st = cols[i].st
    /\ 1 \in DOMAIN cols /\ cols[1].st = "pending" =>
          1 \in DOMAIN B /\ B[1].id = cols[1].id /\ B[1].st = "pending"
    /\ B # <<>> /\ ~StaysDirty(cols, S) =>
          \E i \in DOMAIN cols :
             /\ {j \in DOMAIN cols : Verdict(cols, S, j) = "valid"} = {i}
             /\ Len(B) = 1 /\ B[1].st = "stored" /\ B[1].committed /\ B[1].kbm = "prim"
             /\ B[1].id = cols[i].id /\ B[1].ikey = cols[i].ikey

\* Columns that wait stay, the newest of them in front; a key that is clean then has one
\* column, the one that is recorded.
LEMMA ScanLeaves ==
  ASSUME NEW cols \in Seq(ColumnNode), NEW S,
         \A i, j \in DOMAIN cols : i < j => cols[j].id < cols[i].id
  PROVE  ScanResult(cols, S, Rest(cols, S))
<1> DEFINE B == Rest(cols, S)
<1>1. B \in Seq(ColumnNode) BY RestFacts
<1>2. PICK f : ScannedList(cols, S, B, f) BY RestFacts
<1> HIDE DEF B
<1>3. /\ \A m \in DOMAIN B : f[m] \in DOMAIN cols /\ B[m].id = cols[f[m]].id
      /\ \A m, n \in DOMAIN B : m < n => f[m] < f[n]
      /\ \A m \in DOMAIN B : B[m] = Scanned(cols, S, f[m]) /\ Verdict(cols, S, f[m]) # "drop"
      /\ \A i \in DOMAIN cols : Verdict(cols, S, i) # "drop" => \E m \in DOMAIN B : f[m] = i
  BY <1>2 DEF ScannedList, Thinned
<1>4. \A m, n \in DOMAIN B : m < n => B[n].id < B[m].id BY <1>3
<1>5. \A m \in DOMAIN B : B[m].st = cols[f[m]].st BY <1>3, ScannedFacts
<1>6. \A i \in DOMAIN cols : cols[i].st \in {"pending", "submitting"} => \E m \in DOMAIN B : f[m] = i
  BY <1>3, VerdictFacts
<1>7. \A i \in DOMAIN cols : cols[i].st \in {"pending", "submitting"} =>
        \E m \in DOMAIN B : B[m].id = cols[i].id /\ B[m].st = cols[i].st
  BY <1>3, <1>5, <1>6
<1>8. ASSUME 1 \in DOMAIN cols, cols[1].st = "pending"
      PROVE  1 \in DOMAIN B /\ B[1].id = cols[1].id /\ B[1].st = "pending"
  <2>1. PICK m \in DOMAIN B : f[m] = 1 BY <1>6, <1>8
  <2>2. m \in Nat /\ 1 <= m /\ 1 \in DOMAIN B BY <1>1
  <2>3. f[1] \in Nat /\ 1 <= f[1] BY <1>3, <2>2
  <2>4. m = 1
    <3>1. ~(1 < m) BY <1>3, <2>1, <2>2, <2>3
    <3> QED BY <2>2, <3>1
  <2> QED BY <1>3, <1>5, <1>8, <2>1, <2>2, <2>4
<1>9. ASSUME B # <<>>, ~StaysDirty(cols, S)
      PROVE  \E i \in DOMAIN cols :
                /\ {j \in DOMAIN cols : Verdict(cols, S, j) = "valid"} = {i}
                /\ Len(B) = 1 /\ B[1].st = "stored" /\ B[1].committed /\ B[1].kbm = "prim"
                /\ B[1].id = cols[i].id /\ B[1].ikey = cols[i].ikey
  <2>1. \A i \in DOMAIN cols : Verdict(cols, S, i) \in {"valid", "drop"}
    BY <1>9, VerdictFacts DEF StaysDirty
  <2>2. \A m \in DOMAIN B : Verdict(cols, S, f[m]) = "valid" BY <1>3, <2>1
  <2>3. \A i, j \in DOMAIN cols :
          Verdict(cols, S, i) = "valid" /\ Verdict(cols, S, j) = "valid" => i = j
    BY VerdictFacts
  <2>4. \A m, n \in DOMAIN B : ~(m < n)
    <3> TAKE m, n \in DOMAIN B
    <3>1. f[m] = f[n] /\ f[m] \in Nat BY <1>3, <2>2, <2>3
    <3> QED BY <1>3, <3>1
  <2>5. 1 \in DOMAIN B /\ Len(B) \in DOMAIN B /\ Len(B) \in Nat /\ Len(B) # 0 BY <1>1, <1>9
  <2>6. Len(B) = 1
    <3>1. ~(1 < Len(B)) BY <2>4, <2>5
    <3>2. \A n \in Nat : n # 0 /\ ~(1 < n) => n = 1 OBVIOUS
    <3>3. Len(B) \in Nat /\ Len(B) # 0 BY <2>5
    <3> QED BY <3>1, <3>2, <3>3
  <2> DEFINE i == f[1]
  <2>7. i \in DOMAIN cols /\ Verdict(cols, S, i) = "valid" /\ B[1] = Scanned(cols, S, i)
    BY <1>3, <2>2, <2>5
  <2> HIDE DEF i
  <2>8. {j \in DOMAIN cols : Verdict(cols, S, j) = "valid"} = {i} BY <2>3, <2>7
  <2>9. cols[i].st = "stored" BY <2>7, VerdictFacts
  <2>10. /\ B[1].st = "stored" /\ B[1].committed /\ B[1].kbm = "prim"
         /\ B[1].id = cols[i].id /\ B[1].ikey = cols[i].ikey
    BY <2>7, <2>9, ScannedFacts
  <2> QED BY <2>6, <2>7, <2>8, <2>10
<1>10. \A m \in DOMAIN B : \E i \in DOMAIN cols : B[m].id = cols[i].id BY <1>3
<1> QED BY <1>4, <1>7, <1>8, <1>9, <1>10 DEF ScanResult, B

\* The key a flush scans next.
LEMMA NextKey ==
  ASSUME TableType, FlushesInv, NEW w \in Worker, fl[w].pc = "build", fl[w].todo # {}
  PROVE  LET k == MinOf(fl[w].todo) IN
         /\ k \in fl[w].todo /\ k \in Key /\ k \in fl[w].keys /\ TableOf[k] = fl[w].t
         /\ fl[w].t \in Table
<1> DEFINE S == fl[w].todo
<1>1. IsFlush(fl[w]) BY DEF TableType
<1>2. S \subseteq Key BY <1>1 DEF IsFlush
<1>3. S \subseteq Nat BY <1>2, StateAssumption
<1>4. PICK x : x \in S OBVIOUS
<1>5. S \subseteq fl[w].keys /\ (\A k \in fl[w].keys : TableOf[k] = fl[w].t) /\ fl[w].t \in Table
  BY DEF FlushesInv
<1> HIDE DEF S
<1>6. \E n \in S : \A m \in S : n <= m BY <1>3, <1>4, Smallest
<1>7. MinOf(S) \in S BY <1>6 DEF MinOf
<1> QED BY <1>2, <1>5, <1>7 DEF S

\* Flush x is what becomes of the flush of worker w when it has scanned key k.
Scans(w, k, x) ==
    /\ IsFlush(x) /\ fl' = [fl EXCEPT ![w] = x]
    /\ fl[w].pc = "build" /\ k \in fl[w].todo /\ k \in Key
    /\ x.pc = "build" /\ x.t = fl[w].t /\ x.keys = fl[w].keys /\ x.todo = fl[w].todo \ {k}
    /\ \A j \in Key : j # k => uk'[j] = uk[j] /\ SameRow(x.rows, fl[w].rows, j)
    /\ \A t \in Table : \A j \in Key : j # k => SameRow(sktdf'[t], sktdf[t], j)

\* The flushes after that.
LEMMA ScansFlushes ==
  ASSUME TableType, FlushesInv, NEW w \in Worker, NEW k, NEW x, Scans(w, k, x)
  PROVE  /\ fl' = [v \in Worker |-> fl'[v]] /\ \A v \in Worker : IsFlush(fl'[v])
         /\ fl'[w] = x /\ \A v \in Worker : v # w => fl'[v] = fl[v]
         /\ FlushesInv'
<1>1. fl = [v \in Worker |-> fl[v]] /\ \A v \in Worker : IsFlush(fl[v]) BY DEF TableType
<1>2. /\ fl' = [v \in Worker |-> fl'[v]] /\ fl'[w] = x /\ \A v \in Worker : v # w => fl'[v] = fl[v]
  BY <1>1 DEF Scans
<1>3. \A v \in Worker : IsFlush(fl'[v]) BY <1>1, <1>2 DEF Scans
<1>4. \A v \in Worker : /\ fl'[v].pc = fl[v].pc /\ fl'[v].t = fl[v].t /\ fl'[v].keys = fl[v].keys
                        /\ fl'[v].todo \subseteq fl[v].todo
  BY <1>2 DEF Scans
<1>5. \A v \in Worker : fl'[v].pc = "none" => fl'[v] = NoFlush
  <2>1. x.pc # "none" BY DEF Scans
  <2> QED BY <1>2, <2>1 DEF FlushesInv
<1>6. ASSUME NEW v \in Worker, NEW j \in Key, fl[v].pc # "none", TableOf[j] = fl[v].t,
             uk'[j].present, ~uk'[j].dirty
      PROVE  j \in fl[v].keys
  <2>1. CASE j = k
    <3>1. k \in fl[w].keys /\ TableOf[k] = fl[w].t /\ fl[w].pc # "none" BY DEF Scans, FlushesInv
    <3>2. v = w BY <1>6, <2>1, <3>1 DEF FlushesInv
    <3> QED BY <2>1, <3>1, <3>2
  <2>2. CASE j # k
    <3>1. uk'[j] = uk[j] BY <2>2 DEF Scans
    <3> QED BY <1>6, <3>1 DEF FlushesInv
  <2> QED BY <2>1, <2>2
<1>7. \A v \in Worker :
        /\ fl'[v].pc # "none" => fl'[v].t \in Table
        /\ fl'[v].pc \notin {"none", "build"} => fl'[v].todo = {}
        /\ fl'[v].todo \subseteq fl'[v].keys
        /\ \A j \in fl'[v].keys : TableOf[j] = fl'[v].t
  <2> TAKE v \in Worker
  <2>1. /\ fl[v].pc # "none" => fl[v].t \in Table
        /\ fl[v].pc \notin {"none", "build"} => fl[v].todo = {}
        /\ fl[v].todo \subseteq fl[v].keys
        /\ \A j \in fl[v].keys : TableOf[j] = fl[v].t
    BY DEF FlushesInv
  <2> QED BY <1>4, <2>1
<1>8. \A u, v \in Worker : fl'[u].pc # "none" /\ fl'[v].pc # "none" /\ fl'[u].t = fl'[v].t => u = v
  BY <1>4 DEF FlushesInv
<1>9. FlushesInv'
  <2>1. \A v \in Worker : \A j \in Key :
          fl'[v].pc # "none" /\ TableOf[j] = fl'[v].t /\ uk'[j].present /\ ~uk'[j].dirty
             => j \in fl'[v].keys
    BY <1>4, <1>6
  <2> QED BY <1>5, <1>7, <1>8, <2>1 DEF FlushesInv
<1> QED BY <1>2, <1>3, <1>9

\* Where the rows of keys are then.
LEMMA ScansRows ==
  ASSUME TableType, FlushesInv, NEW w \in Worker, NEW k, NEW x, Scans(w, k, x)
  PROVE  /\ RowsNow(k)' = x.rows
         /\ \A j \in Key : j # k => SameRow(RowsNow(j)', RowsNow(j), j)
<1>1. /\ fl'[w] = x /\ \A v \in Worker : v # w => fl'[v] = fl[v]
      /\ FlushesInv'
  BY ScansFlushes
<1>2. RowsNow(k)' = x.rows
  <2>1. k \in Key /\ k \in fl[w].keys BY DEF Scans, FlushesInv
  <2>2. fl'[w].pc # "none" /\ k \in fl'[w].keys \ fl'[w].todo BY <1>1, <2>1 DEF Scans
  <2>3. \A u, v \in Worker :
          (/\ fl'[u].pc # "none" /\ k \in fl'[u].keys \ fl'[u].todo
           /\ fl'[v].pc # "none" /\ k \in fl'[v].keys \ fl'[v].todo) => u = v
    BY <1>1 DEF FlushesInv
  <2>4. RowsIn(fl', sktdf', k) = fl'[w].rows BY <2>2, <2>3, RowsInFacts
  <2> QED BY <1>1, <2>4 DEF RowsNow
<1>3. ASSUME NEW j \in Key, j # k PROVE SameRow(RowsNow(j)', RowsNow(j), j)
  <2>1. SameRow(sktdf'[TableOf[j]], sktdf[TableOf[j]], j)
    <3>1. TableOf[j] \in Table BY StateAssumption
    <3> QED BY <1>3, <3>1 DEF Scans
  <2>2. ASSUME NEW v \in Worker
        PROVE  LET scans(f) == f[v].pc # "none" /\ j \in f[v].keys \ f[v].todo IN
               /\ scans(fl') <=> scans(fl)
               /\ scans(fl) => SameRow(fl'[v].rows, fl[v].rows, j)
    <3>1. CASE v = w
      <4>1. fl'[v] = x BY <1>1, <3>1
      <4>2. /\ fl[v].pc = "build" /\ x.pc = "build" /\ x.keys = fl[v].keys /\ x.todo = fl[v].todo \ {k}
            /\ SameRow(x.rows, fl[v].rows, j)
        BY <1>3, <3>1 DEF Scans
      <4> QED BY <1>3, <4>1, <4>2
    <3>2. CASE v # w
      <4>1. fl'[v] = fl[v] BY <1>1, <3>2
      <4> QED BY <4>1 DEF SameRow
    <3> QED BY <3>1, <3>2
  <2> QED BY <2>1, <2>2, RowKept
<1> QED BY <1>2, <1>3

\* Rows are writes of their keys then.
LEMMA ScansRowsInv ==
  ASSUME TableType, FlushesInv, RowsInv, NEW w \in Worker, NEW k, NEW x, Scans(w, k, x), hist' = hist,
         \A t \in Table : k \in DOMAIN sktdf'[t] => k \in DOMAIN sktdf[t] /\ sktdf'[t][k] = sktdf[t][k],
         uk'[k] = uk[k] \/ uk'[k].fetched \/ DOMAIN uk'[k].cols = {},
         k \in DOMAIN x.rows =>
            /\ x.rows[k].id \in DOMAIN hist /\ hist[x.rows[k].id].key = k
            /\ ~uk'[k].fetched => \A i \in DOMAIN uk'[k].cols : x.rows[k].id < uk'[k].cols[i].id
  PROVE  RowsInv'
<1> DEFINE older(j, row) == /\ row.id \in DOMAIN hist /\ hist[row.id].key = j
                            /\ ~uk[j].fetched =>
                                  \A i \in DOMAIN uk[j].cols : row.id < uk[j].cols[i].id
           olderp(j, row) == /\ row.id \in DOMAIN hist /\ hist[row.id].key = j
                             /\ ~uk'[j].fetched =>
                                   \A i \in DOMAIN uk'[j].cols : row.id < uk'[j].cols[i].id
<1>1. fl'[w] = x /\ \A v \in Worker : v # w => fl'[v] = fl[v] BY ScansFlushes
<1>2. ASSUME NEW j \in Key, NEW row, older(j, row) PROVE olderp(j, row)
  <2>1. CASE j = k
    <3>1. CASE uk'[k] = uk[k] BY <1>2, <2>1, <3>1
    <3>2. CASE uk'[k].fetched BY <1>2, <2>1, <3>2
    <3>3. CASE DOMAIN uk'[k].cols = {} BY <1>2, <2>1, <3>3
    <3> QED BY <3>1, <3>2, <3>3
  <2>2. CASE j # k
    <3>1. uk'[j] = uk[j] BY <2>2 DEF Scans
    <3> QED BY <1>2, <3>1
  <2> QED BY <2>1, <2>2
<1>3. ASSUME NEW j \in Key
      PROVE  /\ \A t \in Table : j \in DOMAIN sktdf[t] => TableOf[j] = t /\ older(j, sktdf[t][j])
             /\ \A v \in Worker : j \in DOMAIN fl[v].rows => TableOf[j] = fl[v].t /\ older(j, fl[v].rows[j])
  BY DEF RowsInv
<1>4. TableOf[k] = fl[w].t BY DEF Scans, FlushesInv
<1>5. ASSUME NEW j \in Key, NEW t \in Table, j \in DOMAIN sktdf'[t]
      PROVE  TableOf[j] = t /\ olderp(j, sktdf'[t][j])
  <2>1. j \in DOMAIN sktdf[t] /\ sktdf'[t][j] = sktdf[t][j]
    <3>1. CASE j = k BY <1>5, <3>1
    <3>2. CASE j # k
      <4>1. SameRow(sktdf'[t], sktdf[t], j) BY <3>2 DEF Scans
      <4> QED BY <1>5, <4>1 DEF SameRow
    <3> QED BY <3>1, <3>2
  <2>2. TableOf[j] = t /\ older(j, sktdf[t][j]) BY <1>3, <2>1
  <2> HIDE DEF older, olderp
  <2> QED BY <1>2, <2>1, <2>2
<1>6. ASSUME NEW j \in Key, NEW v \in Worker, j \in DOMAIN fl'[v].rows
      PROVE  TableOf[j] = fl'[v].t /\ olderp(j, fl'[v].rows[j])
  <2>1. CASE v # w
    <3>1. fl'[v] = fl[v] BY <1>1, <2>1
    <3>2. TableOf[j] = fl[v].t /\ older(j, fl[v].rows[j]) BY <1>3, <1>6, <3>1
    <3> HIDE DEF older, olderp
    <3> QED BY <1>2, <3>1, <3>2
  <2>2. CASE v = w /\ j = k
    <3>1. fl'[v] = x /\ x.t = fl[w].t BY <1>1, <2>2 DEF Scans
    <3> QED BY <1>4, <1>6, <2>2, <3>1
  <2>3. CASE v = w /\ j # k
    <3>1. fl'[v] = x /\ x.t = fl[w].t /\ SameRow(x.rows, fl[w].rows, j) BY <1>1, <2>3 DEF Scans
    <3>2. j \in DOMAIN fl[w].rows /\ fl'[v].rows[j] = fl[w].rows[j] BY <1>6, <3>1 DEF SameRow
    <3>3. TableOf[j] = fl[w].t /\ older(j, fl[w].rows[j]) BY <1>3, <3>2
    <3>4. olderp(j, fl[w].rows[j])
      <4> HIDE DEF older, olderp
      <4> QED BY <1>2, <3>3
    <3> HIDE DEF older, olderp
    <3> QED BY <2>3, <3>1, <3>2, <3>3, <3>4
  <2> QED BY <2>1, <2>2, <2>3
<1> QED BY <1>5, <1>6 DEF RowsInv

\* A row is put among the others.
LEMMA WithRow ==
  ASSUME NEW f, IsRows(f), NEW k \in Key, NEW row \in RowOf
  PROVE  /\ IsRows(With(f, k, row)) /\ k \in DOMAIN With(f, k, row) /\ With(f, k, row)[k] = row
         /\ \A j : j # k => SameRow(With(f, k, row), f, j)
BY DEF IsRows, With, SameRow

\* The scan of a clean key.
LEMMA FlushCleanColumns ==
  ASSUME ColumnInv, NEW w \in Worker, NEW k, k = MinOf(fl[w].todo), fl[w].pc = "build", fl[w].todo # {},
         HasRow(k), fl' = [fl EXCEPT ![w].todo = @ \ {k}, ![w].rows = With(@, k, Row(k))],
         UNCHANGED <<seq, uk, reqs, hist, sktdf, pending, wr, wk, ikeys>>
  PROVE  ColumnInv'
<1> DEFINE y == [fl[w] EXCEPT !.todo = fl[w].todo \ {k}]
           rows == With(fl[w].rows, k, Row(k))
           x == [y EXCEPT !.rows = rows]
<1>1. /\ UserType /\ WorkerType /\ TableType /\ ColumnsInv /\ RowsInv /\ FlushesInv
      /\ Places /\ WorkerPlaces /\ OpenInv /\ ClosedInv /\ CleanKey
  BY DEF ColumnInv
<1>2. /\ k \in fl[w].todo /\ k \in Key /\ k \in fl[w].keys /\ TableOf[k] = fl[w].t
      /\ fl[w].t \in Table
  BY <1>1, NextKey
<1>3. IsFlush(fl[w]) /\ IsRows(fl[w].rows) BY <1>1 DEF TableType, IsFlush
<1>4. /\ Row(k) = sktdf[TableOf[k]][k] /\ k \in DOMAIN sktdf[TableOf[k]] /\ Row(k) \in RowOf
  BY <1>1, <1>2 DEF HasRow, Row, TableType, IsRows
<1>5. /\ IsRows(rows) /\ k \in DOMAIN rows /\ rows[k] = Row(k)
      /\ \A j : j # k => SameRow(rows, fl[w].rows, j)
  BY <1>2, <1>3, <1>4, WithRow
<1>6. fl' = [fl EXCEPT ![w] = x]
  <2>1. fl = [v \in Worker |-> fl[v]] BY <1>1 DEF TableType
  <2> HIDE DEF rows
  <2>2. fl' = [fl EXCEPT ![w].todo = fl[w].todo \ {k}, ![w].rows = rows] BY DEF rows
  <2> QED BY <2>1, <2>2
<1> HIDE DEF rows
<1>7. /\ IsFlush(x) /\ x.pc = "build" /\ x.t = fl[w].t /\ x.keys = fl[w].keys
      /\ x.todo = fl[w].todo \ {k} /\ x.rows = rows
  <2>1. fl[w].todo \ {k} \in SUBSET Key BY <1>3 DEF IsFlush
  <2>2. /\ IsFlush(y) /\ y.pc = "build" /\ y.t = fl[w].t /\ y.keys = fl[w].keys
        /\ y.todo = fl[w].todo \ {k}
    BY <1>3, <2>1 DEF IsFlush
  <2> HIDE DEF y
  <2> QED BY <1>5, <2>2 DEF IsFlush
<1> HIDE DEF x
<1>8. Scans(w, k, x)
  <2>1. \A t \in Table : \A j \in Key : SameRow(sktdf'[t], sktdf[t], j) BY DEF SameRow
  <2> QED BY <1>2, <1>5, <1>6, <1>7, <2>1 DEF Scans
<1>9. TableType' /\ FlushesInv'
  <2>1. /\ fl' = [v \in Worker |-> fl'[v]] /\ \A v \in Worker : IsFlush(fl'[v])
        /\ FlushesInv'
    BY <1>1, <1>8, ScansFlushes
  <2> QED BY <1>1, <2>1 DEF TableType
<1>10. RowsInv'
  <2>1. /\ Row(k).id \in DOMAIN hist /\ hist[Row(k).id].key = k
        /\ ~uk[k].fetched => \A i \in DOMAIN uk[k].cols : Row(k).id < uk[k].cols[i].id
    BY <1>1, <1>2, <1>4 DEF RowsInv
  <2> QED BY <1>1, <1>5, <1>7, <1>8, <2>1, ScansRowsInv
<1>11. CleanKey'
  <2>1. /\ RowsNow(k)' = rows
        /\ \A j \in Key : j # k => SameRow(RowsNow(j)', RowsNow(j), j)
    BY <1>1, <1>7, <1>8, ScansRows
  <2>2. ASSUME NEW j \in Key PROVE IsClean(j)'
    <3>1. IsClean(j) BY <1>1, CleanIs
    <3>2. CASE j # k BY <2>1, <3>1, <3>2, CleanKept
    <3>3. CASE j = k
      <4>1. \A v \in Worker : fl[v].pc # "none" => k \notin fl[v].keys \ fl[v].todo
        BY <1>1, <1>2 DEF FlushesInv
      <4>2. RowsIn(fl, sktdf, k) = sktdf[TableOf[k]] BY <4>1, RowsInFacts
      <4>3. RowsNow(k) = sktdf[TableOf[k]] BY <4>2 DEF RowsNow
      <4>4. RowsNow(k)[k] = RowsNow(k)'[k] /\ k \in DOMAIN RowsNow(k)' BY <1>4, <1>5, <2>1, <4>3
      <4> QED BY <3>1, <3>3, <4>4 DEF IsClean, Newest
    <3> QED BY <3>2, <3>3
  <2> QED BY <2>2, CleanIs
<1>12. ColumnsInv' /\ OpenInv' /\ ClosedInv' BY <1>1, KeysFrame
<1>13. Places' /\ WorkerPlaces' BY <1>1, QueueFrame
<1>14. UserType' /\ WorkerType' BY <1>1 DEF UserType, WorkerType
<1> QED BY <1>9, <1>10, <1>11, <1>12, <1>13, <1>14 DEF ColumnInv

\* The scan of another key.
LEMMA FlushScanColumns ==
  ASSUME ColumnInv, NEW w \in Worker, NEW k, k = MinOf(fl[w].todo), fl[w].pc = "build", fl[w].todo # {},
         ~(HasRow(k) /\ ~uk[k].dirty), NEW cols, cols = Columns(k), NEW S, NEW ents, NEW valid,
         valid = {i \in DOMAIN cols : Verdict(cols, S, i) = "valid"},
         fl' = [fl EXCEPT ![w] =
                   [fl[w] EXCEPT !.todo = @ \ {k}, !.ents = ents,
                                 !.rows = IF valid = {} THEN @
                                          ELSE With(@, k, NewRow(cols[MinOf(valid)]))]],
         uk' = [uk EXCEPT ![k] =
                   IF Rest(cols, S) = <<>> THEN NoUserKey
                   ELSE [uk[k] EXCEPT !.fetched = TRUE, !.dirty = StaysDirty(cols, S),
                                      !.cols = Rest(cols, S)]],
         sktdf' = [sktdf EXCEPT ![fl[w].t] = Remove(@, k)],
         UNCHANGED <<seq, reqs, hist, pending, wr, wk, ikeys>>
  PROVE  ColumnInv'
<1> DEFINE B == Rest(cols, S)
           sd == StaysDirty(cols, S)
           rows == IF valid = {} THEN fl[w].rows ELSE With(fl[w].rows, k, NewRow(cols[MinOf(valid)]))
           y1 == [fl[w] EXCEPT !.todo = fl[w].todo \ {k}]
           y2 == [y1 EXCEPT !.ents = ents]
           x == [y2 EXCEPT !.rows = rows]
           u1 == [uk[k] EXCEPT !.fetched = TRUE]
           u2 == [u1 EXCEPT !.dirty = sd]
           u3 == [u2 EXCEPT !.cols = B]
           u == IF B = <<>> THEN NoUserKey ELSE u3
<1>1. /\ UserType /\ WorkerType /\ TableType /\ ColumnsInv /\ RowsInv /\ FlushesInv
      /\ Places /\ WorkerPlaces /\ OpenInv /\ ClosedInv /\ CleanKey
  BY DEF ColumnInv
<1>2. /\ k \in fl[w].todo /\ k \in Key /\ k \in fl[w].keys /\ TableOf[k] = fl[w].t
      /\ fl[w].t \in Table
  BY <1>1, NextKey
<1>3. IsFlush(fl[w]) /\ IsRows(fl[w].rows) BY <1>1 DEF TableType, IsFlush
<1>4. /\ cols \in Seq(ColumnNode)
      /\ \A i \in DOMAIN uk[k].cols : i \in DOMAIN cols /\ cols[i] = uk[k].cols[i]
      /\ \A i \in DOMAIN cols : cols[i].id \in DOMAIN hist /\ hist[cols[i].id].key = k
      /\ \A i, j \in DOMAIN cols : i < j => cols[j].id < cols[i].id
      /\ cols # <<>> => uk[k].cols # <<>> \/ HasRow(k)
  BY <1>1, <1>2, ColumnsFacts
<1>5. B \in Seq(ColumnNode) BY <1>4, RestFacts
<1>6. ScanResult(cols, S, B) BY <1>4, ScanLeaves
<1>7. sd \in BOOLEAN BY DEF StaysDirty
<1>8. uk' = [uk EXCEPT ![k] = u] OBVIOUS
<1> HIDE DEF B, sd
<1>9. B # <<>> => uk[k].present
  <2> HAVE B # <<>>
  <2>1. PICK i \in DOMAIN cols : TRUE
    <3>1. 1 \in DOMAIN B BY <1>5
    <3> QED BY <1>6, <3>1 DEF ScanResult
  <2>2. cols # <<>> BY <2>1
  <2>3. ASSUME ~uk[k].present PROVE FALSE
    <3>1. uk[k] = NoUserKey BY <1>1, <1>2, <2>3 DEF ColumnsInv
    <3>2. uk[k].cols = <<>> /\ ~uk[k].dirty BY <3>1 DEF NoUserKey
    <3> QED BY <1>4, <2>2, <3>2
  <2> QED BY <2>3
<1>10. uk[k] \in UserKey BY <1>1, <1>2 DEF UserType
<1>11. /\ u \in UserKey
       /\ B = <<>> => u = NoUserKey
       /\ B # <<>> => /\ u.present /\ u.fetched /\ u.dirty = sd /\ u.cols = B
                      /\ u.req = uk[k].req
  <2>1. CASE B = <<>> BY <2>1, NoUserKeyIs
  <2>2. CASE B # <<>>
    <3>1. u1 \in UserKey /\ u1.fetched = TRUE /\ u1.present = uk[k].present /\ u1.req = uk[k].req
      BY <1>10 DEF UserKey
    <3> HIDE DEF u1
    <3>2. u2 \in UserKey /\ u2.fetched = TRUE /\ u2.present = uk[k].present /\ u2.req = uk[k].req
          /\ u2.dirty = sd
      BY <1>7, <3>1 DEF UserKey
    <3> HIDE DEF u2
    <3>3. u3 \in UserKey /\ u3.fetched = TRUE /\ u3.present = uk[k].present /\ u3.req = uk[k].req
          /\ u3.dirty = sd /\ u3.cols = B
      BY <1>5, <3>2 DEF UserKey
    <3> HIDE DEF u3
    <3>4. u = u3 BY <2>2
    <3> QED BY <1>9, <2>2, <3>3, <3>4
  <2> QED BY <2>1, <2>2
<1> HIDE DEF u
<1>12. uk' \in [Key -> UserKey] /\ uk'[k] = u /\ \A j \in Key : j # k => uk'[j] = uk[j]
  <2>1. uk \in [Key -> UserKey] BY <1>1 DEF UserType
  <2> QED BY <1>2, <1>8, <1>11, <2>1
<1>13. UserType' /\ WorkerType' BY <1>1, <1>12 DEF UserType, WorkerType
<1>14. uk'[k].fetched \/ DOMAIN uk'[k].cols = {}
  <2>1. CASE B = <<>> BY <1>11, <1>12, <2>1, NoUserKeyIs
  <2>2. CASE B # <<>> BY <1>11, <1>12, <2>2
  <2> QED BY <2>1, <2>2
<1>15. /\ IsRows(rows) /\ \A j : j # k => SameRow(rows, fl[w].rows, j)
       /\ k \in DOMAIN rows => rows[k].id \in DOMAIN hist /\ hist[rows[k].id].key = k
       /\ \A i : valid = {i} =>
             k \in DOMAIN rows /\ rows[k].id = cols[i].id /\ rows[k].ikey = cols[i].ikey
  <2>1. CASE valid = {}
    <3>1. rows = fl[w].rows BY <2>1
    <3>2. k \in DOMAIN fl[w].rows =>
            fl[w].rows[k].id \in DOMAIN hist /\ hist[fl[w].rows[k].id].key = k
      BY <1>1, <1>2 DEF RowsInv
    <3> HIDE DEF rows
    <3> QED BY <1>3, <2>1, <3>1, <3>2 DEF SameRow
  <2>2. CASE valid # {}
    <3> DEFINE n == MinOf(valid)
    <3>1. n \in valid
      <4>1. valid \subseteq Nat BY <1>4
      <4>2. \E i \in valid : \A j \in valid : i <= j BY <2>2, <4>1, Smallest
      <4> QED BY <4>2 DEF MinOf
    <3>2. n \in DOMAIN cols BY <3>1
    <3> HIDE DEF n
    <3>3. /\ NewRow(cols[n]) \in RowOf /\ NewRow(cols[n]).id = cols[n].id
          /\ NewRow(cols[n]).ikey = cols[n].ikey
      <4>1. cols[n] \in ColumnNode BY <1>4, <3>2
      <4>2. cols[n].id \in Nat /\ cols[n].begin \in Nat /\ cols[n].ikey \in Nat
        BY <4>1 DEF ColumnNode
      <4> QED BY <4>2 DEF NewRow, RowOf
    <3>4. rows = With(fl[w].rows, k, NewRow(cols[n])) BY <2>2 DEF n
    <3> HIDE DEF rows
    <3>5. /\ IsRows(rows) /\ k \in DOMAIN rows /\ rows[k] = NewRow(cols[n])
          /\ \A j : j # k => SameRow(rows, fl[w].rows, j)
      BY <1>2, <1>3, <3>3, <3>4, WithRow
    <3>6. \A i : valid = {i} => i = n BY <3>1
    <3>7. cols[n].id \in DOMAIN hist /\ hist[cols[n].id].key = k BY <1>4, <3>2
    <3> QED BY <3>3, <3>5, <3>6, <3>7
  <2> QED BY <2>1, <2>2
<1>16. fl' = [fl EXCEPT ![w] = x]
  <2> HIDE DEF rows
  <2>1. fl' = [fl EXCEPT ![w] = [fl[w] EXCEPT !.todo = fl[w].todo \ {k}, !.ents = ents, !.rows = rows]]
    BY DEF rows
  <2> QED BY <2>1
<1> HIDE DEF rows
<1>17. /\ IsFlush(x) /\ x.pc = "build" /\ x.t = fl[w].t /\ x.keys = fl[w].keys
       /\ x.todo = fl[w].todo \ {k} /\ x.rows = rows
  <2>1. fl[w].todo \ {k} \in SUBSET Key BY <1>3 DEF IsFlush
  <2>2. /\ IsFlush(y1) /\ y1.pc = "build" /\ y1.t = fl[w].t /\ y1.keys = fl[w].keys
        /\ y1.todo = fl[w].todo \ {k}
    BY <1>3, <2>1 DEF IsFlush
  <2> HIDE DEF y1
  <2>3. /\ IsFlush(y2) /\ y2.pc = "build" /\ y2.t = fl[w].t /\ y2.keys = fl[w].keys
        /\ y2.todo = fl[w].todo \ {k}
    BY <2>2 DEF IsFlush
  <2> HIDE DEF y2
  <2> QED BY <1>15, <2>3 DEF IsFlush
<1> HIDE DEF x
<1>18. /\ sktdf' = [t \in Table |-> sktdf'[t]] /\ \A t \in Table : IsRows(sktdf'[t])
       /\ \A t \in Table : \A j \in Key : j # k => SameRow(sktdf'[t], sktdf[t], j)
       /\ \A t \in Table : k \notin DOMAIN sktdf'[t]
  <2>1. /\ sktdf = [t \in Table |-> sktdf[t]] /\ \A t \in Table : IsRows(sktdf[t])
    BY <1>1 DEF TableType
  <2>2. \A t \in Table : k \in DOMAIN sktdf[t] => t = fl[w].t BY <1>1, <1>2 DEF RowsInv
  <2>3. sktdf' = [t \in Table |-> sktdf'[t]] BY <2>1
  <2>4. ASSUME NEW t \in Table
        PROVE  /\ IsRows(sktdf'[t]) /\ k \notin DOMAIN sktdf'[t]
               /\ \A j \in Key : j # k => SameRow(sktdf'[t], sktdf[t], j)
    <3>1. CASE t = fl[w].t
      <4>1. sktdf'[t] = Remove(sktdf[t], k) BY <1>2, <2>1, <3>1
      <4>2. IsRows(sktdf[t]) BY <2>1
      <4> QED BY <4>1, <4>2 DEF Remove, IsRows, SameRow
    <3>2. CASE t # fl[w].t
      <4>1. sktdf'[t] = sktdf[t] BY <2>1, <3>2
      <4> QED BY <2>1, <2>2, <3>2, <4>1 DEF SameRow
    <3> QED BY <3>1, <3>2
  <2> QED BY <2>3, <2>4
<1>19. Scans(w, k, x) BY <1>2, <1>12, <1>15, <1>16, <1>17, <1>18 DEF Scans
<1>20. TableType' /\ FlushesInv'
  <2>1. /\ fl' = [v \in Worker |-> fl'[v]] /\ \A v \in Worker : IsFlush(fl'[v])
        /\ FlushesInv'
    BY <1>1, <1>19, ScansFlushes
  <2> QED BY <1>18, <2>1 DEF TableType
<1>21. RowsInv'
  <2>1. ~uk'[k].fetched => \A i \in DOMAIN uk'[k].cols : x.rows[k].id < uk'[k].cols[i].id BY <1>14
  <2> QED BY <1>1, <1>14, <1>15, <1>17, <1>18, <1>19, <2>1, ScansRowsInv
<1>22. CleanKey'
  <2>1. /\ RowsNow(k)' = rows
        /\ \A j \in Key : j # k => SameRow(RowsNow(j)', RowsNow(j), j)
    BY <1>1, <1>17, <1>19, ScansRows
  <2>2. ASSUME NEW j \in Key PROVE IsClean(j)'
    <3>1. IsClean(j) BY <1>1, CleanIs
    <3>2. CASE j # k BY <1>12, <2>1, <3>1, <3>2, CleanKept
    <3>3. CASE j = k
      <4>1. SUFFICES ASSUME uk'[k].present, ~uk'[k].dirty PROVE IsClean(k)' BY <3>3 DEF IsClean
      <4>2. B # <<>> BY <1>11, <1>12, <4>1, NoUserKeyIs
      <4>3. uk'[k].fetched /\ uk'[k].cols = B /\ ~sd BY <1>11, <1>12, <4>1, <4>2
      <4>4. PICK i \in DOMAIN cols :
               /\ valid = {i}
               /\ Len(B) = 1 /\ B[1].st = "stored" /\ B[1].committed /\ B[1].kbm = "prim"
               /\ B[1].id = cols[i].id /\ B[1].ikey = cols[i].ikey
        BY <1>6, <4>2, <4>3 DEF ScanResult, sd
      <4>5. k \in DOMAIN rows /\ rows[k].id = B[1].id /\ rows[k].ikey = B[1].ikey BY <1>15, <4>4
      <4> QED BY <2>1, <4>3, <4>4, <4>5 DEF IsClean, Newest
    <3> QED BY <3>2, <3>3
  <2> QED BY <2>2, CleanIs
<1>23. ColumnsInv'
  <2>1. ASSUME NEW j \in Key
        PROVE  /\ ~uk'[j].present => uk'[j] = NoUserKey
               /\ uk'[j].present => uk'[j].cols # <<>>
               /\ \A i \in DOMAIN uk'[j].cols :
                     uk'[j].cols[i].id \in DOMAIN hist /\ hist[uk'[j].cols[i].id].key = j
               /\ \A i, n \in DOMAIN uk'[j].cols : i < n => uk'[j].cols[n].id < uk'[j].cols[i].id
    <3>1. CASE j # k BY <1>1, <1>12, <3>1 DEF ColumnsInv
    <3>2. CASE j = k /\ B = <<>>
      <4>1. uk'[j] = NoUserKey BY <1>11, <1>12, <3>2
      <4> QED BY <4>1, NoUserKeyIs
    <3>3. CASE j = k /\ B # <<>>
      <4>1. uk'[j].present /\ uk'[j].cols = B BY <1>11, <1>12, <3>3
      <4>2. /\ \A m \in DOMAIN B : \E i \in DOMAIN cols : B[m].id = cols[i].id
            /\ \A m, n \in DOMAIN B : m < n => B[n].id < B[m].id
        BY <1>6 DEF ScanResult
      <4>3. \A i \in DOMAIN cols : cols[i].id \in DOMAIN hist /\ hist[cols[i].id].key = j BY <1>4, <3>3
      <4>4. \A m \in DOMAIN B : B[m].id \in DOMAIN hist /\ hist[B[m].id].key = j BY ONLY <4>2, <4>3
      <4> QED BY ONLY <3>3, <4>1, <4>2, <4>4
    <3> QED BY <3>1, <3>2, <3>3
  <2> QED BY <2>1 DEF ColumnsInv
<1>24. Places' /\ WorkerPlaces' BY <1>1, QueueFrame
<1>25. ASSUME NEW i \in DOMAIN uk[k].cols, uk[k].cols[i].st \in {"pending", "submitting"}
       PROVE  /\ B # <<>> /\ uk'[k].req = uk[k].req /\ uk'[k].cols = B
              /\ \E m \in DOMAIN B : B[m].id = uk[k].cols[i].id /\ B[m].st = uk[k].cols[i].st
  <2>1. i \in DOMAIN cols /\ cols[i] = uk[k].cols[i] BY <1>4
  <2>2. PICK m \in DOMAIN B : B[m].id = cols[i].id /\ B[m].st = cols[i].st
    BY <1>6, <1>25, <2>1 DEF ScanResult
  <2>3. B # <<>> BY <2>2
  <2> QED BY <1>11, <1>12, <2>1, <2>2, <2>3
<1>26. OpenInv'
  <2>1. \A j \in Key : uk[j].req # 0 =>
          uk[j].req \in DOMAIN reqs /\ reqs[uk[j].req].key = j /\ reqs[uk[j].req].latest = 0
    BY <1>1 DEF OpenInv
  <2>2. \A j \in Key : uk'[j].req # 0 => uk'[j].req = uk[j].req
    <3> TAKE j \in Key
    <3>1. CASE j # k BY <1>12, <3>1
    <3>2. CASE j = k /\ B = <<>> BY <1>11, <1>12, <3>2, NoUserKeyIs
    <3>3. CASE j = k /\ B # <<>> BY <1>11, <1>12, <3>3
    <3> QED BY <3>1, <3>2, <3>3
  <2>3. \A j \in Key : uk'[j].req # 0 =>
          uk'[j].req \in DOMAIN reqs' /\ reqs'[uk'[j].req].key = j /\ reqs'[uk'[j].req].latest = 0
    BY <2>1, <2>2
  <2>4. ASSUME NEW y \in DOMAIN reqs, reqs[y].latest = 0
        PROVE  LET j == reqs[y].key IN
               /\ uk'[j].req = y /\ uk'[j].cols # <<>> /\ uk'[j].cols[1].st = "pending"
               /\ \A z \in DOMAIN reqs : reqs[z].latest # uk'[j].cols[1].id
    <3> DEFINE j == reqs[y].key
    <3>2. /\ uk[j].req = y /\ uk[j].cols # <<>> /\ uk[j].cols[1].st = "pending"
          /\ \A z \in DOMAIN reqs : reqs[z].latest # uk[j].cols[1].id
      BY <1>1, <2>4 DEF OpenInv, NoColumns, Newest
    <3>3. j \in Key BY <1>1, <2>4 DEF UserType, AreRequests, IsRequest
    <3> HIDE DEF j
    <3>4. 1 \in DOMAIN uk[j].cols BY <1>1, <3>2, <3>3, NewestWrite
    <3>5. /\ uk'[j].req = y /\ uk'[j].cols # <<>>
          /\ uk'[j].cols[1].id = uk[j].cols[1].id /\ uk'[j].cols[1].st = "pending"
      <4>1. CASE j = k
        <5>1. B # <<>> /\ uk'[k].req = uk[k].req /\ uk'[k].cols = B BY <1>25, <3>2, <3>4, <4>1
        <5>2. 1 \in DOMAIN cols /\ cols[1] = uk[k].cols[1] BY <1>4, <3>4, <4>1
        <5>3. B[1].id = cols[1].id /\ B[1].st = "pending" BY <1>6, <3>2, <4>1, <5>2 DEF ScanResult
        <5> QED BY <3>2, <4>1, <5>1, <5>2, <5>3
      <4>2. CASE j # k BY <1>12, <3>2, <3>3, <4>2
      <4> QED BY <4>1, <4>2
    <3> QED BY <3>2, <3>5 DEF j
  <2>5. reqs' = reqs OBVIOUS
  <2>6. \A y \in DOMAIN reqs' : reqs'[y].latest = 0 =>
          LET j == reqs'[y].key IN
          /\ uk'[j].req = y /\ uk'[j].cols # <<>> /\ uk'[j].cols[1].st = "pending"
          /\ \A z \in DOMAIN reqs' : reqs'[z].latest # uk'[j].cols[1].id
    <3> TAKE y \in DOMAIN reqs'
    <3> HAVE reqs'[y].latest = 0
    <3>1. y \in DOMAIN reqs /\ reqs[y].latest = 0 BY <2>5
    <3> QED BY ONLY <2>4, <2>5, <3>1
  <2> QED BY ONLY <2>3, <2>6 DEF OpenInv, NoColumns, Newest
<1>27. ClosedInv'
  <2>1. ASSUME NEW y \in DOMAIN reqs, reqs[y].latest # 0
        PROVE  /\ \E i \in DOMAIN uk'[reqs[y].key].cols :
                     /\ uk'[reqs[y].key].cols[i].id = reqs[y].latest
                     /\ uk'[reqs[y].key].cols[i].st \in {"pending", "submitting"}
               /\ \A z \in DOMAIN reqs : reqs[z].latest = reqs[y].latest => z = y
    <3> DEFINE j == reqs[y].key
    <3>2. /\ \E i \in DOMAIN uk[j].cols :
                /\ uk[j].cols[i].id = reqs[y].latest
                /\ uk[j].cols[i].st \in {"pending", "submitting"}
          /\ \A z \in DOMAIN reqs : reqs[z].latest = reqs[y].latest => z = y
      BY <1>1, <2>1 DEF ClosedInv
    <3>3. j \in Key BY <1>1, <2>1 DEF UserType, AreRequests, IsRequest
    <3> HIDE DEF j
    <3>4. PICK i \in DOMAIN uk[j].cols :
             uk[j].cols[i].id = reqs[y].latest /\ uk[j].cols[i].st \in {"pending", "submitting"}
      BY <3>2
    <3>5. \E m \in DOMAIN uk'[j].cols : /\ uk'[j].cols[m].id = uk[j].cols[i].id
                                        /\ uk'[j].cols[m].st = uk[j].cols[i].st
      <4>1. CASE j = k
        <5>1. i \in DOMAIN uk[k].cols /\ uk[k].cols[i].st \in {"pending", "submitting"}
          BY <3>4, <4>1
        <5>2. PICK m \in DOMAIN B : B[m].id = uk[k].cols[i].id /\ B[m].st = uk[k].cols[i].st
          BY <1>25, <5>1
        <5>3. uk'[k].cols = B BY <1>25, <5>1
        <5> QED BY <4>1, <5>2, <5>3
      <4>2. CASE j # k BY <1>12, <3>3, <3>4, <4>2
      <4> QED BY <4>1, <4>2
    <3> QED BY <3>2, <3>4, <3>5 DEF j
  <2>2. reqs' = reqs OBVIOUS
  <2> QED BY ONLY <2>1, <2>2 DEF ClosedInv
<1> QED BY <1>13, <1>20, <1>21, <1>22, <1>23, <1>24, <1>26, <1>27 DEF ColumnInv

\* A flush scans a key.
LEMMA FlushBuildColumns ==
  ASSUME ColumnInv, NEW w \in Worker, FlushBuild(w)
  PROVE  ColumnInv'
<1> DEFINE k == MinOf(fl[w].todo)
           S == fl[w].snaps
           cols == Columns(k)
           valid == {i \in DOMAIN cols : Verdict(cols, S, i) = "valid"}
<1>1. /\ fl[w].pc = "build" /\ fl[w].todo # {}
      /\ UNCHANGED <<seq, reqs, hist, pending, wr, wk, ikeys>>
  BY DEF FlushBuild
<1>2. CASE HasRow(k) /\ ~uk[k].dirty
  <2>1. /\ fl' = [fl EXCEPT ![w].todo = @ \ {k}, ![w].rows = With(@, k, Row(k))]
        /\ UNCHANGED <<uk, sktdf>>
    BY <1>2 DEF FlushBuild
  <2> HIDE DEF k
  <2> QED BY <1>1, <1>2, <2>1, FlushCleanColumns DEF k
<1>3. CASE ~(HasRow(k) /\ ~uk[k].dirty)
  <2>1. /\ uk' = [uk EXCEPT ![k] =
                     IF Rest(cols, S) = <<>> THEN NoUserKey
                     ELSE [uk[k] EXCEPT !.fetched = TRUE, !.dirty = StaysDirty(cols, S),
                                        !.cols = Rest(cols, S)]]
        /\ sktdf' = [sktdf EXCEPT ![fl[w].t] = Remove(@, k)]
    BY <1>3 DEF FlushBuild, Rest
  <2>2. PICK ents :
          fl' = [fl EXCEPT ![w] =
                    [fl[w] EXCEPT !.todo = @ \ {k}, !.ents = ents,
                                  !.rows = IF valid = {} THEN @
                                           ELSE With(@, k, NewRow(cols[MinOf(valid)]))]]
    BY <1>3 DEF FlushBuild
  <2> QED BY <1>1, <1>3, <2>1, <2>2, FlushScanColumns
<1> QED BY <1>2, <1>3

-----------------------------------------------------------------------------
(* All steps. *)

\* The largest of a set that has one.
LEMMA MaxOfFacts ==
  ASSUME NEW S \in SUBSET Nat, NEW n \in S, \A m \in S : m <= n
  PROVE  MaxOf(S) = n
<1> DEFINE x == MaxOf(S)
<1>1. x \in S /\ \A m \in S : m <= x BY DEF MaxOf
<1>2. x \in Nat /\ n \in Nat /\ x <= n /\ n <= x BY <1>1
<1> HIDE DEF x
<1>3. x = n BY <1>2
<1> QED BY <1>3 DEF x

\* The database as it is opened.
LEMMA InitColumns ==
  ASSUME Init
  PROVE  ColumnInv
<1>1. PICK load \in Workloads :
         /\ Opened(load.stored)
         /\ wr = [p \in Writer |-> [pc |-> "store", b |-> NoBatch, todo |-> load.batches[p], rq |-> 0]]
  BY DEF Init, InitState
<1> DEFINE S == load.stored
<1>2. /\ S \subseteq Key /\ (\E n \in S \cup {0} : \A k \in S : k <= n)
      /\ load.batches \in [Writer -> Seq(Seq(Op))]
  BY WorkloadAssumption DEF Op
<1>3. /\ seq = MaxOf(S \cup {0})
      /\ hist = [k \in S |-> [key |-> k, del |-> FALSE, tid |-> NoTrxn]]
      /\ sktdf = OpenedTables(S)
      /\ ikeys = [next |-> FirstBlock + MaxOf(Worker) + 1, own |-> [w \in Worker |-> FirstBlock + w]]
  BY <1>1 DEF Opened
<1>4. /\ pending = <<>> /\ reqs = Empty /\ uk = [k \in Key |-> NoUserKey]
      /\ wk = [w \in Worker |-> IdleWorker] /\ fl = [w \in Worker |-> NoFlush]
  BY DEF Init, InitState
<1> HIDE DEF S
<1>5. seq \in Nat /\ \A k \in S : k \in 1..seq
  <2>1. \A k \in S : k \in Nat \ {0} BY <1>2, StateAssumption
  <2>2. PICK n \in S \cup {0} : \A k \in S : k <= n BY <1>2
  <2>3. S \cup {0} \in SUBSET Nat /\ \A k \in S \cup {0} : k <= n BY <2>1, <2>2
  <2>4. MaxOf(S \cup {0}) = n BY <2>3, MaxOfFacts
  <2> QED BY <1>3, <2>1, <2>2, <2>3, <2>4
<1>6. DOMAIN reqs = {} /\ AreRequests(reqs) BY <1>4 DEF Empty, AreRequests
<1>7. UserType
  <2>1. uk \in [Key -> UserKey] BY <1>4, NoUserKeyIs
  <2>2. DOMAIN reqs \subseteq 1..seq BY <1>6
  <2>3. NoBatch \in Batch /\ NoBatch.count = NoBatch.sn + Len(NoBatch.ops)
    BY DEF NoBatch, NewBatch, Batch, TrxnId, NoTrxn
  <2>4. /\ wr \in [Writer -> WriterState]
        /\ \A p \in Writer : wr[p].b.count = wr[p].b.sn + Len(wr[p].b.ops)
    BY <1>1, <1>2, <2>3 DEF WriterState
  <2>5. hist \in [DOMAIN hist -> [key : Key, del : BOOLEAN, tid : TrxnId]] /\ DOMAIN hist = S
    <3>1. NoTrxn \in TrxnId BY DEF NoTrxn, TrxnId
    <3> QED BY <1>2, <1>3, <3>1
  <2>6. DOMAIN hist \subseteq 1..seq BY <1>5, <2>5
  <2>7. pending \in Seq(Nat) BY <1>4
  <2> QED BY <1>5, <1>6, <2>1, <2>2, <2>4, <2>5, <2>6, <2>7 DEF UserType
<1>8. WorkerType
  <2>1. PICK n \in Worker : Worker = 1..n BY StateAssumption
  <2>2. Worker \in SUBSET Nat /\ \A m \in Worker : m <= n /\ m \in Nat
    <3>1. \A m \in 1..n : m \in Nat /\ m <= n OBVIOUS
    <3> QED BY <2>1, <3>1
  <2>3. MaxOf(Worker) = n BY <2>1, <2>2, MaxOfFacts
  <2>4. ikeys \in [next : Nat, own : [Worker -> Nat]] BY <1>3, <2>2, <2>3 DEF FirstBlock
  <2>5. IsWorker(IdleWorker) BY DEF IsWorker, IdleWorker
  <2> QED BY <1>4, <2>4, <2>5 DEF WorkerType
<1>9. /\ \A w \in Worker : fl[w] = NoFlush
      /\ IsFlush(NoFlush) /\ NoFlush.pc = "none" /\ NoFlush.todo = {} /\ NoFlush.keys = {}
      /\ DOMAIN NoFlush.rows = {}
  <2>1. IsRows(Empty) /\ DOMAIN Empty = {} BY DEF IsRows, Empty
  <2> QED BY <1>4, <2>1 DEF NoFlush, IsFlush
<1>10. ASSUME NEW t \in Table
       PROVE  /\ IsRows(sktdf[t])
              /\ \A k \in DOMAIN sktdf[t] : TableOf[k] = t /\ k \in S /\ sktdf[t][k].id = k
  <2> DEFINE D == {x \in S : TableOf[x] = t}
  <2>1. sktdf[t] = [k \in D |-> [id |-> k, begin |-> 0, ikey |-> FirstBlock]]
    BY <1>3 DEF OpenedTables
  <2>2. \A k \in D : k \in Nat /\ k \in Key /\ k \in S /\ TableOf[k] = t BY <1>2, StateAssumption
  <2>3. \A k \in D : [id |-> k, begin |-> 0, ikey |-> FirstBlock] \in RowOf
    BY <2>2 DEF RowOf, FirstBlock
  <2> HIDE DEF D
  <2> QED BY <2>1, <2>2, <2>3 DEF IsRows
<1>11. TableType
  <2>1. fl = [w \in Worker |-> fl[w]] BY <1>4
  <2>2. sktdf = [t \in Table |-> sktdf[t]] BY <1>3 DEF OpenedTables
  <2> QED BY <1>9, <1>10, <2>1, <2>2 DEF TableType
<1>12. \A k \in Key : uk[k] = NoUserKey BY <1>4
<1>13. ColumnsInv BY <1>12, NoUserKeyIs DEF ColumnsInv
<1>14. RowsInv
  <2>1. ASSUME NEW k \in S PROVE k \in DOMAIN hist /\ hist[k].key = k BY <1>3
  <2>2. \A k \in Key : DOMAIN uk[k].cols = {} BY <1>12, NoUserKeyIs
  <2>3. \A w \in Worker : \A k : k \notin DOMAIN fl[w].rows BY <1>9
  <2>4. \A k \in Key : \A t \in Table : k \in DOMAIN sktdf[t] =>
          TableOf[k] = t /\ sktdf[t][k].id \in DOMAIN hist /\ hist[sktdf[t][k].id].key = k
    BY <1>10, <2>1
  <2> QED BY <2>2, <2>3, <2>4 DEF RowsInv
<1>15. FlushesInv BY <1>9 DEF FlushesInv
<1>16. CleanKey BY <1>12, NoUserKeyIs DEF CleanKey
<1>17. Places BY <1>1, <1>4 DEF Places
<1>18. WorkerPlaces
  <2>1. \A w \in Worker : wk[w] = IdleWorker /\ wk[w].pc = "idle" /\ wk[w].list = <<>>
    BY <1>4 DEF IdleWorker
  <2>2. \A w \in Worker : Todo(w) = 1..0 BY <2>1 DEF Todo, From
  <2>3. \A i \in 1..0 : FALSE OBVIOUS
  <2> QED BY <2>1, <2>2, <2>3 DEF WorkerPlaces
<1>19. OpenInv BY <1>6, <1>12, NoUserKeyIs DEF OpenInv
<1>20. ClosedInv BY <1>6 DEF ClosedInv
<1> QED BY <1>7, <1>8, <1>11, <1>13, <1>14, <1>15, <1>16, <1>17, <1>18, <1>19, <1>20 DEF ColumnInv

\* The log clean-up thread does not touch columns.
LEMMA LogColumns ==
  ASSUME ColumnInv, LogNext
  PROVE  ColumnInv'
<1>1. UNCHANGED LogVars
  <2>1. ASSUME NEW w, LogScan(w) PROVE UNCHANGED LogVars BY <2>1 DEF LogScan
  <2>2. CASE LogRescan BY <2>2 DEF LogRescan
  <2>3. CASE LogMark BY <2>3 DEF LogMark
  <2>4. CASE LogDelete BY <2>4 DEF LogDelete
  <2> QED BY <2>1, <2>2, <2>3, <2>4 DEF LogNext, LogStart
<1>2. UNCHANGED <<seq, uk, reqs, hist, fl, sktdf, pending, wk, ikeys, wr>>
  BY <1>1 DEF LogVars, userVars
<1> QED BY <1>2, OtherFrame

\* Every step keeps the columns in order.
LEMMA NextColumns ==
  ASSUME ColumnInv, TrxnInv, [Next]_vars
  PROVE  ColumnInv'
<1>1. ASSUME NEW p \in Writer, Store(p) PROVE ColumnInv'
  <2>1. Discard(p) \/ Insert(p) BY <1>1 DEF Store
  <2>2. TableInv BY DEF TrxnInv
  <2> QED BY <1>1, <2>1, <2>2, DiscardColumns, InsertColumns
<1>2. ASSUME NEW p \in Writer, PutColumnNodeToRequestQueue(p) PROVE ColumnInv'
  BY <1>2, QueueColumns
<1>3. ASSUME NEW w \in Worker, WorkerNext(w) PROVE ColumnInv'
  BY <1>3, PopColumns, WakeIdleColumns, MergeColumns, PutColumns, DecreaseColumns, UpdateColumns
     DEF WorkerNext
<1>4. ASSUME NEW w \in Worker, FlushNext(w) PROVE ColumnInv'
  BY <1>4, FlushStartColumns, FlushBuildColumns, FlushMovesColumns, FlushEndColumns DEF FlushNext
<1>5. CASE LogNext BY <1>5, LogColumns
<1>6. CASE TakeSnapshot \/ (\E s \in DOMAIN snaps : ReleaseSnapshot(s)) \/ (\E t \in Thread : Publish(t))
  <2>1. UNCHANGED <<seq, uk, reqs, hist, fl, sktdf, pending, wk, ikeys, wr>>
    BY <1>6 DEF TakeSnapshot, ReleaseSnapshot, Publish, userVars, blockVars
  <2> QED BY <2>1, OtherFrame
<1>7. CASE UNCHANGED vars
  <2>1. UNCHANGED <<seq, uk, reqs, hist, fl, sktdf, pending, wk, ikeys, wr>>
    BY <1>7 DEF vars, userVars, blockVars
  <2> QED BY <2>1, OtherFrame
<1> QED BY <1>1, <1>2, <1>3, <1>4, <1>5, <1>6, <1>7 DEF Next

\* A clean user key, which may be evicted at any time, is exactly its row: one recorded
\* column, whatever writes, merges and flushes of the key have raced (CleanKey;
\* SKTableMem::DeviceFormatBuilder, EvictCleanUserKeyFromKeymap, UserKeyCleanup).
THEOREM CleanKeyAlways == Spec => []CleanKey
<1>1. Init => ColumnInv BY InitColumns
<1>2. ColumnInv /\ TrxnInv /\ [Next]_vars => ColumnInv' BY NextColumns
<1>3. ColumnInv => CleanKey BY DEF ColumnInv
<1> QED BY <1>1, <1>2, <1>3, TrxnInvAlways, PTL DEF Spec
=============================================================================
