-------------------------- MODULE InsdbBlockProofs --------------------------
(***************************************************************************)
(* Proofs about the key blocks of insdb: their reference counts and counts *)
(* of unrecorded columns are exact (KBRefExact, NRSExact), and no block is *)
(* deleted that a row or a column in memory still names (BlockKept).  What *)
(* is counted is stated as a set of columns, whichever place keeps them    *)
(* (Users, Unrecorded).                                                    *)
(***************************************************************************)
EXTENDS InsdbColumnProofs, FunctionTheorems
-----------------------------------------------------------------------------
(* Columns of a list. *)

\* The column is in block b; and no table records it.
HasStored(cols, id, b) ==
    \E i \in DOMAIN cols : cols[i].id = id /\ cols[i].st = "stored" /\ cols[i].ikey = b
HasUnrecorded(cols, id, b) ==
    \E i \in DOMAIN cols :
        cols[i].id = id /\ cols[i].st = "stored" /\ cols[i].ikey = b /\ ~cols[i].committed

\* Two columns are the same for their block.
Alike(c, d) ==
    /\ d.id = c.id /\ d.ikey = c.ikey /\ d.del = c.del /\ d.committed = c.committed
    /\ d.holding = c.holding /\ d.recdel = c.recdel

\* The stored columns of two lists are the same.
SameStored(A, B) ==
    /\ \A i \in DOMAIN A : A[i].st = "stored" =>
          \E j \in DOMAIN B : B[j].st = "stored" /\ Alike(A[i], B[j])
    /\ \A j \in DOMAIN B : B[j].st = "stored" =>
          \E i \in DOMAIN A : A[i].st = "stored" /\ Alike(A[i], B[j])

\* A column without a block has not been looked at by a flush.
Fresh(c) ==
    c.st # "stored" => ~c.holding /\ (c.st \in {"pending", "submitting"} => ~c.committed)

\* The columns of list B that are not stored are some of A, and a new one.
OthersFrom(A, B, new) ==
    \A j \in DOMAIN B : B[j].st # "stored" =>
        /\ Fresh(B[j])
        /\ \/ B[j].id = new
           \/ \E i \in DOMAIN A : A[i].st # "stored" /\ B[j].id = A[i].id /\ B[j].del = A[i].del

FreshInv == \A k \in Key : \A i \in DOMAIN uk[k].cols : Fresh(uk[k].cols[i])

-----------------------------------------------------------------------------
(* Keys of blocks, and entries of flushes. *)

\* The worker has written its block and has columns of it to update.
Writes(w) == wk[w].pc \in {"submit", "update"}

\* The key was given to a block; no worker will use it again.
Used(b) == b \in Nat /\ b < ikeys.next /\ \A w \in Worker : ikeys.own[w] # b

\* Every key that is kept somewhere was given to a block.
IkeysInv ==
    /\ \A w \in Worker : ikeys.own[w] < ikeys.next
    /\ \A v, w \in Worker : ikeys.own[v] = ikeys.own[w] => v = w
    /\ \A k \in Key : \A i \in DOMAIN uk[k].cols :
          uk[k].cols[i].st = "stored" => Used(uk[k].cols[i].ikey)
    /\ \A w \in Worker : Writes(w) => Used(wk[w].ikey)
    /\ \A t \in Table : \A k \in DOMAIN sktdf[t] : Used(sktdf[t][k].ikey)
    /\ \A w \in Worker : /\ \A k \in DOMAIN fl[w].rows : Used(fl[w].rows[k].ikey)
                         /\ \A e \in fl[w].ents : Used(e.ikey)

IsEntry(e) == e \in [id : Nat, ikey : Nat, kind : {"itr", "upd", "del"}, dec : BOOLEAN]

\* An entry is of a key that has been scanned; there is one for a column.  A column that
\* a snapshot keeps is in the list and committed, any other one is gone.
EntriesInv ==
    \A w \in Worker :
        /\ \A e \in fl[w].ents :
              /\ IsEntry(e) /\ e.id \in DOMAIN hist
              /\ hist[e.id].key \in fl[w].keys \ fl[w].todo
              /\ \A i \in DOMAIN uk[hist[e.id].key].cols :
                    LET c == uk[hist[e.id].key].cols[i] IN
                    c.id = e.id => e.kind = "itr" /\ c.st = "stored" /\ c.committed
        /\ \A e, f \in fl[w].ents : e.id = f.id => e = f

HolderInv == FreshInv /\ IkeysInv /\ EntriesInv

-----------------------------------------------------------------------------
(* Counts. *)

\* A column is in block b: in the list of its key; written and not yet updated; removed by
\* a flush.  A flush has recorded it and still has to count it.
Attached(id, b) == \E k \in Key : HasStored(uk[k].cols, id, b)
Uncommitted(id, b) == \E k \in Key : HasUnrecorded(uk[k].cols, id, b)
Submitted(id, b) ==
    \E w \in Worker : /\ Writes(w) /\ wk[w].ikey = b
                      /\ \E i \in Todo(w) : reqs[wk[w].list[i]].latest = id
Removed(id, b) ==
    \E w \in Worker : \E e \in fl[w].ents : e.id = id /\ e.ikey = b /\ e.kind # "itr"
Counted(id, b) == \E w \in Worker : \E e \in fl[w].ents : e.id = id /\ e.ikey = b /\ e.dec

Users(b) == {id \in DOMAIN hist : Attached(id, b) \/ Submitted(id, b) \/ Removed(id, b)}
Unrecorded(b) == {id \in DOMAIN hist : Uncommitted(id, b) \/ Submitted(id, b) \/ Counted(id, b)}

IsBlock(x) ==
    x \in [bits : {x.bits}, trx : {x.trx}, ref : {x.ref}, nrs : {x.nrs}, inlog : {x.inlog},
           kbml : {x.kbml}, wbits : {x.wbits}]
BlockType ==
    /\ blk = [b \in DOMAIN blk |-> blk[b]]
    /\ \A b \in DOMAIN blk : IsBlock(blk[b]) /\ Used(b)

RefInv == \A b \in DOMAIN blk : blk[b].ref = Cardinality(Users(b))
NrsInv == \A b \in DOMAIN blk : blk[b].nrs = Cardinality(Unrecorded(b))

LogType ==
    /\ logq \in [Worker -> [q : [{0, 1} -> Seq(Nat)], active : {0, 1}]]
    /\ lt \in [pc : {"idle", "scan", "rescan", "mark", "delete"}, w : {lt.w}, batch : Seq(Nat),
               dels : {lt.dels}, n : {lt.n}]
    /\ lt.pc \in {"scan", "rescan"} => lt.w \in Worker
    /\ lt.pc = "mark" => lt.batch # <<>>

\* A block in the log of a worker, or taken off it, was used; when it was taken off
\* nothing of it was unrecorded.
LogInv ==
    /\ \A w \in Worker : \A a \in {0, 1} : \A i \in DOMAIN logq[w].q[a] : Used(logq[w].q[a][i])
    /\ \A i \in DOMAIN lt.batch :
          Used(lt.batch[i]) /\ (lt.batch[i] \in DOMAIN blk => blk[lt.batch[i]].nrs = 0)
    /\ \A b \in DOMAIN blk : blk[b].nrs > 0 => blk[b].kbml

TallyInv == BlockType /\ RefInv /\ NrsInv /\ LogType /\ LogInv

\* Sets of which one is mapped to the other, one to one, have as many elements.
LEMMA SameCount ==
  ASSUME NEW S, NEW T, IsFiniteSet(T), NEW f \in [S -> T],
         \A x, y \in S : f[x] = f[y] => x = y,
         \A z \in T : \E x \in S : f[x] = z
  PROVE  IsFiniteSet(S) /\ Cardinality(S) = Cardinality(T)
<1>1. f \in Injection(S, T) BY Fun_IsInj
<1>2. f \in Surjection(S, T) BY Fun_IsSurj
<1> QED BY <1>1, <1>2, FS_Injection

\* Sets of writes are finite.
LEMMA WritesFinite ==
  ASSUME UserType
  PROVE  /\ IsFiniteSet(DOMAIN hist) /\ Cardinality(DOMAIN hist) \in Nat
         /\ \A S \in SUBSET DOMAIN hist : IsFiniteSet(S) /\ Cardinality(S) \in Nat
<1>1. seq \in Nat /\ DOMAIN hist \in SUBSET (1..seq) BY DEF UserType
<1>2. IsFiniteSet(1..seq) BY <1>1, FS_Interval
<1>3. IsFiniteSet(DOMAIN hist) BY <1>1, <1>2, FS_Subset
<1> QED BY <1>3, FS_Subset, FS_CardinalityType

\* A column of a list.
LEMMA ColumnTyped ==
  ASSUME UserType, NEW k \in Key, NEW i \in DOMAIN uk[k].cols
  PROVE  /\ uk[k].cols \in Seq(ColumnNode) /\ Len(uk[k].cols) \in Nat
         /\ DOMAIN uk[k].cols = 1..Len(uk[k].cols)
         /\ i \in Nat /\ uk[k].cols[i] \in ColumnNode
         /\ uk[k].cols[i].id \in Nat /\ uk[k].cols[i].ikey \in Nat
<1>1. uk[k].cols \in Seq(ColumnNode) BY DEF UserType, UserKey
<1> DEFINE cols == uk[k].cols
<1>2. cols \in Seq(ColumnNode) /\ i \in DOMAIN cols BY <1>1
<1> HIDE DEF cols
<1>3. cols[i] \in ColumnNode /\ i \in Nat /\ Len(cols) \in Nat /\ DOMAIN cols = 1..Len(cols) BY <1>2
<1>4. cols[i].id \in Nat /\ cols[i].ikey \in Nat BY <1>3 DEF ColumnNode
<1> QED BY <1>2, <1>3, <1>4 DEF cols

\* A key has no more columns than there were writes.
LEMMA FewColumns ==
  ASSUME UserType, ColumnsInv, NEW k \in Key, NEW i \in DOMAIN uk[k].cols
  PROVE  i \in 1..Cardinality(DOMAIN hist)
<1> DEFINE cols == uk[k].cols
           f == [j \in DOMAIN cols |-> cols[j].id]
<1>1. cols \in Seq(ColumnNode) /\ Len(cols) \in Nat /\ DOMAIN cols = 1..Len(cols)
  <2>1. cols \in Seq(ColumnNode) BY DEF UserType, UserKey
  <2> QED BY <2>1
<1>2. f \in [DOMAIN cols -> DOMAIN hist] BY DEF ColumnsInv
<1>3. \A x, y \in DOMAIN cols : f[x] = f[y] => x = y
  <2> TAKE x, y \in DOMAIN cols
  <2> HAVE f[x] = f[y]
  <2>1. cols[x].id \in Nat /\ cols[y].id \in Nat /\ x \in Nat /\ y \in Nat BY ColumnTyped
  <2>2. ~(x < y) /\ ~(y < x) BY <2>1 DEF ColumnsInv
  <2> QED BY <2>1, <2>2
<1>4. f \in Injection(DOMAIN cols, DOMAIN hist)
  <2> HIDE DEF f
  <2> QED BY <1>2, <1>3, Fun_IsInj
<1>5. Cardinality(DOMAIN cols) <= Cardinality(DOMAIN hist) /\ Cardinality(DOMAIN hist) \in Nat
  <2> HIDE DEF f
  <2> QED BY <1>4, WritesFinite, FS_Injection
<1>6. Cardinality(DOMAIN cols) = Len(cols)
  <2>1. Cardinality(1..Len(cols)) = Len(cols)
    <3> HIDE DEF cols
    <3> QED BY <1>1, FS_Interval
  <2> QED BY <1>1, <2>1
<1> HIDE DEF cols
<1> QED BY <1>1, <1>5, <1>6 DEF cols

\* A column is found at one place of one key.
LEMMA OnePlace ==
  ASSUME UserType, ColumnsInv, NEW j \in Key, NEW k \in Key, NEW x \in DOMAIN uk[j].cols,
         NEW y \in DOMAIN uk[k].cols, uk[j].cols[x].id = uk[k].cols[y].id
  PROVE  j = k /\ x = y
<1>1. j = k BY DEF ColumnsInv
<1>3. x \in Nat /\ y \in Nat /\ uk[k].cols[x].id \in Nat /\ uk[k].cols[y].id \in Nat
  BY <1>1, ColumnTyped
<1>4. ~(x < y) /\ ~(y < x) BY <1>1, <1>3 DEF ColumnsInv
<1> QED BY <1>1, <1>3, <1>4

\* The columns that workers have written are the ones of their open requests.
LEMMA SubmittedIs ==
  ASSUME UserType, WorkerType, ColumnsInv, WorkerPlaces, ClosedInv, NEW b
  PROVE  /\ \A r \in Unsubmitted(b) : r \in DOMAIN reqs /\ Submitted(reqs[r].latest, b)
         /\ \A id : Submitted(id, b) => \E r \in Unsubmitted(b) : reqs[r].latest = id
         /\ \A id : Submitted(id, b) =>
               \E r \in DOMAIN reqs : reqs[r].latest = id /\ reqs[r].latest # 0
<1>1. ASSUME NEW w \in Worker, Writes(w)
      PROVE  {j \in DOMAIN wk[w].list : j >= wk[w].pos} = Todo(w)
  <2>1. wk[w].list \in Seq(Nat) /\ wk[w].pos \in 1..Len(wk[w].list)
    BY <1>1 DEF WorkerType, IsWorker, WorkerPlaces, Writes
  <2>2. Todo(w) = wk[w].pos..Len(wk[w].list) BY <1>1 DEF Todo, From, Writes
  <2> QED BY <2>1, <2>2
<1>2. ASSUME NEW w \in Worker, Writes(w) PROVE OpenRequests(w, wk[w].pos) = {wk[w].list[i] : i \in Todo(w)}
  BY <1>1, <1>2 DEF OpenRequests
<1>3. \A w \in Worker : \A i \in Todo(w) :
         wk[w].list[i] \in DOMAIN reqs /\ reqs[wk[w].list[i]].latest # 0
  BY DEF WorkerPlaces
<1>4. \A r : r \in Unsubmitted(b) <=>
         \E w \in Worker : Writes(w) /\ wk[w].ikey = b /\ \E i \in Todo(w) : r = wk[w].list[i]
  <2>1. \A r : r \in Unsubmitted(b) <=>
           \E w \in Worker : Writes(w) /\ wk[w].ikey = b /\ r \in OpenRequests(w, wk[w].pos)
    BY DEF Unsubmitted, Writes
  <2> QED BY <1>2, <2>1
<1> QED BY <1>3, <1>4 DEF Submitted

\* A column that a worker has written is in the list of its key, and has no block there.
LEMMA SubmittedColumn ==
  ASSUME UserType, WorkerType, ColumnsInv, WorkerPlaces, ClosedInv, NEW b, NEW id, Submitted(id, b)
  PROVE  \E k \in Key : \E i \in DOMAIN uk[k].cols :
            uk[k].cols[i].id = id /\ uk[k].cols[i].st \in {"pending", "submitting"}
<1>1. PICK r \in DOMAIN reqs : reqs[r].latest = id /\ reqs[r].latest # 0 BY SubmittedIs
<1>2. reqs[r].key \in Key BY DEF UserType, AreRequests, IsRequest
<1> QED BY <1>1, <1>2 DEF ClosedInv

\* The column of an entry is in a list only if a snapshot keeps it.
LEMMA EntryColumn ==
  ASSUME ColumnsInv, EntriesInv, NEW w \in Worker, NEW e \in fl[w].ents, NEW k \in Key,
         NEW i \in DOMAIN uk[k].cols, uk[k].cols[i].id = e.id
  PROVE  e.kind = "itr" /\ uk[k].cols[i].st = "stored" /\ uk[k].cols[i].committed
<1>1. hist[e.id].key = k BY DEF ColumnsInv
<1> QED BY <1>1 DEF EntriesInv

\* The flush of a worker with entries is under way, and entries of different flushes are
\* of different keys.
LEMMA OneEntry ==
  ASSUME FlushesInv, EntriesInv, NEW v \in Worker, NEW w \in Worker, NEW e \in fl[v].ents,
         NEW f \in fl[w].ents, hist[e.id].key = hist[f.id].key
  PROVE  v = w /\ (e.id = f.id => e = f)
<1>1. fl[v].pc # "none" /\ fl[w].pc # "none" BY DEF FlushesInv, NoFlush
<1>2. hist[e.id].key \in fl[v].keys /\ hist[f.id].key \in fl[w].keys BY DEF EntriesInv
<1>3. TableOf[hist[e.id].key] = fl[v].t /\ TableOf[hist[f.id].key] = fl[w].t BY <1>2 DEF FlushesInv
<1>4. v = w BY <1>1, <1>3 DEF FlushesInv
<1> QED BY <1>4 DEF EntriesInv

\* A column is counted for a block at one place.
LEMMA PartsDisjoint ==
  ASSUME ColumnInv, EntriesInv, NEW b, NEW id
  PROVE  /\ ~(Attached(id, b) /\ Submitted(id, b)) /\ ~(Attached(id, b) /\ Removed(id, b))
         /\ ~(Submitted(id, b) /\ Removed(id, b)) /\ ~(Uncommitted(id, b) /\ Submitted(id, b))
         /\ ~(Uncommitted(id, b) /\ Counted(id, b)) /\ ~(Submitted(id, b) /\ Counted(id, b))
<1> USE DEF ColumnInv
<1>1. Uncommitted(id, b) => Attached(id, b)
  BY DEF Uncommitted, Attached, HasUnrecorded, HasStored
<1>2. ASSUME Attached(id, b), Submitted(id, b) PROVE FALSE
  <2>1a. PICK j \in Key : \E x \in DOMAIN uk[j].cols :
           uk[j].cols[x].id = id /\ uk[j].cols[x].st = "stored"
    BY <1>2 DEF Attached, HasStored
  <2>1. PICK x \in DOMAIN uk[j].cols :
           uk[j].cols[x].id = id /\ uk[j].cols[x].st = "stored"
    BY <2>1a
  <2>2a. PICK k \in Key : \E y \in DOMAIN uk[k].cols :
           uk[k].cols[y].id = id /\ uk[k].cols[y].st \in {"pending", "submitting"}
    BY <1>2, SubmittedColumn
  <2>2. PICK y \in DOMAIN uk[k].cols :
           uk[k].cols[y].id = id /\ uk[k].cols[y].st \in {"pending", "submitting"}
    BY <2>2a
  <2>3. j = k /\ x = y BY <2>1, <2>2, OnePlace
  <2> QED BY <2>1, <2>2, <2>3
<1>3. ASSUME Attached(id, b), Removed(id, b) PROVE FALSE
  <2>1a. PICK j \in Key : \E x \in DOMAIN uk[j].cols :
           uk[j].cols[x].id = id
    BY <1>3 DEF Attached, HasStored
  <2>1. PICK x \in DOMAIN uk[j].cols :
           uk[j].cols[x].id = id
    BY <2>1a
  <2>2a. PICK w \in Worker : \E e \in fl[w].ents :
           e.id = id /\ e.kind # "itr"
    BY <1>3 DEF Removed
  <2>2. PICK e \in fl[w].ents :
           e.id = id /\ e.kind # "itr"
    BY <2>2a
  <2> QED BY <2>1, <2>2, EntryColumn
<1>4. ASSUME Submitted(id, b), Removed(id, b) \/ Counted(id, b) PROVE FALSE
  <2>1a. PICK j \in Key : \E x \in DOMAIN uk[j].cols :
           uk[j].cols[x].id = id /\ uk[j].cols[x].st \in {"pending", "submitting"}
    BY <1>4, SubmittedColumn
  <2>1. PICK x \in DOMAIN uk[j].cols :
           uk[j].cols[x].id = id /\ uk[j].cols[x].st \in {"pending", "submitting"}
    BY <2>1a
  <2>2a. PICK w \in Worker : \E e \in fl[w].ents :
           e.id = id
    BY <1>4 DEF Removed, Counted
  <2>2. PICK e \in fl[w].ents :
           e.id = id
    BY <2>2a
  <2> QED BY <2>1, <2>2, EntryColumn
<1>5. ASSUME Uncommitted(id, b), Counted(id, b) PROVE FALSE
  <2>1a. PICK j \in Key : \E x \in DOMAIN uk[j].cols :
           uk[j].cols[x].id = id /\ ~uk[j].cols[x].committed
    BY <1>5 DEF Uncommitted, HasUnrecorded
  <2>1. PICK x \in DOMAIN uk[j].cols :
           uk[j].cols[x].id = id /\ ~uk[j].cols[x].committed
    BY <2>1a
  <2>2a. PICK w \in Worker : \E e \in fl[w].ents :
           e.id = id
    BY <1>5 DEF Counted
  <2>2. PICK e \in fl[w].ents :
           e.id = id
    BY <2>2a
  <2> QED BY <2>1, <2>2, EntryColumn
<1> QED BY <1>1, <1>2, <1>3, <1>4, <1>5

\* Columns in lists: as many as places of them.
LEMMA CountStored ==
  ASSUME UserType, ColumnsInv, NEW b
  PROVE  LET attached(k, i) == uk[k].cols[i].st = "stored" /\ uk[k].cols[i].ikey = b
             unrecorded(k, i) == /\ uk[k].cols[i].st = "stored" /\ uk[k].cols[i].ikey = b
                                 /\ ~uk[k].cols[i].committed
         IN  /\ Cardinality(Sites(attached)) = Cardinality({id \in DOMAIN hist : Attached(id, b)})
             /\ Cardinality(Sites(unrecorded)) = Cardinality({id \in DOMAIN hist : Uncommitted(id, b)})
<1> DEFINE attached(k, i) == uk[k].cols[i].st = "stored" /\ uk[k].cols[i].ikey = b
           unrecorded(k, i) == /\ uk[k].cols[i].st = "stored" /\ uk[k].cols[i].ikey = b
                               /\ ~uk[k].cols[i].committed
           S == {x \in Key \X (1..Cardinality(DOMAIN hist)) :
                    x[2] \in DOMAIN uk[x[1]].cols /\ attached(x[1], x[2])}
           U == {x \in Key \X (1..Cardinality(DOMAIN hist)) :
                    x[2] \in DOMAIN uk[x[1]].cols /\ unrecorded(x[1], x[2])}
           T == {id \in DOMAIN hist : Attached(id, b)}
           V == {id \in DOMAIN hist : Uncommitted(id, b)}
           f == [x \in S |-> uk[x[1]].cols[x[2]].id]
           g == [x \in U |-> uk[x[1]].cols[x[2]].id]
<1>1. IsFiniteSet(T) /\ IsFiniteSet(V) BY WritesFinite
<1>2. \A k \in Key : \A i \in DOMAIN uk[k].cols :
         uk[k].cols[i].id \in DOMAIN hist /\ i \in 1..Cardinality(DOMAIN hist)
  BY FewColumns DEF ColumnsInv
<1>3. ASSUME NEW X, X \in {S, U}, NEW x \in X, NEW y \in X,
             uk[x[1]].cols[x[2]].id = uk[y[1]].cols[y[2]].id
      PROVE  x = y
  <2>1. /\ x[1] \in Key /\ y[1] \in Key /\ x[2] \in DOMAIN uk[x[1]].cols /\ y[2] \in DOMAIN uk[y[1]].cols
        /\ x = <<x[1], x[2]>> /\ y = <<y[1], y[2]>>
    BY <1>3
  <2>2. x[1] = y[1] /\ x[2] = y[2] BY <1>3, <2>1, OnePlace
  <2> QED BY <2>1, <2>2
<1>4. Cardinality(S) = Cardinality(T)
  <2>1. f \in [S -> T] BY <1>2 DEF Attached, HasStored
  <2>2. \A x, y \in S : f[x] = f[y] => x = y BY <1>3
  <2>3. \A z \in T : \E x \in S : f[x] = z
    <3> TAKE z \in T
    <3>1a. PICK k \in Key : \E i \in DOMAIN uk[k].cols :
             uk[k].cols[i].id = z /\ attached(k, i)
      BY DEF Attached, HasStored
    <3>1. PICK i \in DOMAIN uk[k].cols :
             uk[k].cols[i].id = z /\ attached(k, i)
      BY <3>1a
    <3>2. <<k, i>> \in S BY <1>2, <3>1
    <3>3. f[<<k, i>>] = z BY <3>1, <3>2
    <3> QED BY <3>2, <3>3
  <2> HIDE DEF S, T, f
  <2> QED BY <1>1, <2>1, <2>2, <2>3, SameCount
<1>5. Cardinality(U) = Cardinality(V)
  <2>1. g \in [U -> V] BY <1>2 DEF Uncommitted, HasUnrecorded
  <2>2. \A x, y \in U : g[x] = g[y] => x = y BY <1>3
  <2>3. \A z \in V : \E x \in U : g[x] = z
    <3> TAKE z \in V
    <3>1a. PICK k \in Key : \E i \in DOMAIN uk[k].cols :
             uk[k].cols[i].id = z /\ unrecorded(k, i)
      BY DEF Uncommitted, HasUnrecorded
    <3>1. PICK i \in DOMAIN uk[k].cols :
             uk[k].cols[i].id = z /\ unrecorded(k, i)
      BY <3>1a
    <3>2. <<k, i>> \in U BY <1>2, <3>1
    <3>3. g[<<k, i>>] = z BY <3>1, <3>2
    <3> QED BY <3>2, <3>3
  <2> HIDE DEF U, V, g
  <2> QED BY <1>1, <2>1, <2>2, <2>3, SameCount
<1>6. Sites(attached) = S /\ Sites(unrecorded) = U BY DEF Sites
<1> QED BY <1>4, <1>5, <1>6

\* Columns that workers have written: as many as requests for them.
LEMMA CountSubmitted ==
  ASSUME ColumnInv, NEW b
  PROVE  Cardinality(Unsubmitted(b)) = Cardinality({id \in DOMAIN hist : Submitted(id, b)})
<1> USE DEF ColumnInv
<1> DEFINE S == Unsubmitted(b)
           T == {id \in DOMAIN hist : Submitted(id, b)}
           f == [r \in S |-> reqs[r].latest]
<1>1. IsFiniteSet(T) BY WritesFinite
<1>2. \A r \in S : r \in DOMAIN reqs /\ Submitted(reqs[r].latest, b) BY SubmittedIs
<1>3. \A id : Submitted(id, b) => \E r \in S : reqs[r].latest = id BY SubmittedIs
<1>4. \A id : Submitted(id, b) => id \in DOMAIN hist
  <2>1. \A id : Submitted(id, b) => \E r \in DOMAIN reqs : reqs[r].latest = id /\ reqs[r].latest # 0
    BY SubmittedIs
  <2> QED BY <2>1, LatestWrite
<1> HIDE DEF S
<1>5. f \in [S -> T] BY <1>2, <1>4
<1>6. \A x, y \in S : f[x] = f[y] => x = y
  <2> TAKE x, y \in S
  <2> HAVE f[x] = f[y]
  <2>1. x \in DOMAIN reqs /\ y \in DOMAIN reqs /\ reqs[x].latest = reqs[y].latest /\ Submitted(reqs[y].latest, b)
    BY <1>2
  <2>2. reqs[y].latest # 0
    <3>1. PICK r \in DOMAIN reqs : reqs[r].latest = reqs[y].latest /\ reqs[r].latest # 0 BY <2>1, SubmittedIs
    <3> QED BY <3>1
  <2> QED BY <2>1, <2>2 DEF ClosedInv
<1>7. \A z \in T : \E x \in S : f[x] = z BY <1>3
<1> HIDE DEF T, f
<1>8. Cardinality(S) = Cardinality(T) BY <1>1, <1>5, <1>6, <1>7, SameCount
<1> QED BY <1>8 DEF S, T

\* Columns of entries: as many as entries.
LEMMA CountEntries ==
  ASSUME ColumnInv, EntriesInv, NEW S, S \subseteq UNION {fl[w].ents : w \in Worker}, NEW T,
         T = {e.id : e \in S}
  PROVE  Cardinality(S) = Cardinality(T)
<1> USE DEF ColumnInv
<1> DEFINE f == [e \in S |-> e.id]
<1>1. \A e \in S : \E w \in Worker : e \in fl[w].ents OBVIOUS
<1>2. \A e \in S : e.id \in DOMAIN hist BY <1>1 DEF EntriesInv
<1>3. IsFiniteSet(T)
  <2>1. T \in SUBSET DOMAIN hist BY <1>2
  <2> QED BY <2>1, WritesFinite
<1>4. f \in [S -> T] OBVIOUS
<1>5. \A x, y \in S : f[x] = f[y] => x = y
  <2> TAKE x, y \in S
  <2> HAVE f[x] = f[y]
  <2>1. PICK v \in Worker : x \in fl[v].ents BY <1>1
  <2>2. PICK w \in Worker : y \in fl[w].ents BY <1>1
  <2>3. x.id = y.id OBVIOUS
  <2> QED BY <2>1, <2>2, <2>3, OneEntry
<1>6. \A z \in T : \E x \in S : f[x] = z OBVIOUS
<1> HIDE DEF f
<1> QED BY <1>3, <1>4, <1>5, <1>6, SameCount

\* Three parts of a set of writes.
LEMMA CountParts ==
  ASSUME UserType, NEW A, NEW W, NEW R, A \cup W \cup R \subseteq DOMAIN hist,
         A \cap W = {}, A \cap R = {}, W \cap R = {}
  PROVE  Cardinality(A \cup W \cup R) = Cardinality(A) + Cardinality(W) + Cardinality(R)
<1>1. /\ IsFiniteSet(A) /\ IsFiniteSet(W) /\ IsFiniteSet(R) /\ IsFiniteSet(A \cup W)
      /\ Cardinality(A) \in Nat /\ Cardinality(W) \in Nat /\ Cardinality(R) \in Nat
      /\ Cardinality(A \cup W) \in Nat
  BY WritesFinite
<1>2. Cardinality(A \cup W) = Cardinality(A) + Cardinality(W) - Cardinality(A \cap W) BY <1>1, FS_Union
<1>3. Cardinality((A \cup W) \cup R) = Cardinality(A \cup W) + Cardinality(R) - Cardinality((A \cup W) \cap R)
  BY <1>1, FS_Union
<1>4. A \cap W = {} /\ (A \cup W) \cap R = {} OBVIOUS
<1>5. Cardinality({}) = 0 BY FS_EmptySet
<1>6. Cardinality(A \cap W) = 0 /\ Cardinality((A \cup W) \cap R) = 0 BY <1>4, <1>5
<1> QED BY <1>1, <1>2, <1>3, <1>6

\* The sets of columns that are counted say what the two properties say of places.
LEMMA CountsExact ==
  ASSUME ColumnInv, EntriesInv, RefInv, NrsInv, \A b \in DOMAIN blk : blk[b].nrs > 0 => blk[b].kbml
  PROVE  KBRefExact /\ NRSExact
<1> DEFINE A(b) == {id \in DOMAIN hist : Attached(id, b)}
           U(b) == {id \in DOMAIN hist : Uncommitted(id, b)}
           W(b) == {id \in DOMAIN hist : Submitted(id, b)}
           R(b) == {id \in DOMAIN hist : Removed(id, b)}
           C(b) == {id \in DOMAIN hist : Counted(id, b)}
           ER(b) == {e \in Entries({"upd", "del"}) : e.ikey = b}
           EC(b) == {e \in Entries({"itr", "upd", "del"}) : e.ikey = b /\ e.dec}
<1>1. UserType /\ ColumnsInv BY DEF ColumnInv
<1>2. \A w \in Worker : \A e \in fl[w].ents :
         e.kind \in {"itr", "upd", "del"} /\ e.id \in DOMAIN hist
  <2> TAKE w \in Worker
  <2> TAKE e \in fl[w].ents
  <2>1. IsEntry(e) /\ e.id \in DOMAIN hist BY DEF EntriesInv
  <2> QED BY <2>1 DEF IsEntry
<1>3. ASSUME NEW b \in DOMAIN blk
      PROVE  blk[b].ref = Cardinality(A(b)) + Cardinality(Unsubmitted(b)) + Cardinality(ER(b))
  <2>1. Users(b) = A(b) \cup W(b) \cup R(b) BY DEF Users
  <2>2. A(b) \cap W(b) = {} /\ A(b) \cap R(b) = {} /\ W(b) \cap R(b) = {} BY PartsDisjoint
  <2>3. Cardinality(Users(b)) = Cardinality(A(b)) + Cardinality(W(b)) + Cardinality(R(b))
    <3>1. A(b) \cup W(b) \cup R(b) \subseteq DOMAIN hist OBVIOUS
    <3> HIDE DEF A, W, R
    <3> QED BY <1>1, <2>1, <2>2, <3>1, CountParts
  <2>4. Cardinality(W(b)) = Cardinality(Unsubmitted(b)) BY CountSubmitted
  <2>5. Cardinality(ER(b)) = Cardinality(R(b))
    <3>1. ER(b) \subseteq UNION {fl[w].ents : w \in Worker} BY DEF Entries
    <3>2. R(b) = {e.id : e \in ER(b)}
      <4>1. \A e : e \in ER(b) <=> \E w \in Worker : e \in fl[w].ents /\ e.kind # "itr" /\ e.ikey = b
        BY <1>2 DEF Entries
      <4> HIDE DEF ER
      <4> QED BY <1>2, <4>1 DEF Removed
    <3> HIDE DEF ER, R
    <3> QED BY <3>1, <3>2, CountEntries
  <2>6. blk[b].ref = Cardinality(Users(b)) BY DEF RefInv
  <2> HIDE DEF A, W, R, ER
  <2> QED BY <2>3, <2>4, <2>5, <2>6
<1>4. ASSUME NEW b \in DOMAIN blk
      PROVE  blk[b].nrs = Cardinality(U(b)) + Cardinality(Unsubmitted(b)) + Cardinality(EC(b))
  <2>1. Unrecorded(b) = U(b) \cup W(b) \cup C(b) BY DEF Unrecorded
  <2>2. U(b) \cap W(b) = {} /\ U(b) \cap C(b) = {} /\ W(b) \cap C(b) = {} BY PartsDisjoint
  <2>3. Cardinality(Unrecorded(b)) = Cardinality(U(b)) + Cardinality(W(b)) + Cardinality(C(b))
    <3>1. U(b) \cup W(b) \cup C(b) \subseteq DOMAIN hist OBVIOUS
    <3> HIDE DEF U, W, C
    <3> QED BY <1>1, <2>1, <2>2, <3>1, CountParts
  <2>4. Cardinality(W(b)) = Cardinality(Unsubmitted(b)) BY CountSubmitted
  <2>5. Cardinality(EC(b)) = Cardinality(C(b))
    <3>1. EC(b) \subseteq UNION {fl[w].ents : w \in Worker} BY DEF Entries
    <3>2. C(b) = {e.id : e \in EC(b)}
      <4>1. \A e : e \in EC(b) <=> \E w \in Worker : e \in fl[w].ents /\ e.ikey = b /\ e.dec
        BY <1>2 DEF Entries
      <4> HIDE DEF EC
      <4> QED BY <1>2, <4>1 DEF Counted
    <3> HIDE DEF EC, C
    <3> QED BY <3>1, <3>2, CountEntries
  <2>6. blk[b].nrs = Cardinality(Unrecorded(b)) BY DEF NrsInv
  <2> HIDE DEF U, W, C, EC
  <2> QED BY <2>3, <2>4, <2>5, <2>6
<1>5. ASSUME NEW b \in DOMAIN blk
      PROVE  LET attached(k, i) == uk[k].cols[i].st = "stored" /\ uk[k].cols[i].ikey = b
                 unrecorded(k, i) == /\ uk[k].cols[i].st = "stored" /\ uk[k].cols[i].ikey = b
                                     /\ ~uk[k].cols[i].committed
             IN  /\ Cardinality(Sites(attached)) = Cardinality(A(b))
                 /\ Cardinality(Sites(unrecorded)) = Cardinality(U(b))
  BY <1>1, CountStored
<1> HIDE DEF A, U
<1>6. KBRefExact BY <1>3, <1>5 DEF KBRefExact
<1>7. NRSExact BY <1>4, <1>5 DEF NRSExact
<1> QED BY <1>6, <1>7
-----------------------------------------------------------------------------
(* Steps that leave every column in its block. *)

\* What is counted for the blocks stays.
SameUsers == \A b : Users(b)' = Users(b) /\ Unrecorded(b)' = Unrecorded(b)

\* The steps of this part: columns may move in the lists, wait longer or be submitted.
Moves ==
    /\ \A k \in Key : SameStored(uk[k].cols, uk'[k].cols) /\ OthersFrom(uk[k].cols, uk'[k].cols, seq + 1)
    /\ DOMAIN hist \subseteq DOMAIN hist' /\ \A id \in DOMAIN hist : hist'[id] = hist[id]
    /\ \A w \in Worker : Writes(w)' => Writes(w) /\ wk'[w].ikey = wk[w].ikey
    /\ \A id, b : Submitted(id, b)' <=> Submitted(id, b)
    /\ \A w \in Worker : /\ fl'[w].ents = fl[w].ents /\ fl'[w].rows = fl[w].rows
                         /\ fl'[w].keys = fl[w].keys /\ fl'[w].todo = fl[w].todo
    /\ UNCHANGED <<sktdf, ikeys>>

\* Lists with the same stored columns.
LEMMA SameStoredHas ==
  ASSUME NEW A, NEW B, SameStored(A, B), NEW id, NEW b
  PROVE  /\ HasStored(A, id, b) <=> HasStored(B, id, b)
         /\ HasUnrecorded(A, id, b) <=> HasUnrecorded(B, id, b)
BY DEF SameStored, Alike, HasStored, HasUnrecorded

\* What a block is used by are writes.
LEMMA UsersWrite ==
  ASSUME ColumnInv, EntriesInv, NEW id, NEW b
  PROVE  /\ Attached(id, b) => id \in DOMAIN hist
         /\ Uncommitted(id, b) => id \in DOMAIN hist
         /\ Submitted(id, b) => id \in DOMAIN hist
         /\ Removed(id, b) => id \in DOMAIN hist
         /\ Counted(id, b) => id \in DOMAIN hist
<1> USE DEF ColumnInv
<1>1. Attached(id, b) => id \in DOMAIN hist BY DEF Attached, HasStored, ColumnsInv
<1>2. Uncommitted(id, b) => id \in DOMAIN hist BY DEF Uncommitted, HasUnrecorded, ColumnsInv
<1>3. Submitted(id, b) => id \in DOMAIN hist BY SubmittedIs, LatestWrite
<1>4. Removed(id, b) \/ Counted(id, b) => id \in DOMAIN hist BY DEF Removed, Counted, EntriesInv
<1> QED BY <1>1, <1>2, <1>3, <1>4

\* What is counted stays.
LEMMA MovesUsers ==
  ASSUME ColumnInv, EntriesInv, Moves
  PROVE  SameUsers
<1>1. ASSUME NEW id, NEW b
      PROVE  /\ Attached(id, b)' <=> Attached(id, b)
             /\ Uncommitted(id, b)' <=> Uncommitted(id, b)
             /\ Submitted(id, b)' <=> Submitted(id, b)
             /\ Removed(id, b)' <=> Removed(id, b)
             /\ Counted(id, b)' <=> Counted(id, b)
  <2>1. \A k \in Key : SameStored(uk[k].cols, uk'[k].cols) BY DEF Moves
  <2>2. \A k \in Key : /\ HasStored(uk'[k].cols, id, b) <=> HasStored(uk[k].cols, id, b)
                       /\ HasUnrecorded(uk'[k].cols, id, b) <=> HasUnrecorded(uk[k].cols, id, b)
    BY <2>1, SameStoredHas
  <2>3. Attached(id, b)' <=> Attached(id, b) BY <2>2 DEF Attached
  <2>4. Uncommitted(id, b)' <=> Uncommitted(id, b) BY <2>2 DEF Uncommitted
  <2>5. \A w \in Worker : fl'[w].ents = fl[w].ents BY DEF Moves
  <2>6. Removed(id, b)' <=> Removed(id, b) BY <2>5 DEF Removed
  <2>7. Counted(id, b)' <=> Counted(id, b) BY <2>5 DEF Counted
  <2>8. Submitted(id, b)' <=> Submitted(id, b) BY DEF Moves
  <2> QED BY <2>3, <2>4, <2>6, <2>7, <2>8
<1>2. DOMAIN hist \subseteq DOMAIN hist' BY DEF Moves
<1>3. ASSUME NEW b PROVE Users(b)' = Users(b)
  <2>1. \A id : id \in Users(b)' <=> id \in Users(b) BY <1>1, <1>2, UsersWrite DEF Users
  <2> QED BY <2>1 DEF Users
<1>4. ASSUME NEW b PROVE Unrecorded(b)' = Unrecorded(b)
  <2>1. \A id : id \in Unrecorded(b)' <=> id \in Unrecorded(b) BY <1>1, <1>2, UsersWrite DEF Unrecorded
  <2> QED BY <2>1 DEF Unrecorded
<1> QED BY <1>3, <1>4 DEF SameUsers

\* Who holds the blocks stays as it must be.
LEMMA MovesHolders ==
  ASSUME ColumnInv, HolderInv, Moves
  PROVE  HolderInv'
<1>1. \A k \in Key : SameStored(uk[k].cols, uk'[k].cols) /\ OthersFrom(uk[k].cols, uk'[k].cols, seq + 1)
  BY DEF Moves
<1>2. /\ \A w \in Worker : /\ fl'[w].ents = fl[w].ents /\ fl'[w].rows = fl[w].rows
                           /\ fl'[w].keys = fl[w].keys /\ fl'[w].todo = fl[w].todo
      /\ UNCHANGED <<sktdf, ikeys>>
      /\ DOMAIN hist \subseteq DOMAIN hist' /\ \A id \in DOMAIN hist : hist'[id] = hist[id]
  BY DEF Moves
<1>3. FreshInv'
  <2>1. ASSUME NEW k \in Key, NEW j \in DOMAIN uk'[k].cols PROVE Fresh(uk'[k].cols[j])
    BY <1>1 DEF OthersFrom, Fresh
  <2> QED BY <2>1 DEF FreshInv
<1>4. IkeysInv'
  <2>1. \A b : Used(b)' <=> Used(b) BY <1>2 DEF Used
  <2>2. ASSUME NEW k \in Key, NEW j \in DOMAIN uk'[k].cols, uk'[k].cols[j].st = "stored"
        PROVE  Used(uk'[k].cols[j].ikey)
    <3>1. PICK i \in DOMAIN uk[k].cols : uk[k].cols[i].st = "stored" /\ Alike(uk[k].cols[i], uk'[k].cols[j])
      BY <1>1, <2>2 DEF SameStored
    <3> QED BY <3>1 DEF Alike, HolderInv, IkeysInv
  <2>3. \A w \in Worker : Writes(w)' => Used(wk'[w].ikey)
    BY DEF Moves, HolderInv, IkeysInv
  <2>4. /\ \A w \in Worker : ikeys'.own[w] < ikeys'.next
        /\ \A v, w \in Worker : ikeys'.own[v] = ikeys'.own[w] => v = w
        /\ \A t \in Table : \A k \in DOMAIN sktdf'[t] : Used(sktdf'[t][k].ikey)
        /\ \A w \in Worker : /\ \A k \in DOMAIN fl'[w].rows : Used(fl'[w].rows[k].ikey)
                             /\ \A e \in fl'[w].ents : Used(e.ikey)
    BY <1>2 DEF HolderInv, IkeysInv
  <2> HIDE DEF Used, Writes
  <2> QED BY <2>1, <2>2, <2>3, <2>4 DEF IkeysInv
<1>5. EntriesInv'
  <2>1. seq + 1 \notin DOMAIN hist BY DEF ColumnInv, UserType
  <2>2. ASSUME NEW w \in Worker, NEW e \in fl[w].ents
        PROVE  /\ IsEntry(e) /\ e.id \in DOMAIN hist /\ hist'[e.id] = hist[e.id]
               /\ hist[e.id].key \in fl[w].keys \ fl[w].todo /\ hist[e.id].key \in Key
    <3>1. IsEntry(e) /\ e.id \in DOMAIN hist /\ hist[e.id].key \in fl[w].keys \ fl[w].todo
      BY DEF HolderInv, EntriesInv
    <3>2. hist[e.id].key \in Key BY <3>1 DEF ColumnInv, UserType
    <3> QED BY <1>2, <3>1, <3>2
  <2>3. ASSUME NEW w \in Worker, NEW e \in fl[w].ents, NEW k, k = hist[e.id].key,
               NEW j \in DOMAIN uk'[k].cols, uk'[k].cols[j].id = e.id
        PROVE  e.kind = "itr" /\ uk'[k].cols[j].st = "stored" /\ uk'[k].cols[j].committed
    <3>1. k \in Key BY <2>2, <2>3
    <3>2. \A i \in DOMAIN uk[k].cols : uk[k].cols[i].id = e.id =>
             e.kind = "itr" /\ uk[k].cols[i].st = "stored" /\ uk[k].cols[i].committed
      BY <2>3 DEF HolderInv, EntriesInv
    <3>3. CASE uk'[k].cols[j].st = "stored"
      <4>1. PICK i \in DOMAIN uk[k].cols : uk[k].cols[i].st = "stored" /\ Alike(uk[k].cols[i], uk'[k].cols[j])
        BY <1>1, <3>1, <3>3 DEF SameStored
      <4> QED BY <2>3, <3>2, <3>3, <4>1 DEF Alike
    <3>4. CASE uk'[k].cols[j].st # "stored"
      <4>1. uk'[k].cols[j].id # seq + 1 BY <2>1, <2>2, <2>3
      <4>2. PICK i \in DOMAIN uk[k].cols : uk[k].cols[i].st # "stored" /\ uk'[k].cols[j].id = uk[k].cols[i].id
        BY <1>1, <3>1, <3>4, <4>1 DEF OthersFrom
      <4> QED BY <2>3, <3>2, <4>2
    <3> QED BY <3>3, <3>4
  <2>4. \A w \in Worker : \A e, f \in fl[w].ents : e.id = f.id => e = f BY DEF HolderInv, EntriesInv
  <2> QED BY <1>2, <2>2, <2>3, <2>4 DEF EntriesInv
<1> QED BY <1>3, <1>4, <1>5 DEF HolderInv

\* A step that does not touch the columns, the workers and the tables.
LEMMA StillMoves ==
  ASSUME HolderInv, UNCHANGED <<uk, reqs, hist, wk, sktdf, ikeys>>,
         \A w \in Worker : /\ fl'[w].ents = fl[w].ents /\ fl'[w].rows = fl[w].rows
                           /\ fl'[w].keys = fl[w].keys /\ fl'[w].todo = fl[w].todo
  PROVE  Moves
<1>1. \A k \in Key : SameStored(uk[k].cols, uk'[k].cols) /\ OthersFrom(uk[k].cols, uk'[k].cols, seq + 1)
  <2> TAKE k \in Key
  <2>1. \A i \in DOMAIN uk[k].cols : Fresh(uk[k].cols[i]) /\ Alike(uk[k].cols[i], uk[k].cols[i])
    BY DEF HolderInv, FreshInv, Alike
  <2>2. uk'[k].cols = uk[k].cols OBVIOUS
  <2> QED BY <2>1, <2>2 DEF SameStored, OthersFrom
<1>2. \A w \in Worker : Writes(w)' <=> Writes(w) BY DEF Writes
<1>3. \A id, b : Submitted(id, b)' <=> Submitted(id, b) BY <1>2 DEF Submitted, Todo, From
<1> QED BY <1>1, <1>2, <1>3 DEF Moves

\* The counts of blocks that stay.
LEMMA TallyFrame ==
  ASSUME TallyInv, SameUsers, UNCHANGED ikeys,
         blk' = [b \in DOMAIN blk' |-> blk'[b]], DOMAIN blk' \subseteq DOMAIN blk,
         \A b \in DOMAIN blk' : /\ IsBlock(blk'[b]) /\ blk'[b].ref = blk[b].ref /\ blk'[b].nrs = blk[b].nrs
  PROVE  BlockType' /\ RefInv' /\ NrsInv'
<1>1. \A b : Used(b)' <=> Used(b) BY DEF Used
<1>2. BlockType' BY <1>1 DEF TallyInv, BlockType
<1>3. RefInv' BY DEF TallyInv, RefInv, SameUsers
<1>4. NrsInv' BY DEF TallyInv, NrsInv, SameUsers
<1> QED BY <1>2, <1>3, <1>4

\* Nothing changes for the blocks.
LEMMA TallyKept ==
  ASSUME TallyInv, SameUsers, UNCHANGED <<blockVars, lt>>
  PROVE  TallyInv'
<1> USE DEF blockVars
<1>1. BlockType' /\ RefInv' /\ NrsInv' BY TallyFrame DEF TallyInv, BlockType
<1>2. LogType' BY DEF TallyInv, LogType
<1>3. \A b : Used(b)' <=> Used(b) BY DEF Used
<1>4. LogInv' BY <1>3 DEF TallyInv, LogInv
<1> QED BY <1>1, <1>2, <1>4 DEF TallyInv

\* The columns that workers have written are the same.
LEMMA SubmittedSame ==
  ASSUME \A v \in Worker :
            /\ Writes(v)' <=> Writes(v)
            /\ Writes(v) => /\ wk'[v].ikey = wk[v].ikey /\ Todo(v)' = Todo(v)
                            /\ \A i \in Todo(v) : /\ wk'[v].list[i] = wk[v].list[i]
                                                  /\ reqs'[wk[v].list[i]].latest = reqs[wk[v].list[i]].latest
  PROVE  /\ \A id, b : Submitted(id, b)' <=> Submitted(id, b)
         /\ \A w \in Worker : Writes(w)' => Writes(w) /\ wk'[w].ikey = wk[w].ikey
BY DEF Submitted

\* The columns under a new one are the same for their blocks.
LEMMA OlderAlike ==
  ASSUME UserType, NEW k \in Key, NEW tid, NEW s \in Nat, NEW i \in DOMAIN uk[k].cols
  PROVE  Alike(uk[k].cols[i], Older(k, tid, s)[i])
<1> DEFINE cols == uk[k].cols
           O == Older(k, tid, s)
           a == cols[1]
           x == [a EXCEPT !.end = IF ~a.del /\ a.end = MaxSeq THEN s ELSE a.end]
           y == [x EXCEPT !.st = IF a.st = "merged" THEN "lost" ELSE a.st]
           z == [y EXCEPT !.split = IF Splits(k, tid) THEN TRUE ELSE y.split]
<1>1. cols \in Seq(ColumnNode) /\ i \in DOMAIN cols /\ 1 \in DOMAIN cols /\ cols # <<>> /\ a \in ColumnNode
  <2>1. cols \in Seq(ColumnNode) /\ i \in DOMAIN cols BY ColumnTyped
  <2> HIDE DEF cols
  <2> QED BY <2>1
<1>2. CASE i # 1 BY <1>2, OlderFacts DEF Alike
<1>3. CASE i = 1
  <2>1. Superseded(a, s) = y
    <3> HIDE DEF cols
    <3> QED BY <1>1 DEF Superseded, ColumnNode
  <2>2. O = [cols EXCEPT ![1] = [Superseded(a, s) EXCEPT !.split = IF Splits(k, tid) THEN TRUE ELSE @]]
    BY <1>1 DEF Older, NoColumns, Newest
  <2>3. O[1] = z
    <3>1. [Superseded(a, s) EXCEPT !.split = IF Splits(k, tid) THEN TRUE ELSE @] = z BY <2>1
    <3> HIDE DEF O, cols, z
    <3> QED BY <1>1, <2>2, <3>1
  <2>4. Alike(a, x)
    <3> HIDE DEF a
    <3> QED BY <1>1 DEF Alike, ColumnNode
  <2>5. x \in ColumnNode
    <3> HIDE DEF a
    <3> QED BY <1>1 DEF ColumnNode
  <2>6. Alike(a, y)
    <3>1. /\ y.id = x.id /\ y.ikey = x.ikey /\ y.del = x.del /\ y.committed = x.committed
          /\ y.holding = x.holding /\ y.recdel = x.recdel
      <4> HIDE DEF x, a
      <4> QED BY <2>5 DEF ColumnNode
    <3> HIDE DEF x, y, a
    <3> QED BY <2>4, <3>1 DEF Alike
  <2>7. y \in ColumnNode
    <3>1. a.st \in {"pending", "submitting", "merged", "lost", "stored"} BY <1>1 DEF ColumnNode
    <3> HIDE DEF x, a
    <3> QED BY <2>5, <3>1 DEF ColumnNode
  <2>8. Alike(a, z)
    <3>1. /\ z.id = y.id /\ z.ikey = y.ikey /\ z.del = y.del /\ z.committed = y.committed
          /\ z.holding = y.holding /\ z.recdel = y.recdel
      <4> HIDE DEF y, a
      <4> QED BY <2>7 DEF ColumnNode
    <3> HIDE DEF y, z, a
    <3> QED BY <2>6, <3>1 DEF Alike
  <2> QED BY <1>3, <2>3, <2>8
<1> QED BY <1>2, <1>3

\* A write that is inserted: the new column, and its record in the history.
LEMMA InsertIsNew ==
  ASSUME ColumnInv, TableInv, NEW p \in Writer, Store(p), Insert(p)
  PROVE  LET k == NextOp(p).key s == seq + 1 IN
         /\ k \in Key /\ Len(uk[k].cols) \in Nat /\ DOMAIN uk[k].cols = 1..Len(uk[k].cols)
         /\ DOMAIN uk'[k].cols = 1..(Len(uk[k].cols) + 1)
         /\ uk'[k].cols[1].id = s /\ uk'[k].cols[1].st = "pending" /\ ~uk'[k].cols[1].committed
         /\ ~uk'[k].cols[1].holding /\ uk'[k].cols[1].del = NextOp(p).del
         /\ \A i \in DOMAIN uk[k].cols :
               /\ Alike(uk[k].cols[i], uk'[k].cols[i + 1])
               /\ uk'[k].cols[i + 1].st = "stored" <=> uk[k].cols[i].st = "stored"
               /\ uk'[k].cols[i + 1].st \in {"pending", "submitting"} => uk'[k].cols[i + 1].st = uk[k].cols[i].st
         /\ \A j \in Key : j # k => uk'[j] = uk[j]
         /\ DOMAIN hist' = DOMAIN hist \cup {s} /\ s \notin DOMAIN hist
         /\ hist'[s].key = k /\ hist'[s].del = NextOp(p).del
         /\ \A id \in DOMAIN hist : hist'[id] = hist[id]
         /\ \A r \in DOMAIN reqs : reqs[r].latest # 0 => reqs'[r].latest = reqs[r].latest
         /\ UNCHANGED <<wk, fl, sktdf, ikeys>>
<1> USE DEF ColumnInv
<1> DEFINE b == Current(p)
           op == NextOp(p)
           k == op.key
           s == seq + 1
           first == b.count > 1 /\ b.tid = NoTrxn
           tid == IF first THEN nextTrxn ELSE b.tid
           c == Column(s, op.del, tid # NoTrxn)
           A == uk[k].cols
           O == Older(k, tid, s)
           B == <<c>> \o O
           rq == IF New(k, tid) THEN s ELSE uk[k].req
           u == [uk[k] EXCEPT !.present = TRUE, !.dirty = TRUE, !.last = tid.g, !.cols = B, !.req = rq]
<1>1. op \in Op BY CurrentFacts DEF Store
<1>2. k \in Key /\ s \in Nat /\ uk \in [Key -> UserKey] /\ uk[k] \in UserKey BY <1>1 DEF Op, UserType
<1>3. /\ seq' = s /\ Schedule(k, tid, s) /\ uk' = [uk EXCEPT ![k] = u]
      /\ hist' = With(hist, s, [key |-> k, del |-> op.del, tid |-> tid])
  BY DEF Insert, New
<1>4. UNCHANGED <<wk, fl, sktdf, ikeys>> BY DEF Store, blockVars
<1>5. c.id = s /\ c.st = "pending" /\ c.committed = FALSE /\ c.holding = FALSE /\ c.del = op.del
  BY DEF Column
<1> HIDE DEF tid, c
<1>6. /\ A \in Seq(ColumnNode) /\ Len(A) \in Nat /\ DOMAIN A = 1..Len(A)
      /\ O \in Seq(ColumnNode) /\ Len(O) = Len(A) /\ DOMAIN O = DOMAIN A
      /\ \A i \in DOMAIN A : O[i].st = IF i = 1 /\ A[i].st = "merged" THEN "lost" ELSE A[i].st
  BY <1>2, OlderFacts
<1>7. \A i \in DOMAIN A : Alike(A[i], O[i]) BY <1>2, OlderAlike
<1> HIDE DEF O, A
<1>8. Len(B) = Len(A) + 1 /\ DOMAIN B = 1..(Len(A) + 1) /\ B[1] = c /\ \A i \in DOMAIN A : B[i + 1] = O[i]
  BY <1>6
<1> HIDE DEF B
<1>9. u.cols = B BY <1>2 DEF UserKey
<1> HIDE DEF u, k
<1>10. uk'[k] = u /\ \A j \in Key : j # k => uk'[j] = uk[j] BY <1>2, <1>3
<1>11. s \notin DOMAIN hist BY DEF UserType
<1>12. /\ DOMAIN hist' = DOMAIN hist \cup {s} /\ hist'[s] = [key |-> k, del |-> op.del, tid |-> tid]
       /\ \A id \in DOMAIN hist : hist'[id] = hist[id]
  BY <1>3, <1>11 DEF With
<1>13. hist'[s].key = k /\ hist'[s].del = op.del BY <1>12
<1>14. ASSUME NEW r \in DOMAIN reqs, reqs[r].latest # 0 PROVE reqs'[r].latest = reqs[r].latest
  <2>0. PICK j \in Key : \E t, d : Inserts(p, j, t, d) BY InsertIs
  <2>1. PICK t, d : Inserts(p, j, t, d) BY <2>0
  <2>2. Scheduling(j, t) BY <2>1, InsertSchedules
  <2>3. reqs'[r].latest = IF r = uk[j].req /\ Splits(j, t) THEN Newest(j).id ELSE reqs[r].latest
    BY <2>2 DEF Scheduling
  <2>4. r # uk[j].req
    <3>1. r # 0 BY DEF UserType
    <3> QED BY <1>14, <2>1, <3>1 DEF OpenInv
  <2> QED BY <2>3, <2>4
<1>15. \A i \in DOMAIN A : /\ Alike(A[i], B[i + 1])
                           /\ B[i + 1].st = "stored" <=> A[i].st = "stored"
                           /\ B[i + 1].st \in {"pending", "submitting"} => B[i + 1].st = A[i].st
  <2> TAKE i \in DOMAIN A
  <2>1. B[i + 1] = O[i] /\ Alike(A[i], O[i]) BY <1>7, <1>8
  <2>2. O[i].st = IF i = 1 /\ A[i].st = "merged" THEN "lost" ELSE A[i].st BY <1>6
  <2> QED BY <2>1, <2>2
<1> QED BY <1>2, <1>4, <1>5, <1>6, <1>8, <1>9, <1>10, <1>11, <1>12, <1>13, <1>14, <1>15 DEF A, k

\* A write that is inserted leaves the older columns in their blocks.
LEMMA InsertMoves ==
  ASSUME ColumnInv, HolderInv, TableInv, NEW p \in Writer, Store(p), Insert(p)
  PROVE  Moves
<1> USE DEF ColumnInv
<1> DEFINE k == NextOp(p).key
           A == uk[k].cols
           B == uk'[k].cols
<1>1. /\ k \in Key /\ Len(A) \in Nat /\ DOMAIN A = 1..Len(A) /\ DOMAIN B = 1..(Len(A) + 1)
      /\ B[1].id = seq + 1 /\ B[1].st = "pending" /\ ~B[1].committed /\ ~B[1].holding
      /\ \A i \in DOMAIN A :
               /\ Alike(A[i], B[i + 1])
               /\ B[i + 1].st = "stored" <=> A[i].st = "stored"
               /\ B[i + 1].st \in {"pending", "submitting"} => B[i + 1].st = A[i].st
  BY InsertIsNew
<1>2. /\ \A j \in Key : j # k => uk'[j] = uk[j]
      /\ DOMAIN hist \subseteq DOMAIN hist' /\ \A id \in DOMAIN hist : hist'[id] = hist[id]
      /\ \A r \in DOMAIN reqs : reqs[r].latest # 0 => reqs'[r].latest = reqs[r].latest
      /\ UNCHANGED <<wk, fl, sktdf, ikeys>>
  BY InsertIsNew
<1>3. \A i \in DOMAIN A : Fresh(A[i]) BY <1>1 DEF HolderInv, FreshInv
<1> HIDE DEF k, A, B
<1>4. \A j \in DOMAIN B : j = 1 \/ (j - 1 \in DOMAIN A /\ j = (j - 1) + 1)
  BY <1>1
<1>5. SameStored(A, B)
  <2>1. ASSUME NEW i \in DOMAIN A, A[i].st = "stored"
        PROVE  \E j \in DOMAIN B : B[j].st = "stored" /\ Alike(A[i], B[j])
    <3>1. i + 1 \in DOMAIN B BY <1>1
    <3> QED BY <1>1, <2>1, <3>1
  <2>2. ASSUME NEW j \in DOMAIN B, B[j].st = "stored"
        PROVE  \E i \in DOMAIN A : A[i].st = "stored" /\ Alike(A[i], B[j])
    <3>1. j # 1 BY <1>1, <2>2
    <3>2. j - 1 \in DOMAIN A /\ j = (j - 1) + 1 BY <1>4, <3>1
    <3> QED BY <1>1, <2>2, <3>2
  <2> QED BY <2>1, <2>2 DEF SameStored
<1>6. OthersFrom(A, B, seq + 1)
  <2>1. ASSUME NEW j \in DOMAIN B, B[j].st # "stored"
        PROVE  /\ Fresh(B[j])
               /\ \/ B[j].id = seq + 1
                  \/ \E i \in DOMAIN A : A[i].st # "stored" /\ B[j].id = A[i].id /\ B[j].del = A[i].del
    <3>1. CASE j = 1 BY <1>1, <3>1 DEF Fresh
    <3>2. CASE j # 1
      <4>1. j - 1 \in DOMAIN A /\ j = (j - 1) + 1 BY <1>4, <3>2
      <4>2. /\ Alike(A[j - 1], B[j]) /\ A[j - 1].st # "stored"
            /\ B[j].st \in {"pending", "submitting"} => B[j].st = A[j - 1].st
        BY <1>1, <2>1, <4>1
      <4>3. Fresh(B[j]) BY <1>3, <4>1, <4>2 DEF Fresh, Alike
      <4> QED BY <4>1, <4>2, <4>3 DEF Alike
    <3> QED BY <3>1, <3>2
  <2> QED BY <2>1 DEF OthersFrom
<1>7. ASSUME NEW j \in Key
      PROVE  SameStored(uk[j].cols, uk'[j].cols) /\ OthersFrom(uk[j].cols, uk'[j].cols, seq + 1)
  <2>1. CASE j = k BY <1>5, <1>6, <2>1 DEF A, B
  <2>2. CASE j # k
    <3>1. \A i \in DOMAIN uk[j].cols : Fresh(uk[j].cols[i]) /\ Alike(uk[j].cols[i], uk[j].cols[i])
      BY DEF HolderInv, FreshInv, Alike
    <3>2. uk'[j].cols = uk[j].cols BY <1>2, <2>2
    <3> QED BY <3>1, <3>2 DEF SameStored, OthersFrom
  <2> QED BY <2>1, <2>2
<1>8. /\ \A id, b : Submitted(id, b)' <=> Submitted(id, b)
      /\ \A w \in Worker : Writes(w)' => Writes(w) /\ wk'[w].ikey = wk[w].ikey
  <2>1. ASSUME NEW v \in Worker
        PROVE  /\ (Writes(v)' <=> Writes(v)) /\ wk'[v] = wk[v] /\ Todo(v)' = Todo(v)
               /\ \A i \in Todo(v) : reqs'[wk[v].list[i]].latest = reqs[wk[v].list[i]].latest
    BY <1>2 DEF Writes, Todo, From, WorkerPlaces
  <2> QED BY <1>2, <2>1, SubmittedSame
<1> QED BY <1>2, <1>7, <1>8 DEF Moves

\* A list of which each column stays as it is for its block, or waits and is submitted.
LEMMA ListMoves ==
  ASSUME NEW A, NEW B, NEW n, DOMAIN B = DOMAIN A,
         \A i \in DOMAIN A :
            /\ Fresh(A[i]) /\ Alike(A[i], B[i])
            /\ B[i].st = A[i].st \/ (A[i].st \in {"pending", "submitting"} /\ B[i].st = "submitting")
  PROVE  SameStored(A, B) /\ OthersFrom(A, B, n)
<1>1. SameStored(A, B) BY DEF SameStored
<1>2. ASSUME NEW j \in DOMAIN B, B[j].st # "stored"
      PROVE  /\ Fresh(B[j])
             /\ \E i \in DOMAIN A : A[i].st # "stored" /\ B[j].id = A[i].id /\ B[j].del = A[i].del
  <2>1. Fresh(A[j]) /\ Alike(A[j], B[j]) /\ A[j].st # "stored" BY <1>2
  <2>2. Fresh(B[j]) BY <2>1 DEF Fresh, Alike
  <2> QED BY <2>1, <2>2 DEF Alike
<1>3. OthersFrom(A, B, n) BY <1>2 DEF OthersFrom
<1> QED BY <1>1, <1>3

\* A list that does not change.
LEMMA ListStays ==
  ASSUME HolderInv, NEW k \in Key, NEW n, uk'[k].cols = uk[k].cols
  PROVE  SameStored(uk[k].cols, uk'[k].cols) /\ OthersFrom(uk[k].cols, uk'[k].cols, n)
<1>1. \A i \in DOMAIN uk[k].cols : Fresh(uk[k].cols[i]) /\ Alike(uk[k].cols[i], uk[k].cols[i])
  BY DEF HolderInv, FreshInv, Alike
<1> QED BY <1>1, ListMoves

\* A worker takes requests.
LEMMA PopMoves ==
  ASSUME ColumnInv, HolderInv, NEW w \in Worker, Pop(w)
  PROVE  Moves
<1> USE DEF ColumnInv
<1> DEFINE n == Taken
           mine == {pending[i] : i \in 1..n}
           heads == {Header(r) : r \in mine}
<1>1. /\ wk[w].pc = "idle" /\ pending # <<>>
      /\ reqs' = [r \in DOMAIN reqs |->
                     IF r \in mine THEN [reqs[r] EXCEPT !.latest = Header(r)] ELSE reqs[r]]
      /\ uk' = [k \in Key |->
                   [uk[k] EXCEPT !.req = IF @ \in mine THEN 0 ELSE @, !.cols = Submitting(@, heads)]]
      /\ wk' = [wk EXCEPT ![w].pc = "merge", ![w].list = SubSeq(pending, 1, n)]
      /\ UNCHANGED <<seq, hist, fl, sktdf, ikeys>>
  BY DEF Pop, Idle, blockVars, n, mine, heads
<1>2. \A r \in mine : r \in DOMAIN reqs /\ \E i \in DOMAIN pending : r = pending[i]
  <2>1. pending \in Seq(Nat) BY DEF UserType
  <2>2. n \in 1..Len(pending) BY <1>1, <2>1, TakenFacts
  <2> HIDE DEF n
  <2>3. \A i \in 1..n : i \in DOMAIN pending BY <2>1, <2>2
  <2> QED BY <2>3 DEF Places
<1>3. \A id \in heads : \E r \in mine : id = Header(r) OBVIOUS
<1> HIDE DEF n, mine, heads
<1>4. ASSUME NEW k \in Key
      PROVE  SameStored(uk[k].cols, uk'[k].cols) /\ OthersFrom(uk[k].cols, uk'[k].cols, seq + 1)
  <2> DEFINE A == uk[k].cols
             B == Submitting(A, heads)
             rq == IF uk[k].req \in mine THEN 0 ELSE uk[k].req
             u == [uk[k] EXCEPT !.req = rq]
  <2>1. uk[k] \in UserKey /\ uk[k].req \in Nat BY DEF UserType, UserKey
  <2>2. uk'[k].cols = B
    <3>1. uk'[k] = [uk[k] EXCEPT !.req = rq, !.cols = B] BY <1>1
    <3> HIDE DEF B, rq
    <3> QED BY <2>1, <3>1 DEF UserKey
  <2>3. ASSUME NEW i \in DOMAIN A, A[i].id \in heads PROVE A[i].st \in {"pending", "submitting"}
    <3>1. PICK r \in mine : A[i].id = Header(r) BY <1>3, <2>3
    <3>2. r \in DOMAIN reqs BY <1>2
    <3>3. PICK x \in DOMAIN uk[reqs[r].key].cols :
             /\ uk[reqs[r].key].cols[x].id = Header(r)
             /\ uk[reqs[r].key].cols[x].st \in {"pending", "submitting"}
      BY <3>2, HeaderFacts
    <3>4. reqs[r].key \in Key BY <3>2, HeaderFacts
    <3>5. reqs[r].key = k /\ x = i BY <3>1, <3>3, <3>4, OnePlace
    <3> QED BY <3>3, <3>5
  <2>4. ASSUME NEW i \in DOMAIN A
        PROVE  /\ Fresh(A[i]) /\ Alike(A[i], B[i])
               /\ B[i].st = A[i].st \/ (A[i].st \in {"pending", "submitting"} /\ B[i].st = "submitting")
    <3> DEFINE c == A[i]
               x == [c EXCEPT !.st = "submitting"]
               d == [x EXCEPT !.split = FALSE]
    <3>1. c \in ColumnNode BY ColumnTyped
    <3>2. Fresh(c) BY DEF HolderInv, FreshInv
    <3>3. B[i] = IF c.id \in heads THEN [c EXCEPT !.st = "submitting", !.split = FALSE] ELSE c BY DEF Submitting
    <3>4. x \in ColumnNode /\ Alike(c, x) /\ x.st = "submitting"
      <4> HIDE DEF c
      <4> QED BY <3>1 DEF ColumnNode, Alike
    <3>5. Alike(c, d) /\ d.st = "submitting"
      <4>1. /\ d.id = x.id /\ d.ikey = x.ikey /\ d.del = x.del /\ d.committed = x.committed
            /\ d.holding = x.holding /\ d.recdel = x.recdel /\ d.st = x.st
        <5> HIDE DEF x
        <5> QED BY <3>4 DEF ColumnNode
      <4> HIDE DEF c, x, d
      <4> QED BY <3>4, <4>1 DEF Alike
    <3>6. c.id \in heads => c.st \in {"pending", "submitting"} BY <2>3
    <3>7. [c EXCEPT !.st = "submitting", !.split = FALSE] = d OBVIOUS
    <3>8. Alike(c, c) BY DEF Alike
    <3> HIDE DEF c, d, B
    <3>9. CASE c.id \in heads
      <4>1. B[i] = d BY <3>3, <3>7, <3>9
      <4>2. Alike(c, B[i]) /\ B[i].st = "submitting" /\ c.st \in {"pending", "submitting"}
        BY <3>5, <3>6, <3>9, <4>1
      <4> QED BY <3>2, <4>2 DEF c
    <3>10. CASE c.id \notin heads
      <4>1. B[i] = c BY <3>3, <3>10
      <4> QED BY <3>2, <3>8, <4>1 DEF c
    <3> QED BY <3>9, <3>10
  <2>5. DOMAIN B = DOMAIN A BY DEF Submitting
  <2> HIDE DEF A, B
  <2>6. SameStored(A, B) /\ OthersFrom(A, B, seq + 1) BY <2>4, <2>5, ListMoves
  <2> QED BY <2>2, <2>6 DEF A
<1>5. ASSUME NEW v \in Worker
      PROVE  /\ (Writes(v)' <=> Writes(v))
             /\ Writes(v) => /\ wk'[v].ikey = wk[v].ikey /\ Todo(v)' = Todo(v)
                             /\ \A i \in Todo(v) : /\ wk'[v].list[i] = wk[v].list[i]
                                                   /\ reqs'[wk[v].list[i]].latest = reqs[wk[v].list[i]].latest
  <2>1. CASE v = w
    <3>1. wk'[w].pc = "merge" BY <1>1 DEF WorkerType, IsWorker
    <3> QED BY <1>1, <2>1, <3>1 DEF Writes
  <2>2. CASE v # w
    <3>1. wk'[v] = wk[v] BY <1>1, <2>2 DEF WorkerType
    <3>2. \A i \in Todo(v) : wk[v].list[i] \notin mine /\ wk[v].list[i] \in DOMAIN reqs
      BY <1>2 DEF WorkerPlaces
    <3>3. \A i \in Todo(v) : reqs'[wk[v].list[i]] = reqs[wk[v].list[i]] BY <1>1, <3>2
    <3> QED BY <3>1, <3>3 DEF Writes, Todo, From
  <2> QED BY <2>1, <2>2
<1>6. /\ \A id, b : Submitted(id, b)' <=> Submitted(id, b)
      /\ \A v \in Worker : Writes(v)' => Writes(v) /\ wk'[v].ikey = wk[v].ikey
  BY <1>5, SubmittedSame
<1> QED BY <1>1, <1>4, <1>6 DEF Moves

\* Only waiting columns are merged.
LEMMA MergedWait ==
  ASSUME NEW cols \in Seq(ColumnNode), NEW h \in 1..Len(cols), NEW i \in (h + 1)..(MergeEnd(cols, h) - 1)
  PROVE  i \in DOMAIN cols /\ cols[i].st = "pending"
<1> DEFINE S == {j \in (h + 1)..(Len(cols) + 1) : j = Len(cols) + 1 \/ StopsMerge(cols[j])}
           e == MergeEnd(cols, h)
<1>1. Len(cols) \in Nat /\ DOMAIN cols = 1..Len(cols) /\ h \in Nat /\ 1 <= h OBVIOUS
<1>2. e \in (h + 1)..(Len(cols) + 1) BY MergeEndFacts
<1>3. Len(cols) + 1 \in S BY <1>1
<1>4. S \subseteq Nat BY <1>1
<1>5. e = MinOf(S) BY DEF MergeEnd
<1> HIDE DEF S
<1>6. \E n \in S : \A m \in S : n <= m BY <1>3, <1>4, Smallest
<1>7. \A m \in S : e <= m BY <1>5, <1>6 DEF MinOf
<1>8. i \in (h + 1)..(e - 1) OBVIOUS
<1> HIDE DEF e
<1>9. i \in (h + 1)..(Len(cols) + 1) /\ i \in DOMAIN cols /\ ~(e <= i) BY <1>1, <1>2, <1>8
<1>10. i \notin S BY <1>7, <1>9
<1>11. ~StopsMerge(cols[i]) BY <1>9, <1>10 DEF S
<1> QED BY <1>9, <1>11 DEF StopsMerge

\* The list after a merge.
LEMMA MergeList ==
  ASSUME NEW A \in Seq(ColumnNode), NEW h \in 1..Len(A), \A i \in DOMAIN A : Fresh(A[i]), NEW n
  PROVE  LET B == AfterMerge(A, h, MergeEnd(A, h)) IN SameStored(A, B) /\ OthersFrom(A, B, n)
<1> DEFINE e == MergeEnd(A, h)
           C == [i \in DOMAIN A |->
                    IF i = h THEN [A[i] EXCEPT !.trxn = FALSE]
                    ELSE IF i = e THEN [A[i] EXCEPT !.split = FALSE]
                    ELSE IF h < i /\ i < e
                    THEN [A[i] EXCEPT !.st = "merged", !.committed = TRUE, !.trxn = FALSE]
                    ELSE A[i]]
           R == {i \in (h + 1)..(e - 1) : ~Seen(A, DOMAIN snaps, h, i)}
           B == AfterMerge(A, h, e)
<1>1. /\ Len(A) \in Nat /\ DOMAIN A = 1..Len(A) /\ h \in Nat /\ 1 <= h /\ h <= Len(A)
      /\ \A i \in DOMAIN A : i \in Nat /\ A[i] \in ColumnNode
  OBVIOUS
<1>2. e \in Nat /\ h < e
  <2>1. e \in (h + 1)..(Len(A) + 1) BY MergeEndFacts
  <2> HIDE DEF e
  <2> QED BY <1>1, <2>1
<1>3. \A i \in (h + 1)..(e - 1) : i \in DOMAIN A /\ A[i].st = "pending" BY MergedWait
<1>4. B = Keep(C, R) BY DEF AfterMerge
<1> HIDE DEF e
<1>5. ASSUME NEW i \in DOMAIN A
      PROVE  /\ C[i] \in ColumnNode
             /\ \/ C[i].st = A[i].st /\ Alike(A[i], C[i])
                \/ /\ A[i].st = "pending" /\ C[i].st = "merged" /\ C[i].id = A[i].id
                   /\ C[i].del = A[i].del /\ ~C[i].holding
  <2> DEFINE c == A[i]
             x == [c EXCEPT !.st = "merged"]
             y == [x EXCEPT !.committed = TRUE]
             z == [y EXCEPT !.trxn = FALSE]
             s == [c EXCEPT !.split = FALSE]
             t == [c EXCEPT !.trxn = FALSE]
  <2>1. c \in ColumnNode /\ Alike(c, c) BY <1>1 DEF Alike
  <2>2. Fresh(c) OBVIOUS
  <2>3. C[i] = IF i = h THEN t ELSE IF i = e THEN s ELSE IF h < i /\ i < e THEN z ELSE c OBVIOUS
  <2>4. h < i /\ i < e => c.st = "pending"
    <3>1. h < i /\ i < e => i \in (h + 1)..(e - 1) BY <1>1, <1>2
    <3> QED BY <1>3, <3>1
  <2> HIDE DEF c, C
  <2>5. t \in ColumnNode /\ t.st = c.st /\ Alike(c, t) BY <2>1 DEF ColumnNode, Alike
  <2>6. s \in ColumnNode /\ s.st = c.st /\ Alike(c, s) BY <2>1 DEF ColumnNode, Alike
  <2>7. x \in ColumnNode /\ x.st = "merged" /\ x.id = c.id /\ x.del = c.del /\ x.holding = c.holding
    BY <2>1 DEF ColumnNode
  <2>8. y \in ColumnNode /\ y.st = x.st /\ y.id = x.id /\ y.del = x.del /\ y.holding = x.holding
    <3> HIDE DEF x
    <3> QED BY <2>7 DEF ColumnNode
  <2>9. z \in ColumnNode /\ z.st = y.st /\ z.id = y.id /\ z.del = y.del /\ z.holding = y.holding
    <3> HIDE DEF y
    <3> QED BY <2>8 DEF ColumnNode
  <2>10. c.st = "pending" => ~c.holding BY <2>2 DEF Fresh
  <2>11. CASE C[i] = t BY <2>5, <2>11 DEF c
  <2>12. CASE C[i] = s BY <2>6, <2>12 DEF c
  <2>13. CASE C[i] = c BY <2>1, <2>13 DEF c
  <2>14. CASE C[i] = z /\ c.st = "pending"
    <3>1. z.st = "merged" /\ z.id = c.id /\ z.del = c.del /\ ~z.holding BY <2>7, <2>8, <2>9, <2>10, <2>14
    <3> QED BY <2>9, <2>14, <3>1 DEF c
  <2> HIDE DEF t, s, z
  <2> QED BY <2>3, <2>4, <2>11, <2>12, <2>13, <2>14
<1>6. C \in Seq(ColumnNode) /\ DOMAIN C = DOMAIN A
  <2>1. DOMAIN C = DOMAIN A /\ C = [i \in 1..Len(A) |-> C[i]] BY <1>1
  <2> HIDE DEF C
  <2> QED BY <1>1, <1>5, <2>1
<1> HIDE DEF C
<1>7. \A i \in R : A[i].st = "pending" BY <1>3
<1> HIDE DEF R, B
<1>8. PICK f : KeptAt(C, R, f) /\ \A m \in DOMAIN B : B[m] = C[f[m]]
  <2>1. \E f : KeptList(C, R, Keep(C, R), f) BY <1>6, KeepFacts
  <2> QED BY <1>4, <2>1 DEF KeptList
<1>9. DOMAIN B = DOMAIN f
  <2>1. B \in Seq(ColumnNode) /\ Len(B) = Cardinality(DOMAIN C \ R) BY <1>4, <1>6, KeepFacts
  <2>2. DOMAIN f = 1..Cardinality(DOMAIN C \ R) BY <1>8 DEF KeptAt
  <2> QED BY <2>1, <2>2
<1>10. \A m \in DOMAIN B : f[m] \in DOMAIN A /\ B[m] = C[f[m]]
  <2>1. f \in [1..Cardinality(DOMAIN C \ R) -> DOMAIN C \ R] BY <1>8 DEF KeptAt
  <2> QED BY <1>6, <1>8, <1>9, <2>1
<1>11. \A i \in DOMAIN A : i \notin R => \E m \in DOMAIN B : B[m] = C[i]
  <2> TAKE i \in DOMAIN A
  <2> HAVE i \notin R
  <2> DEFINE m == OrderOf(DOMAIN C \ R, i)
  <2>1. m \in DOMAIN f /\ f[m] = i BY <1>6, <1>8 DEF KeptAt
  <2> HIDE DEF m
  <2> QED BY <1>8, <1>9, <2>1
<1>12. SameStored(A, B)
  <2>1. ASSUME NEW i \in DOMAIN A, A[i].st = "stored"
        PROVE  \E j \in DOMAIN B : B[j].st = "stored" /\ Alike(A[i], B[j])
    <3>1. i \notin R BY <1>7, <2>1
    <3>2. PICK m \in DOMAIN B : B[m] = C[i] BY <1>11, <3>1
    <3>3. C[i].st = "stored" /\ Alike(A[i], C[i]) BY <1>5, <2>1
    <3> QED BY <3>2, <3>3
  <2>2. ASSUME NEW j \in DOMAIN B, B[j].st = "stored"
        PROVE  \E i \in DOMAIN A : A[i].st = "stored" /\ Alike(A[i], B[j])
    <3>1. f[j] \in DOMAIN A /\ B[j] = C[f[j]] BY <1>10
    <3>2. A[f[j]].st = "stored" /\ Alike(A[f[j]], C[f[j]]) BY <1>5, <2>2, <3>1
    <3> QED BY <3>1, <3>2
  <2> QED BY <2>1, <2>2 DEF SameStored
<1>13. OthersFrom(A, B, n)
  <2>1. ASSUME NEW j \in DOMAIN B, B[j].st # "stored"
        PROVE  /\ Fresh(B[j])
               /\ \E i \in DOMAIN A : A[i].st # "stored" /\ B[j].id = A[i].id /\ B[j].del = A[i].del
    <3>1. f[j] \in DOMAIN A /\ B[j] = C[f[j]] BY <1>10
    <3> DEFINE i == f[j]
    <3>2. Fresh(A[i]) BY <3>1
    <3> HIDE DEF i
    <3>3. i \in DOMAIN A /\ B[j] = C[i] BY <3>1 DEF i
    <3>4. CASE C[i].st = A[i].st /\ Alike(A[i], C[i])
      <4>1. Fresh(C[i]) BY <3>2, <3>4 DEF Fresh, Alike
      <4>2. A[i].st # "stored" /\ C[i].id = A[i].id /\ C[i].del = A[i].del BY <2>1, <3>3, <3>4 DEF Alike
      <4> QED BY <3>3, <4>1, <4>2
    <3>5. CASE /\ A[i].st = "pending" /\ C[i].st = "merged" /\ C[i].id = A[i].id
               /\ C[i].del = A[i].del /\ ~C[i].holding
      <4>1. Fresh(C[i]) BY <3>5 DEF Fresh
      <4> QED BY <3>3, <3>5, <4>1
    <3> QED BY <1>5, <3>3, <3>4, <3>5
  <2> QED BY <2>1 DEF OthersFrom
<1> QED BY <1>12, <1>13 DEF B, e

\* A worker merges the columns of a key.
LEMMA MergeMoves ==
  ASSUME ColumnInv, HolderInv, NEW w \in Worker, Merge(w)
  PROVE  Moves
<1> USE DEF ColumnInv
<1> DEFINE r == wk[w].list[wk[w].pos]
           k == reqs[r].key
           A == uk[k].cols
           h == At(k, reqs[r].latest)
           B == AfterMerge(A, h, MergeEnd(A, h))
           last == wk[w].pos = Len(wk[w].list)
<1>1. /\ wk[w].pc = "merge" /\ uk' = [uk EXCEPT ![k].cols = B]
      /\ UNCHANGED <<seq, hist, fl, sktdf, ikeys>>
  BY DEF Merge, blockVars
<1>2. PICK g : reqs' = [reqs EXCEPT ![r].built = TRUE, ![r].tgid = g] BY DEF Merge
<1>3. PICK l : wk' = [wk EXCEPT ![w] = [wk[w] EXCEPT !.pc = IF last THEN "put" ELSE "merge",
                                                     !.pos = IF last THEN 1 ELSE wk[w].pos + 1,
                                                     !.log = l]]
  BY DEF Merge
<1>4. r \in DOMAIN reqs /\ reqs[r].latest # 0
  <2>1. wk[w].pos \in 1..Len(wk[w].list) /\ Todo(w) = 1..Len(wk[w].list)
    BY <1>1 DEF WorkerPlaces, Todo, From
  <2> QED BY <2>1 DEF WorkerPlaces
<1> HIDE DEF r
<1>5. k \in Key /\ uk[k] \in UserKey /\ A \in Seq(ColumnNode) /\ h \in DOMAIN A BY <1>4, AtFacts
<1> HIDE DEF h, k
<1>6. uk'[k].cols = B /\ \A j \in Key : j # k => uk'[j] = uk[j]
  <2>1. uk \in [Key -> UserKey] BY DEF UserType
  <2> HIDE DEF B
  <2> QED BY <1>1, <1>5, <2>1 DEF UserKey
<1>7. SameStored(A, B) /\ OthersFrom(A, B, seq + 1)
  <2>1. \A i \in DOMAIN A : Fresh(A[i]) BY <1>5 DEF HolderInv, FreshInv
  <2> HIDE DEF A
  <2>2. h \in 1..Len(A) BY <1>5
  <2> QED BY <1>5, <2>1, <2>2, MergeList
<1> HIDE DEF B
<1>8. ASSUME NEW j \in Key
      PROVE  SameStored(uk[j].cols, uk'[j].cols) /\ OthersFrom(uk[j].cols, uk'[j].cols, seq + 1)
  <2>1. CASE j = k BY <1>6, <1>7, <2>1
  <2>2. CASE j # k
    <3>1. uk'[j].cols = uk[j].cols BY <1>6, <2>2
    <3> QED BY <3>1, ListStays
  <2> QED BY <2>1, <2>2
<1>9. \A x \in DOMAIN reqs : reqs'[x].latest = reqs[x].latest
  <2> TAKE x \in DOMAIN reqs
  <2>1. IsRequest(reqs[x]) BY DEF UserType, AreRequests
  <2>2. CASE x # r BY <1>2, <2>2
  <2>3. CASE x = r
    <3> DEFINE y == [reqs[x] EXCEPT !.built = TRUE]
    <3>1. reqs'[x] = [y EXCEPT !.tgid = g] BY <1>2, <2>3
    <3>2. y.latest = reqs[x].latest /\ IsRequest(y) BY <2>1 DEF IsRequest
    <3> HIDE DEF y
    <3> QED BY <3>1, <3>2 DEF IsRequest
  <2> QED BY <2>2, <2>3
<1>10. ASSUME NEW v \in Worker
       PROVE  /\ (Writes(v)' <=> Writes(v))
              /\ Writes(v) => /\ wk'[v].ikey = wk[v].ikey /\ Todo(v)' = Todo(v)
                              /\ \A i \in Todo(v) : /\ wk'[v].list[i] = wk[v].list[i]
                                                    /\ reqs'[wk[v].list[i]].latest = reqs[wk[v].list[i]].latest
  <2>1. CASE v = w
    <3>1. wk'[w].pc \in {"put", "merge"} BY <1>3 DEF WorkerType, IsWorker
    <3> QED BY <1>1, <2>1, <3>1 DEF Writes
  <2>2. CASE v # w
    <3>1. wk'[v] = wk[v] BY <1>3, <2>2 DEF WorkerType
    <3>2. \A i \in Todo(v) : wk[v].list[i] \in DOMAIN reqs BY DEF WorkerPlaces
    <3> QED BY <1>9, <3>1, <3>2 DEF Writes, Todo, From
  <2> QED BY <2>1, <2>2
<1>11. /\ \A id, b : Submitted(id, b)' <=> Submitted(id, b)
       /\ \A v \in Worker : Writes(v)' => Writes(v) /\ wk'[v].ikey = wk[v].ikey
  BY <1>10, SubmittedSame
<1> QED BY <1>1, <1>8, <1>11 DEF Moves

\* The transaction of a header leaves its group.
LEMMA DecreaseMoves ==
  ASSUME ColumnInv, HolderInv, NEW w \in Worker, Decrease(w)
  PROVE  Moves
<1> USE DEF ColumnInv
<1>1. /\ wk[w].pc = "submit" /\ wk' = [wk EXCEPT ![w].pc = "update"]
      /\ UNCHANGED <<uk, reqs, hist, fl, sktdf, ikeys>>
  BY DEF Decrease, userVars, blockVars
<1>2. ASSUME NEW v \in Worker
      PROVE  (Writes(v)' <=> Writes(v)) /\ wk'[v].ikey = wk[v].ikey /\ Todo(v)' = Todo(v)
             /\ wk'[v].list = wk[v].list
  <2>1. CASE v = w
    <3>1. /\ wk'[w].pc = "update" /\ wk'[w].ikey = wk[w].ikey /\ wk'[w].list = wk[w].list
          /\ wk'[w].pos = wk[w].pos
      BY <1>1 DEF WorkerType, IsWorker
    <3> QED BY <1>1, <2>1, <3>1 DEF Writes, Todo, From
  <2>2. CASE v # w
    <3>1. wk'[v] = wk[v] BY <1>1, <2>2 DEF WorkerType
    <3> QED BY <3>1 DEF Writes, Todo, From
  <2> QED BY <2>1, <2>2
<1>3. /\ \A id, b : Submitted(id, b)' <=> Submitted(id, b)
      /\ \A v \in Worker : Writes(v)' => Writes(v) /\ wk'[v].ikey = wk[v].ikey
  BY <1>1, <1>2, SubmittedSame
<1>4. \A k \in Key : SameStored(uk[k].cols, uk'[k].cols) /\ OthersFrom(uk[k].cols, uk'[k].cols, seq + 1)
  BY <1>1, ListStays
<1> QED BY <1>1, <1>3, <1>4 DEF Moves

\* Steps that leave the blocks alone too.
LEMMA MovesTally ==
  ASSUME ColumnInv, HolderInv, TallyInv, Moves, UNCHANGED <<blockVars, lt>>
  PROVE  HolderInv' /\ TallyInv'
<1>1. HolderInv' BY MovesHolders
<1>2. SameUsers BY MovesUsers DEF HolderInv
<1> QED BY <1>1, <1>2, TallyKept

\* Writers, snapshots, and workers up to the block.
LEMMA WriteTally ==
  ASSUME ColumnInv, TableInv, HolderInv, TallyInv,
         \/ \E p \in Writer : Store(p) \/ PutColumnNodeToRequestQueue(p)
         \/ TakeSnapshot \/ (\E s \in DOMAIN snaps : ReleaseSnapshot(s))
         \/ (\E t \in Thread : Publish(t)) \/ UNCHANGED vars
         \/ \E w \in Worker : Pop(w) \/ WakeIdle(w) \/ Merge(w) \/ Decrease(w)
  PROVE  HolderInv' /\ TallyInv' /\ Moves
<1>1. UNCHANGED <<blockVars, lt>>
  BY DEF Store, PutColumnNodeToRequestQueue, TakeSnapshot, ReleaseSnapshot, Publish, vars, Pop, WakeIdle,
         Merge, Decrease
<1>2. ASSUME NEW p \in Writer, Store(p), Insert(p) PROVE Moves BY <1>2, InsertMoves
<1>3. ASSUME UNCHANGED <<uk, reqs, hist, wk, sktdf, ikeys, fl>> PROVE Moves BY <1>3, StillMoves
<1>4. ASSUME NEW p \in Writer, Store(p), Discard(p) PROVE Moves
  <2>1. UNCHANGED <<uk, reqs, hist, wk, sktdf, ikeys, fl>> BY <1>4 DEF Store, Discard, blockVars
  <2> QED BY <1>3, <2>1
<1>5. ASSUME NEW p \in Writer, PutColumnNodeToRequestQueue(p) PROVE Moves
  <2>1. UNCHANGED <<uk, reqs, hist, wk, sktdf, ikeys, fl>>
    BY <1>5 DEF PutColumnNodeToRequestQueue, blockVars
  <2> QED BY <1>3, <2>1
<1>6. ASSUME \/ TakeSnapshot \/ (\E s \in DOMAIN snaps : ReleaseSnapshot(s))
             \/ (\E t \in Thread : Publish(t)) \/ UNCHANGED vars
      PROVE  Moves
  <2>1. UNCHANGED <<uk, reqs, hist, wk, sktdf, ikeys, fl>>
    BY <1>6 DEF TakeSnapshot, ReleaseSnapshot, Publish, vars, userVars, blockVars
  <2> QED BY <1>3, <2>1
<1>7. ASSUME NEW w \in Worker, WakeIdle(w) PROVE Moves
  <2>1. UNCHANGED <<uk, reqs, hist, wk, sktdf, ikeys, fl>> BY <1>7 DEF WakeIdle, blockVars
  <2> QED BY <1>3, <2>1
<1>8. ASSUME NEW w \in Worker, Pop(w) \/ Merge(w) \/ Decrease(w) PROVE Moves
  BY <1>8, PopMoves, MergeMoves, DecreaseMoves
<1>9. ASSUME NEW p \in Writer, Store(p) PROVE Moves
  <2>1. Discard(p) \/ Insert(p) BY <1>9 DEF Store
  <2> QED BY <1>2, <1>4, <1>9, <2>1
<1>10. Moves BY <1>5, <1>6, <1>7, <1>8, <1>9
<1> QED BY <1>1, <1>10, MovesTally
-----------------------------------------------------------------------------
(* The log clean-up thread. *)

\* Parts of a queue.
LEMMA PartFacts ==
  ASSUME NEW s \in Seq(Nat), NEW n \in 0..Len(s)
  PROVE  /\ SubSeq(s, 1, n) \in Seq(Nat)
         /\ \A i \in DOMAIN SubSeq(s, 1, n) : i \in 1..n /\ SubSeq(s, 1, n)[i] = s[i]
         /\ SubSeq(s, n + 1, Len(s)) \in Seq(Nat)
         /\ \A i \in DOMAIN SubSeq(s, n + 1, Len(s)) :
               n + i \in DOMAIN s /\ SubSeq(s, n + 1, Len(s))[i] = s[n + i]
<1>1. Len(s) \in Nat /\ n \in Nat /\ DOMAIN s = 1..Len(s) OBVIOUS
<1>2. CASE n = 0
  <2>1. SubSeq(s, 1, n) = <<>> BY <1>2
  <2>2. SubSeq(s, n + 1, Len(s)) = s BY <1>2
  <2> QED BY <1>1, <1>2, <2>1, <2>2
<1>3. CASE n # 0
  <2>1. n \in 1..Len(s) BY <1>1, <1>3
  <2>2. /\ SubSeq(s, 1, n) \in Seq(Nat) /\ Len(SubSeq(s, 1, n)) = n
        /\ \A i \in 1..n : SubSeq(s, 1, n)[i] = s[i]
        /\ SubSeq(s, n + 1, Len(s)) \in Seq(Nat) /\ Len(SubSeq(s, n + 1, Len(s))) = Len(s) - n
        /\ \A i \in 1..(Len(s) - n) : SubSeq(s, n + 1, Len(s))[i] = s[(n + 1) + i - 1]
    BY <2>1, SplitFacts
  <2> DEFINE P == SubSeq(s, 1, n)
             Q == SubSeq(s, n + 1, Len(s))
  <2> HIDE DEF P, Q
  <2>3. DOMAIN P = 1..n /\ DOMAIN Q = 1..(Len(s) - n) BY <2>2 DEF P, Q
  <2>4. \A i \in 1..(Len(s) - n) : (n + 1) + i - 1 = n + i /\ n + i \in 1..Len(s) BY <1>1
  <2>5. \A i \in DOMAIN Q : n + i \in DOMAIN s /\ Q[i] = s[n + i] BY <1>1, <2>2, <2>3, <2>4 DEF Q
  <2> QED BY <2>2, <2>3, <2>5 DEF P, Q
<1> QED BY <1>2, <1>3

\* The blocks in front of the first one with an unrecorded column have none.
LEMMA RecordedFacts ==
  ASSUME NEW q \in Seq(Nat)
  PROVE  Recorded(q) \in 0..Len(q) /\ \A i \in 1..Recorded(q) : blk[q[i]].nrs = 0
<1> DEFINE S == {n \in 0..Len(q) : \A i \in 1..n : blk[q[i]].nrs = 0}
           T == {Len(q) - n : n \in S}
<1>1. Len(q) \in Nat OBVIOUS
<1>2. 0 \in S BY <1>1
<1>3. \A n \in S : n \in Nat /\ Len(q) - n \in Nat BY <1>1
<1>4. PICK x \in T : \A y \in T : x <= y
  <2>1. T \subseteq Nat BY <1>3
  <2>2. Len(q) - 0 \in T BY <1>2
  <2> HIDE DEF T
  <2> QED BY <2>1, <2>2, Smallest
<1>5. PICK m \in S : x = Len(q) - m BY <1>4
<1>6. \A n \in S : n <= m
  <2> TAKE n \in S
  <2>1. Len(q) - m <= Len(q) - n BY <1>4, <1>5
  <2> QED BY <1>1, <1>3, <2>1
<1>7. S \in SUBSET Nat BY <1>3
<1>8. Recorded(q) = MaxOf(S) BY DEF Recorded
<1> HIDE DEF S
<1>9. MaxOf(S) = m BY <1>5, <1>6, <1>7, MaxOfFacts
<1> QED BY <1>5, <1>8, <1>9 DEF S

\* A list of blocks of which nothing is unrecorded.
IsBatch(s) ==
    /\ s \in Seq(Nat)
    /\ \A i \in DOMAIN s : Used(s[i]) /\ (s[i] \in DOMAIN blk => blk[s[i]].nrs = 0)

\* Blocks are taken off a queue.
LEMMA BatchTaken ==
  ASSUME TallyInv, NEW w \in Worker, NEW a \in {0, 1}, NEW q, q = logq[w].q[a]
  PROVE  /\ q \in Seq(Nat) /\ IsBatch(lt.batch \o SubSeq(q, 1, Recorded(q)))
         /\ SubSeq(q, Recorded(q) + 1, Len(q)) \in Seq(Nat)
         /\ \A i \in DOMAIN SubSeq(q, Recorded(q) + 1, Len(q)) : Used(SubSeq(q, Recorded(q) + 1, Len(q))[i])
<1> DEFINE n == Recorded(q)
           P == SubSeq(q, 1, n)
           Q == SubSeq(q, n + 1, Len(q))
           L == lt.batch
<1>1. q \in Seq(Nat) /\ \A i \in DOMAIN q : Used(q[i])
  <2>1. logq[w] \in [q : [{0, 1} -> Seq(Nat)], active : {0, 1}] BY DEF TallyInv, LogType
  <2>2. q \in Seq(Nat) BY <2>1
  <2> QED BY <2>2 DEF TallyInv, LogInv
<1>2. L \in Seq(Nat) /\ IsBatch(L) BY DEF TallyInv, LogType, LogInv, IsBatch
<1>3. n \in 0..Len(q) /\ \A i \in 1..n : blk[q[i]].nrs = 0 BY <1>1, RecordedFacts
<1> HIDE DEF n
<1>4. /\ P \in Seq(Nat) /\ \A i \in DOMAIN P : i \in 1..n /\ P[i] = q[i]
      /\ Q \in Seq(Nat) /\ \A i \in DOMAIN Q : n + i \in DOMAIN q /\ Q[i] = q[n + i]
  BY <1>1, <1>3, PartFacts
<1>5. \A i \in 1..n : i \in DOMAIN q BY <1>1, <1>3
<1> HIDE DEF P, Q, L
<1>6. IsBatch(L \o P)
  <2>1. /\ L \o P \in Seq(Nat) /\ Len(L) \in Nat /\ DOMAIN L = 1..Len(L)
        /\ \A i \in DOMAIN (L \o P) :
              (i \in DOMAIN L /\ (L \o P)[i] = L[i]) \/ (i - Len(L) \in DOMAIN P /\ (L \o P)[i] = P[i - Len(L)])
    BY <1>2, <1>4
  <2>2. ASSUME NEW i \in DOMAIN P PROVE Used(P[i]) /\ (P[i] \in DOMAIN blk => blk[P[i]].nrs = 0)
    BY <1>1, <1>3, <1>4, <1>5
  <2> QED BY <1>2, <2>1, <2>2 DEF IsBatch
<1>7. \A i \in DOMAIN Q : Used(Q[i]) BY <1>1, <1>4
<1> QED BY <1>1, <1>4, <1>6, <1>7 DEF L, P, Q, n

\* The state of the thread after it has taken blocks.
IsLog(x) ==
    /\ x \in [pc : {"idle", "scan", "rescan", "mark", "delete"}, w : {x.w}, batch : Seq(Nat),
              dels : {x.dels}, n : {x.n}]
    /\ x.pc \in {"scan", "rescan"} => x.w \in Worker
    /\ x.pc = "mark" => x.batch # <<>>
    /\ IsBatch(x.batch)

\* There is a next worker, or a first one.
LEMMA LeastWorker ==
  ASSUME NEW S \in SUBSET Worker, S # {}
  PROVE  MinOf(S) \in S
<1>1. S \subseteq Nat BY StateAssumption
<1>2. \E x \in S : \A y \in S : x <= y BY <1>1, Smallest
<1> QED BY <1>2 DEF MinOf

\* A round is over.
LEMMA RoundIs ==
  IsLog(Round) /\ Round.dels = {}
<1>1. Round = [pc |-> "idle", w |-> 0, batch |-> <<>>, dels |-> {}, n |-> lt.n - 1] BY DEF Round, IdleLog
<1>2. IsBatch(<<>>) BY DEF IsBatch
<1> QED BY <1>1, <1>2 DEF IsLog

\* The thread goes on to the next worker, or to the blocks it has taken.
LEMMA OnwardIs ==
  ASSUME TallyInv, NEW w \in Worker, NEW batch, IsBatch(batch)
  PROVE  IsLog(Onward(w, batch)) /\ Onward(w, batch).dels \in {lt.dels, {}}
<1>1. lt \in [pc : {"idle", "scan", "rescan", "mark", "delete"}, w : {lt.w}, batch : Seq(Nat),
              dels : {lt.dels}, n : {lt.n}]
  BY DEF TallyInv, LogType
<1>2. batch \in Seq(Nat) BY DEF IsBatch
<1> DEFINE x(to, v) == [lt EXCEPT !.pc = to, !.w = v, !.batch = batch]
<1>3. ASSUME NEW to \in {"scan", "mark"}, NEW v
      PROVE  /\ x(to, v) \in [pc : {to}, w : {v}, batch : {batch}, dels : {lt.dels}, n : {lt.n}]
  BY <1>1
<1>4. CASE Later(w) # {}
  <2> DEFINE y == x("scan", MinOf(Later(w)))
  <2>1. MinOf(Later(w)) \in Worker
    <3>1. Later(w) \in SUBSET Worker BY DEF Later
    <3> QED BY <1>4, <3>1, LeastWorker
  <2>2. Onward(w, batch) = y BY <1>4 DEF Onward
  <2>3. y \in [pc : {"scan"}, w : {MinOf(Later(w))}, batch : {batch}, dels : {lt.dels}, n : {lt.n}] BY <1>3
  <2> HIDE DEF y
  <2> QED BY <1>2, <2>1, <2>2, <2>3 DEF IsLog
<1>5. CASE Later(w) = {} /\ batch = <<>>
  <2>1. Onward(w, batch) = Round BY <1>5 DEF Onward
  <2> QED BY <2>1, RoundIs
<1>6. CASE Later(w) = {} /\ batch # <<>>
  <2> DEFINE y == x("mark", 0)
  <2>1. Onward(w, batch) = y BY <1>6 DEF Onward
  <2>2. y \in [pc : {"mark"}, w : {0}, batch : {batch}, dels : {lt.dels}, n : {lt.n}] BY <1>3
  <2> HIDE DEF y
  <2> QED BY <1>2, <1>6, <2>1, <2>2 DEF IsLog
<1> QED BY <1>4, <1>5, <1>6

\* Blocks have been taken off the queues.
LEMMA TakenTally ==
  ASSUME TallyInv, SameUsers, UNCHANGED <<ikeys, blk>>, IsLog(lt'),
         logq' \in [Worker -> [q : [{0, 1} -> Seq(Nat)], active : {0, 1}]],
         \A w \in Worker : \A a \in {0, 1} : \A i \in DOMAIN logq'[w].q[a] : Used(logq'[w].q[a][i])
  PROVE  TallyInv'
<1>1. BlockType' /\ RefInv' /\ NrsInv' BY TallyFrame DEF TallyInv, BlockType
<1>2. LogType' BY DEF LogType, IsLog
<1>3. \A b : Used(b)' <=> Used(b) BY DEF Used
<1>4. LogInv' BY <1>3 DEF TallyInv, LogInv, IsLog, IsBatch
<1> QED BY <1>1, <1>2, <1>4 DEF TallyInv

\* A queue of a worker is looked at.
LEMMA ScanTally ==
  ASSUME TallyInv, SameUsers, NEW w \in Worker, LogScan(w)
  PROVE  TallyInv'
<1> DEFINE a == logq[w].active
           q == logq[w].q[1 - a]
           n == Recorded(q)
           batch == lt.batch \o SubSeq(q, 1, n)
           rest == SubSeq(q, n + 1, Len(q))
           to == IF n = Len(q) THEN 1 - a ELSE a
           x == [q |-> [logq[w].q EXCEPT ![1 - a] = rest], active |-> to]
<1>1. /\ logq' = [logq EXCEPT ![w] = x]
      /\ lt' = IF n = Len(q) THEN [lt EXCEPT !.pc = "rescan", !.w = w, !.batch = batch] ELSE Onward(w, batch)
      /\ UNCHANGED <<ikeys, blk>>
  BY DEF LogScan, LogVars
<1>2. /\ logq \in [Worker -> [q : [{0, 1} -> Seq(Nat)], active : {0, 1}]]
      /\ \A v \in Worker : \A c \in {0, 1} : \A i \in DOMAIN logq[v].q[c] : Used(logq[v].q[c][i])
  BY DEF TallyInv, LogType, LogInv
<1>3. a \in {0, 1} /\ 1 - a \in {0, 1} /\ logq[w].q \in [{0, 1} -> Seq(Nat)]
  <2>1. logq[w] \in [q : [{0, 1} -> Seq(Nat)], active : {0, 1}] BY <1>2
  <2> QED BY <2>1
<1>4. IsBatch(batch) /\ rest \in Seq(Nat) /\ \A i \in DOMAIN rest : Used(rest[i])
  BY <1>3, BatchTaken
<1>5. IsLog(lt')
  <2>1. CASE n = Len(q)
    <3> DEFINE y == [lt EXCEPT !.pc = "rescan", !.w = w, !.batch = batch]
    <3>1. lt' = y BY <1>1, <2>1
    <3>2. lt \in [pc : {"idle", "scan", "rescan", "mark", "delete"}, w : {lt.w}, batch : Seq(Nat),
                  dels : {lt.dels}, n : {lt.n}]
      BY DEF TallyInv, LogType
    <3> HIDE DEF n, q, batch
    <3>3. batch \in Seq(Nat) BY <1>4 DEF IsBatch
    <3>4. y \in [pc : {"rescan"}, w : {w}, batch : {batch}, dels : {lt.dels}, n : {lt.n}] BY <3>2
    <3> HIDE DEF y
    <3> QED BY <1>4, <3>1, <3>3, <3>4 DEF IsLog
  <2>2. CASE n # Len(q)
    <3>1. lt' = Onward(w, batch) BY <1>1, <2>2
    <3> HIDE DEF batch
    <3> QED BY <1>4, <3>1, OnwardIs
  <2> QED BY <2>1, <2>2
<1> HIDE DEF a, q, n, rest
<1>6. to \in {0, 1} BY <1>3
<1> HIDE DEF to
<1>7. /\ x \in [q : [{0, 1} -> Seq(Nat)], active : {0, 1}]
      /\ \A c \in {0, 1} : \A i \in DOMAIN x.q[c] : Used(x.q[c][i])
  <2>1. x \in [q : [{0, 1} -> Seq(Nat)], active : {0, 1}] BY <1>3, <1>4, <1>6
  <2>2. \A c \in {0, 1} : x.q[c] = IF c = 1 - a THEN rest ELSE logq[w].q[c] BY <1>3
  <2> HIDE DEF x
  <2> QED BY <1>2, <1>4, <2>1, <2>2
<1> HIDE DEF x
<1>8. /\ logq' \in [Worker -> [q : [{0, 1} -> Seq(Nat)], active : {0, 1}]]
      /\ \A v \in Worker : logq'[v] = IF v = w THEN x ELSE logq[v]
  BY <1>1, <1>2, <1>7
<1>9. \A v \in Worker : \A c \in {0, 1} : \A i \in DOMAIN logq'[v].q[c] : Used(logq'[v].q[c][i])
  <2> TAKE v \in Worker
  <2>1. CASE v = w BY <1>7, <1>8, <2>1
  <2>2. CASE v # w BY <1>2, <1>8, <2>2
  <2> QED BY <2>1, <2>2
<1> QED BY <1>1, <1>5, <1>8, <1>9, TakenTally

\* One field of a block changes.
LEMMA BlockWith ==
  ASSUME NEW o, IsBlock(o), NEW v
  PROVE  /\ LET y == [o EXCEPT !.bits = v] IN
               IsBlock(y) /\ y.bits = v /\ y.ref = o.ref /\ y.nrs = o.nrs /\ y.kbml = o.kbml
         /\ LET y == [o EXCEPT !.trx = v] IN
               IsBlock(y) /\ y.bits = o.bits /\ y.ref = o.ref /\ y.nrs = o.nrs /\ y.kbml = o.kbml
         /\ LET y == [o EXCEPT !.ref = v] IN
               IsBlock(y) /\ y.bits = o.bits /\ y.ref = v /\ y.nrs = o.nrs /\ y.kbml = o.kbml
         /\ LET y == [o EXCEPT !.nrs = v] IN
               IsBlock(y) /\ y.bits = o.bits /\ y.ref = o.ref /\ y.nrs = v /\ y.kbml = o.kbml
         /\ LET y == [o EXCEPT !.inlog = v] IN
               IsBlock(y) /\ y.bits = o.bits /\ y.ref = o.ref /\ y.nrs = o.nrs /\ y.kbml = o.kbml
         /\ LET y == [o EXCEPT !.kbml = v] IN
               IsBlock(y) /\ y.bits = o.bits /\ y.ref = o.ref /\ y.nrs = o.nrs /\ y.kbml = v
         /\ LET y == [o EXCEPT !.wbits = v] IN
               IsBlock(y) /\ y.bits = o.bits /\ y.ref = o.ref /\ y.nrs = o.nrs /\ y.kbml = o.kbml
BY DEF IsBlock

\* The active queue is looked at after the swap.
LEMMA RescanTally ==
  ASSUME TallyInv, SameUsers, LogRescan
  PROVE  TallyInv'
<1> DEFINE w == lt.w
           a == logq[w].active
           q == logq[w].q[a]
           n == Recorded(q)
           batch == lt.batch \o SubSeq(q, 1, n)
           rest == SubSeq(q, n + 1, Len(q))
           Q == [logq[w].q EXCEPT ![a] = rest]
           x == [logq[w] EXCEPT !.q = Q]
<1>1. /\ logq' = [logq EXCEPT ![w] = x] /\ lt' = Onward(w, batch) /\ lt.pc = "rescan"
      /\ UNCHANGED <<ikeys, blk>>
  BY DEF LogRescan, LogVars
<1>2. /\ logq \in [Worker -> [q : [{0, 1} -> Seq(Nat)], active : {0, 1}]]
      /\ \A v \in Worker : \A c \in {0, 1} : \A i \in DOMAIN logq[v].q[c] : Used(logq[v].q[c][i])
  BY DEF TallyInv, LogType, LogInv
<1>3. w \in Worker BY <1>1 DEF TallyInv, LogType
<1> HIDE DEF w
<1>4. logq[w] \in [q : [{0, 1} -> Seq(Nat)], active : {0, 1}] BY <1>2, <1>3
<1>5. a \in {0, 1} /\ logq[w].q \in [{0, 1} -> Seq(Nat)] BY <1>4
<1>6. IsBatch(batch) /\ rest \in Seq(Nat) /\ \A i \in DOMAIN rest : Used(rest[i])
  BY <1>3, <1>5, BatchTaken
<1> HIDE DEF a, q, n, rest, batch
<1>7. IsLog(lt') BY <1>1, <1>3, <1>6, OnwardIs
<1>8. Q \in [{0, 1} -> Seq(Nat)] /\ \A c \in {0, 1} : Q[c] = IF c = a THEN rest ELSE logq[w].q[c]
  BY <1>5, <1>6
<1> HIDE DEF Q
<1>9. x \in [q : [{0, 1} -> Seq(Nat)], active : {0, 1}] /\ x.q = Q BY <1>4, <1>8
<1> HIDE DEF x
<1>10. \A c \in {0, 1} : \A i \in DOMAIN x.q[c] : Used(x.q[c][i]) BY <1>2, <1>3, <1>6, <1>8, <1>9
<1>11. /\ logq' \in [Worker -> [q : [{0, 1} -> Seq(Nat)], active : {0, 1}]]
       /\ \A v \in Worker : logq'[v] = IF v = w THEN x ELSE logq[v]
  BY <1>1, <1>2, <1>3, <1>9
<1>12. \A v \in Worker : \A c \in {0, 1} : \A i \in DOMAIN logq'[v].q[c] : Used(logq'[v].q[c][i])
  <2> TAKE v \in Worker
  <2>1. CASE v = w BY <1>10, <1>11, <2>1
  <2>2. CASE v # w BY <1>2, <1>11, <2>2
  <2> QED BY <2>1, <2>2
<1> QED BY <1>1, <1>7, <1>11, <1>12, TakenTally

\* A block whose log entry the thread takes is given up or kept without it.
LEMMA MarkTally ==
  ASSUME TallyInv, SameUsers, LogMark
  PROVE  TallyInv'
<1> DEFINE b == Head(lt.batch)
           y == [blk[b] EXCEPT !.inlog = FALSE, !.kbml = FALSE]
           to == IF Tail(lt.batch) = <<>> THEN "delete" ELSE lt.pc
           dels == IF Garbage(blk[b]) THEN lt.dels \cup {b} ELSE lt.dels
           z == [lt EXCEPT !.batch = Tail(lt.batch), !.dels = dels, !.pc = to]
<1>1. /\ lt.pc = "mark" /\ (blk' = Remove(blk, b) \/ blk' = [blk EXCEPT ![b] = y])
      /\ lt' = z /\ UNCHANGED <<ikeys, logq>>
  BY DEF LogMark, LogVars
<1>2. /\ lt \in [pc : {"idle", "scan", "rescan", "mark", "delete"}, w : {lt.w}, batch : Seq(Nat),
                 dels : {lt.dels}, n : {lt.n}]
      /\ lt.batch # <<>>
      /\ \A i \in DOMAIN lt.batch :
            Used(lt.batch[i]) /\ (lt.batch[i] \in DOMAIN blk => blk[lt.batch[i]].nrs = 0)
  BY <1>1 DEF TallyInv, LogType, LogInv
<1>3. lt.batch \in Seq(Nat) BY <1>2
<1>4. 1 \in DOMAIN lt.batch /\ b = lt.batch[1] BY <1>2, <1>3
<1>5. b \in DOMAIN blk => blk[b].nrs = 0 BY <1>2, <1>4
<1>6. /\ Tail(lt.batch) \in Seq(Nat)
      /\ \A i \in DOMAIN Tail(lt.batch) : i + 1 \in DOMAIN lt.batch /\ Tail(lt.batch)[i] = lt.batch[i + 1]
  BY <1>2, <1>3
<1>7. to \in {"mark", "delete"} /\ (to = "mark" => Tail(lt.batch) # <<>>) BY <1>1
<1> HIDE DEF to, dels
<1>8. z \in [pc : {to}, w : {lt.w}, batch : {Tail(lt.batch)}, dels : {dels}, n : {lt.n}] BY <1>2
<1> HIDE DEF z
<1>9. LogType'
  <2>1. lt' \in [pc : {"idle", "scan", "rescan", "mark", "delete"}, w : {lt'.w}, batch : Seq(Nat),
                 dels : {lt'.dels}, n : {lt'.n}]
    BY <1>1, <1>6, <1>7, <1>8
  <2>2. lt'.pc \notin {"scan", "rescan"} /\ (lt'.pc = "mark" => lt'.batch # <<>>) BY <1>1, <1>7, <1>8
  <2>3. logq' \in [Worker -> [q : [{0, 1} -> Seq(Nat)], active : {0, 1}]]
    BY <1>1 DEF TallyInv, LogType
  <2> QED BY <2>1, <2>2, <2>3 DEF LogType
<1>10. b \in DOMAIN blk => IsBlock(y) /\ y.ref = blk[b].ref /\ y.nrs = blk[b].nrs
  <2> DEFINE x == [blk[b] EXCEPT !.inlog = FALSE]
             z1 == [x EXCEPT !.kbml = FALSE]
  <2>1. b \in DOMAIN blk => IsBlock(blk[b]) BY DEF TallyInv, BlockType
  <2>2. b \in DOMAIN blk => IsBlock(x) /\ x.ref = blk[b].ref /\ x.nrs = blk[b].nrs BY <2>1, BlockWith
  <2>3. y = z1 OBVIOUS
  <2> HIDE DEF x
  <2>4. b \in DOMAIN blk => IsBlock(z1) /\ z1.ref = x.ref /\ z1.nrs = x.nrs BY <2>2, BlockWith
  <2> HIDE DEF y, z1
  <2> QED BY <2>2, <2>3, <2>4
<1> HIDE DEF b, y
<1>11. blk = [c \in DOMAIN blk |-> blk[c]] BY DEF TallyInv, BlockType
<1>12. /\ blk' = [c \in DOMAIN blk' |-> blk'[c]] /\ DOMAIN blk' \subseteq DOMAIN blk
       /\ \A c \in DOMAIN blk' : blk'[c] = blk[c] \/ (c = b /\ blk'[c] = y)
  <2>1. CASE blk' = Remove(blk, b) BY <2>1 DEF Remove
  <2>2. CASE blk' = [blk EXCEPT ![b] = y] BY <1>11, <2>2
  <2> QED BY <1>1, <2>1, <2>2
<1>13. \A c \in DOMAIN blk' : IsBlock(blk'[c]) /\ blk'[c].ref = blk[c].ref /\ blk'[c].nrs = blk[c].nrs
  BY <1>10, <1>12 DEF TallyInv, BlockType
<1>14. BlockType' /\ RefInv' /\ NrsInv' BY <1>1, <1>12, <1>13, TallyFrame
<1>15. LogInv'
  <2>1. \A c : Used(c)' <=> Used(c) BY <1>1 DEF Used
  <2>2. \A v \in Worker : \A c \in {0, 1} : \A i \in DOMAIN logq'[v].q[c] : Used(logq'[v].q[c][i])
    BY <1>1 DEF TallyInv, LogInv
  <2>3. lt'.batch = Tail(lt.batch) BY <1>1, <1>8
  <2>4. \A i \in DOMAIN lt'.batch :
           Used(lt'.batch[i]) /\ (lt'.batch[i] \in DOMAIN blk' => blk'[lt'.batch[i]].nrs = 0)
    <3>1. \A i \in DOMAIN Tail(lt.batch) : /\ Used(Tail(lt.batch)[i])
             /\ (Tail(lt.batch)[i] \in DOMAIN blk => blk[Tail(lt.batch)[i]].nrs = 0)
      BY <1>2, <1>6
    <3> QED BY <1>12, <1>13, <2>3, <3>1
  <2>5. \A c \in DOMAIN blk' : blk'[c].nrs > 0 => blk'[c].kbml
    <3> SUFFICES ASSUME NEW c \in DOMAIN blk', blk'[c].nrs > 0 PROVE blk'[c].kbml OBVIOUS
    <3>1. c \in DOMAIN blk /\ blk[c].nrs > 0 BY <1>12, <1>13
    <3>2. c # b BY <1>5, <3>1
    <3> QED BY <1>12, <3>1, <3>2 DEF TallyInv, LogInv
  <2> QED BY <2>1, <2>2, <2>4, <2>5 DEF LogInv
<1> QED BY <1>9, <1>14, <1>15 DEF TallyInv

\* The log clean-up thread keeps the counts.
LEMMA LogTally ==
  ASSUME ColumnInv, HolderInv, TallyInv, LogNext
  PROVE  HolderInv' /\ TallyInv' /\ Moves
<1>1. UNCHANGED <<uk, reqs, hist, wk, sktdf, ikeys, fl>>
  BY DEF LogNext, LogStart, LogScan, LogRescan, LogMark, LogDelete, LogVars, userVars
<1>2. Moves BY <1>1, StillMoves
<1>3. HolderInv' BY <1>2, MovesHolders
<1>4. SameUsers BY <1>2, MovesUsers DEF HolderInv
<1>5. CASE LogStart
  <2>1. MinOf(Worker) \in Worker BY StateAssumption, LeastWorker
  <2> QED BY <1>2, <1>3, <1>4, <1>5, <2>1, ScanTally DEF LogStart
<1>6. CASE lt.pc = "scan" /\ LogScan(lt.w)
  <2>1. lt.w \in Worker BY <1>6 DEF TallyInv, LogType
  <2> QED BY <1>2, <1>3, <1>4, <1>6, <2>1, ScanTally
<1>7. CASE LogRescan BY <1>2, <1>3, <1>4, <1>7, RescanTally
<1>8. CASE LogMark BY <1>2, <1>3, <1>4, <1>8, MarkTally
<1>9. CASE LogDelete
  <2>1. lt' = Round /\ UNCHANGED <<ikeys, blk, logq>> BY <1>9 DEF LogDelete, LogVars
  <2>2. IsLog(lt') BY <2>1, RoundIs
  <2>3. TallyInv' BY <1>4, <2>1, <2>2, TakenTally DEF TallyInv, LogType, LogInv
  <2> QED BY <1>2, <1>3, <2>3
<1> QED BY <1>5, <1>6, <1>7, <1>8, <1>9 DEF LogNext
-----------------------------------------------------------------------------
(* The steps of a flush that leave the lists alone. *)

\* The blocks stay, and fewer columns are unrecorded.
LEMMA BlocksTally ==
  ASSUME ColumnInv, TallyInv, UNCHANGED <<ikeys, logq, lt>>,
         blk' = [b \in DOMAIN blk |-> blk'[b]],
         \A b \in DOMAIN blk : /\ IsBlock(blk'[b]) /\ blk'[b].kbml = blk[b].kbml
                               /\ blk'[b].ref = Cardinality(Users(b)')
                               /\ blk'[b].nrs = Cardinality(Unrecorded(b)')
                               /\ Unrecorded(b)' \subseteq Unrecorded(b)
  PROVE  TallyInv'
<1>1. DOMAIN blk' = DOMAIN blk OBVIOUS
<1>2. \A b : Used(b)' <=> Used(b) BY DEF Used
<1>3. BlockType' BY <1>1, <1>2 DEF TallyInv, BlockType
<1>4. RefInv' BY <1>1 DEF RefInv
<1>5. NrsInv' BY <1>1 DEF NrsInv
<1>6. LogType' BY DEF TallyInv, LogType
<1>7. ASSUME NEW b \in DOMAIN blk
      PROVE  (blk[b].nrs = 0 => blk'[b].nrs = 0) /\ (blk'[b].nrs > 0 => blk[b].nrs > 0)
  <2>1. IsFiniteSet(Unrecorded(b))
    <3>1. Unrecorded(b) \subseteq DOMAIN hist BY DEF Unrecorded
    <3> QED BY <3>1, WritesFinite, FS_Subset DEF ColumnInv
  <2>2. /\ Cardinality(Unrecorded(b)) \in Nat /\ Cardinality(Unrecorded(b)') \in Nat
        /\ Cardinality(Unrecorded(b)') <= Cardinality(Unrecorded(b))
    BY <2>1, FS_Subset, FS_CardinalityType
  <2>3. blk[b].nrs = Cardinality(Unrecorded(b)) BY DEF TallyInv, NrsInv
  <2> QED BY <2>2, <2>3
<1>8. LogInv'
  <2>1. \A i \in DOMAIN lt'.batch :
           Used(lt'.batch[i]) /\ (lt'.batch[i] \in DOMAIN blk' => blk'[lt'.batch[i]].nrs = 0)
    BY <1>1, <1>7 DEF TallyInv, LogInv
  <2>2. \A w \in Worker : \A a \in {0, 1} : \A i \in DOMAIN logq'[w].q[a] : Used(logq'[w].q[a][i])
    BY DEF TallyInv, LogInv
  <2>3. \A b \in DOMAIN blk' : blk'[b].nrs > 0 => blk'[b].kbml BY <1>1, <1>7 DEF TallyInv, LogInv
  <2> QED BY <1>2, <2>1, <2>2, <2>3 DEF LogInv
<1> QED BY <1>3, <1>4, <1>5, <1>6, <1>8 DEF TallyInv

\* A flush starts, or goes on without a change of columns.
LEMMA EntsUsers ==
  ASSUME UNCHANGED <<uk, reqs, hist, wk>>, \A w \in Worker : fl'[w].ents = fl[w].ents
  PROVE  SameUsers
<1>1. \A w \in Worker : Writes(w)' <=> Writes(w) BY DEF Writes
<1>2. ASSUME NEW id, NEW b
      PROVE  /\ Attached(id, b)' <=> Attached(id, b)
             /\ Uncommitted(id, b)' <=> Uncommitted(id, b)
             /\ Submitted(id, b)' <=> Submitted(id, b)
             /\ Removed(id, b)' <=> Removed(id, b)
             /\ Counted(id, b)' <=> Counted(id, b)
  BY <1>1 DEF Attached, Uncommitted, Submitted, Todo, From, Removed, Counted
<1>3. ASSUME NEW b PROVE Users(b)' = Users(b) /\ Unrecorded(b)' = Unrecorded(b)
  BY <1>2 DEF Users, Unrecorded
<1> QED BY <1>3 DEF SameUsers

\* Entries stay or are given up, rows are those of blocks.
LEMMA EntsHolders ==
  ASSUME ColumnInv, HolderInv, UNCHANGED <<uk, reqs, hist, wk, ikeys, sktdf>>,
         \A v \in Worker :
            /\ \A k \in DOMAIN fl'[v].rows : Used(fl'[v].rows[k].ikey)
            /\ \A e \in fl'[v].ents :
                  /\ IsEntry(e) /\ hist[e.id].key \in fl'[v].keys \ fl'[v].todo
                  /\ \E f \in fl[v].ents : f.id = e.id /\ f.ikey = e.ikey /\ f.kind = e.kind
            /\ \A e, f \in fl'[v].ents : e.id = f.id => e = f
  PROVE  HolderInv'
<1>1. FreshInv' BY DEF HolderInv, FreshInv
<1>2. \A b : Used(b)' <=> Used(b) BY DEF Used
<1>3. \A w \in Worker : (Writes(w)' <=> Writes(w)) /\ wk'[w] = wk[w] BY DEF Writes
<1>4. ASSUME NEW v \in Worker, NEW e \in fl'[v].ents PROVE Used(e.ikey)
  <2>1. PICK f \in fl[v].ents : f.ikey = e.ikey OBVIOUS
  <2> QED BY <2>1 DEF HolderInv, IkeysInv
<1> HIDE DEF Used, Writes
<1>5. IkeysInv' BY <1>2, <1>3, <1>4 DEF HolderInv, IkeysInv
<1>6. EntriesInv'
  <2>1. ASSUME NEW v \in Worker, NEW e \in fl'[v].ents
        PROVE  /\ e.id \in DOMAIN hist
               /\ \A i \in DOMAIN uk[hist[e.id].key].cols :
                     uk[hist[e.id].key].cols[i].id = e.id =>
                       /\ e.kind = "itr" /\ uk[hist[e.id].key].cols[i].st = "stored"
                       /\ uk[hist[e.id].key].cols[i].committed
    <3>1. PICK f \in fl[v].ents : f.id = e.id /\ f.ikey = e.ikey /\ f.kind = e.kind OBVIOUS
    <3> QED BY <3>1 DEF HolderInv, EntriesInv
  <2> QED BY <2>1 DEF EntriesInv
<1> QED BY <1>1, <1>5, <1>6 DEF HolderInv

\* A worker starts a flush.
LEMMA StartTally ==
  ASSUME ColumnInv, HolderInv, TallyInv, NEW w \in Worker, NEW t \in Table, FlushStart(w, t)
  PROVE  HolderInv' /\ TallyInv'
<1> DEFINE x == [pc |-> "build", t |-> t, snaps |-> DOMAIN snaps, keys |-> PresentKeys(t),
                 todo |-> PresentKeys(t), ents |-> {}, rows |-> Copied(t)]
<1>1. /\ fl[w].pc = "none" /\ fl' = [fl EXCEPT ![w] = x]
      /\ UNCHANGED <<uk, reqs, hist, wk, ikeys, sktdf, blk, logq, lt>>
  BY DEF FlushStart, Idle, userVars, blockVars
<1>2. fl'[w] = x /\ \A v \in Worker : v # w => fl'[v] = fl[v]
  BY <1>1 DEF ColumnInv, TableType
<1>3. fl[w].ents = {} BY <1>1 DEF ColumnInv, FlushesInv, NoFlush
<1>4. x.ents = {} /\ x.rows = Copied(t) OBVIOUS
<1> HIDE DEF x
<1>5. \A v \in Worker : fl'[v].ents = fl[v].ents BY <1>2, <1>3, <1>4
<1>6. \A k \in DOMAIN Copied(t) : Used(Copied(t)[k].ikey)
  <2> TAKE k \in DOMAIN Copied(t)
  <2>1. k \in DOMAIN sktdf[t] /\ Copied(t)[k] = sktdf[TableOf[k]][k] BY DEF Copied, Rows, Row
  <2>2. k \in Key BY <2>1 DEF ColumnInv, TableType, IsRows
  <2>3. TableOf[k] = t BY <2>1, <2>2 DEF ColumnInv, RowsInv
  <2> QED BY <2>1, <2>3 DEF HolderInv, IkeysInv
<1>7. HolderInv'
  <2>1. ASSUME NEW v \in Worker
        PROVE  /\ \A k \in DOMAIN fl'[v].rows : Used(fl'[v].rows[k].ikey)
               /\ \A e \in fl'[v].ents :
                     /\ IsEntry(e) /\ hist[e.id].key \in fl'[v].keys \ fl'[v].todo
                     /\ \E f \in fl[v].ents : f.id = e.id /\ f.ikey = e.ikey /\ f.kind = e.kind
               /\ \A e, f \in fl'[v].ents : e.id = f.id => e = f
    <3>1. CASE v = w BY <1>2, <1>4, <1>6, <3>1
    <3>2. CASE v # w BY <1>2, <3>2 DEF HolderInv, IkeysInv, EntriesInv
    <3> QED BY <3>1, <3>2
  <2> QED BY <1>1, <2>1, EntsHolders
<1>8. SameUsers BY <1>1, <1>5, EntsUsers
<1> QED BY <1>1, <1>7, <1>8, TallyKept DEF blockVars

\* The table, and the metas of the blocks, are written.
LEMMA MovedTally ==
  ASSUME ColumnInv, HolderInv, TallyInv, NEW w \in Worker, FlushWrite(w) \/ FlushDelete(w) \/ FlushUpdate(w)
  PROVE  HolderInv' /\ TallyInv' /\ Moves
<1>1. /\ UNCHANGED <<uk, reqs, hist, wk, ikeys, sktdf, logq, lt>>
      /\ \E to : Moved(w, to)
      /\ blk' = blk \/ \E S : blk' = Unmarked(S)
  <2>1. CASE FlushWrite(w) BY <2>1 DEF FlushWrite, FlushVars, userVars
  <2>2. CASE FlushDelete(w) BY <2>2 DEF FlushDelete, FlushVars, userVars
  <2>3. CASE FlushUpdate(w) BY <2>3 DEF FlushUpdate, FlushVars, userVars
  <2> QED BY <2>1, <2>2, <2>3
<1>2. PICK to : fl' = [fl EXCEPT ![w].pc = to] BY <1>1 DEF Moved
<1>3. \A v \in Worker : /\ fl'[v].ents = fl[v].ents /\ fl'[v].rows = fl[v].rows
                        /\ fl'[v].keys = fl[v].keys /\ fl'[v].todo = fl[v].todo
  BY <1>2 DEF ColumnInv, TableType, IsFlush
<1>4. Moves BY <1>1, <1>3, StillMoves
<1>5. HolderInv' BY <1>4, MovesHolders
<1>6. SameUsers BY <1>4, MovesUsers DEF HolderInv
<1>7. /\ blk' = [b \in DOMAIN blk |-> blk'[b]]
      /\ \A b \in DOMAIN blk : /\ IsBlock(blk'[b]) /\ blk'[b].kbml = blk[b].kbml
                               /\ blk'[b].ref = blk[b].ref /\ blk'[b].nrs = blk[b].nrs
  <2>0. blk = [b \in DOMAIN blk |-> blk[b]] /\ \A b \in DOMAIN blk : IsBlock(blk[b])
    BY DEF TallyInv, BlockType
  <2>1. CASE blk' = blk BY <2>0, <2>1
  <2>2. ASSUME NEW S, blk' = Unmarked(S) PROVE <1>7
    <3>1. \A b \in DOMAIN blk : LET y == [blk[b] EXCEPT !.wbits = {}] IN
             /\ IsBlock(y) /\ y.kbml = blk[b].kbml /\ y.ref = blk[b].ref /\ y.nrs = blk[b].nrs
      BY <2>0, BlockWith
    <3>2. /\ blk' = [b \in DOMAIN blk |-> blk'[b]]
          /\ \A b \in DOMAIN blk : blk'[b] = blk[b] \/ blk'[b] = [blk[b] EXCEPT !.wbits = {}]
      BY <2>2 DEF Unmarked
    <3> QED BY <2>0, <3>1, <3>2
  <2> QED BY <1>1, <2>1, <2>2
<1>8. TallyInv'
  <2>1. \A b \in DOMAIN blk : /\ blk'[b].ref = Cardinality(Users(b)')
                              /\ blk'[b].nrs = Cardinality(Unrecorded(b)')
                              /\ Unrecorded(b)' \subseteq Unrecorded(b)
    BY <1>6, <1>7 DEF SameUsers, TallyInv, RefInv, NrsInv
  <2> QED BY <1>1, <1>7, <2>1, BlocksTally
<1> QED BY <1>4, <1>5, <1>8
-----------------------------------------------------------------------------
(* Entries are given up. *)

\* There is a first entry.
LEMMA FirstEntryIs ==
  ASSUME EntriesInv, NEW w \in Worker, fl[w].ents # {}
  PROVE  FirstEntry(w) \in fl[w].ents
<1> DEFINE E == fl[w].ents
           R == {Rank(e) : e \in E}
<1>1. \A e \in E : e.id \in Nat /\ Rank(e) \in Nat BY DEF EntriesInv, IsEntry, Rank
<1>2. R \subseteq Nat /\ R # {} BY <1>1
<1>3. PICK r \in R : \A y \in R : r <= y
  <2> HIDE DEF R
  <2> QED BY <1>2, Smallest
<1> DEFINE T == {e.id : e \in {f \in E : Rank(f) = r}}
<1>4. T \subseteq Nat /\ T # {} BY <1>1, <1>3
<1>5. PICK n \in T : \A y \in T : n <= y
  <2> HIDE DEF T
  <2> QED BY <1>4, Smallest
<1>6. PICK e \in E : Rank(e) = r /\ e.id = n BY <1>5
<1>7. ASSUME NEW f \in E PROVE Rank(e) < Rank(f) \/ (Rank(e) = Rank(f) /\ e.id <= f.id)
  <2>1. Rank(f) \in R BY DEF R
  <2>2. r <= Rank(f) /\ r \in Nat /\ Rank(f) \in Nat BY <1>1, <1>2, <1>3, <2>1
  <2>3. CASE Rank(f) = r
    <3>1. f.id \in T BY <2>3
    <3> QED BY <1>5, <1>6, <2>3, <3>1
  <2>4. CASE Rank(f) # r BY <1>6, <2>2, <2>4
  <2> QED BY <2>3, <2>4
<1> QED BY <1>6, <1>7 DEF FirstEntry

\* An entry is given up, or what it has to count.
LEMMA ReleaseUsers ==
  ASSUME ColumnInv, HolderInv, UNCHANGED <<uk, reqs, hist, wk, ikeys, sktdf>>, NEW w \in Worker,
         NEW e \in fl[w].ents, NEW gone \in BOOLEAN, e.kind = "itr" => gone,
         fl' = [fl EXCEPT ![w].ents =
                   (fl[w].ents \ {e}) \cup (IF gone THEN {} ELSE {[e EXCEPT !.dec = FALSE]})]
  PROVE  /\ HolderInv'
         /\ \A b : Users(b)' = IF gone /\ e.kind # "itr" /\ b = e.ikey THEN Users(b) \ {e.id} ELSE Users(b)
         /\ \A b : Unrecorded(b)' = IF e.dec /\ b = e.ikey THEN Unrecorded(b) \ {e.id} ELSE Unrecorded(b)
         /\ e.kind # "itr" => e.id \in Users(e.ikey)
         /\ e.dec => e.id \in Unrecorded(e.ikey)
<1> DEFINE d == [e EXCEPT !.dec = FALSE]
           X == (fl[w].ents \ {e}) \cup (IF gone THEN {} ELSE {d})
<1>0. EntriesInv BY DEF HolderInv
<1>1. /\ IsEntry(e) /\ e.id \in DOMAIN hist /\ hist[e.id].key \in fl[w].keys \ fl[w].todo
      /\ \A f \in fl[w].ents : f.id = e.id => f = e
  BY <1>0 DEF EntriesInv
<1>2. d \in [id : {e.id}, ikey : {e.ikey}, kind : {e.kind}, dec : {FALSE}] BY <1>1 DEF IsEntry
<1>3. IsEntry(d) /\ d.id = e.id /\ d.ikey = e.ikey /\ d.kind = e.kind /\ d.dec = FALSE
  <2> HIDE DEF d
  <2> QED BY <1>1, <1>2 DEF IsEntry
<1> HIDE DEF d
<1>4. /\ fl'[w].ents = X /\ fl'[w].rows = fl[w].rows /\ fl'[w].keys = fl[w].keys
      /\ fl'[w].todo = fl[w].todo /\ \A v \in Worker : v # w => fl'[v] = fl[v]
  BY DEF ColumnInv, TableType, IsFlush, d
<1>5. HolderInv'
  <2>1. ASSUME NEW v \in Worker
        PROVE  /\ \A k \in DOMAIN fl'[v].rows : Used(fl'[v].rows[k].ikey)
               /\ \A f \in fl'[v].ents :
                     /\ IsEntry(f) /\ hist[f.id].key \in fl'[v].keys \ fl'[v].todo
                     /\ \E g \in fl[v].ents : g.id = f.id /\ g.ikey = f.ikey /\ g.kind = f.kind
               /\ \A f, g \in fl'[v].ents : f.id = g.id => f = g
    <3>0. /\ \A k \in DOMAIN fl[v].rows : Used(fl[v].rows[k].ikey)
          /\ \A f \in fl[v].ents : IsEntry(f) /\ hist[f.id].key \in fl[v].keys \ fl[v].todo
          /\ \A f, g \in fl[v].ents : f.id = g.id => f = g
      BY DEF HolderInv, IkeysInv, EntriesInv
    <3>1. CASE v = w
      <4>1. \A f \in X : f = d \/ (f \in fl[w].ents /\ f # e) OBVIOUS
      <4>2. \A f \in X : /\ IsEntry(f) /\ hist[f.id].key \in fl[w].keys \ fl[w].todo
                         /\ \E g \in fl[w].ents : g.id = f.id /\ g.ikey = f.ikey /\ g.kind = f.kind
        BY <1>1, <1>3, <3>0, <3>1, <4>1
      <4>3. \A f, g \in X : f.id = g.id => f = g BY <1>1, <1>3, <3>0, <3>1, <4>1
      <4> HIDE DEF X
      <4> QED BY <1>4, <3>0, <3>1, <4>2, <4>3
    <3>2. CASE v # w BY <1>4, <3>0, <3>2
    <3> QED BY <3>1, <3>2
  <2> QED BY <2>1, EntsHolders
<1>6. \A v \in Worker : \A f \in fl[v].ents : f.id = e.id => v = w /\ f = e
  BY <1>0, OneEntry DEF ColumnInv
<1>7. ASSUME NEW id, NEW b
      PROVE  Removed(id, b)' <=> Removed(id, b) /\ ~(gone /\ id = e.id /\ b = e.ikey)
  <2>1. ASSUME Removed(id, b)' PROVE Removed(id, b) /\ ~(gone /\ id = e.id /\ b = e.ikey)
    <3>1. PICK v \in Worker : \E f \in fl'[v].ents : f.id = id /\ f.ikey = b /\ f.kind # "itr"
      BY <2>1 DEF Removed
    <3>2. PICK f \in fl'[v].ents : f.id = id /\ f.ikey = b /\ f.kind # "itr" BY <3>1
    <3>3. CASE v # w BY <1>4, <1>6, <3>2, <3>3 DEF Removed
    <3>4. CASE v = w /\ f \in fl[w].ents \ {e} BY <1>6, <3>2, <3>4 DEF Removed
    <3>5. CASE v = w /\ f = d /\ ~gone BY <1>3, <3>2, <3>5 DEF Removed
    <3> QED BY <1>4, <3>3, <3>4, <3>5
  <2>2. ASSUME Removed(id, b), ~(gone /\ id = e.id /\ b = e.ikey) PROVE Removed(id, b)'
    <3>1. PICK v \in Worker : \E f \in fl[v].ents : f.id = id /\ f.ikey = b /\ f.kind # "itr"
      BY <2>2 DEF Removed
    <3>2. PICK f \in fl[v].ents : f.id = id /\ f.ikey = b /\ f.kind # "itr" BY <3>1
    <3>3. CASE v # w BY <1>4, <3>2, <3>3 DEF Removed
    <3>4. CASE v = w /\ f # e BY <1>4, <3>2, <3>4 DEF Removed
    <3>5. CASE v = w /\ f = e
      <4>1. ~gone BY <2>2, <3>2, <3>5
      <4>2. d \in fl'[w].ents BY <1>4, <4>1
      <4> QED BY <1>3, <3>2, <3>5, <4>2 DEF Removed
    <3> QED BY <3>3, <3>4, <3>5
  <2> QED BY <2>1, <2>2
<1>8. ASSUME NEW id, NEW b
      PROVE  Counted(id, b)' <=> Counted(id, b) /\ ~(id = e.id /\ b = e.ikey)
  <2>1. ASSUME Counted(id, b)' PROVE Counted(id, b) /\ ~(id = e.id /\ b = e.ikey)
    <3>1. PICK v \in Worker : \E f \in fl'[v].ents : f.id = id /\ f.ikey = b /\ f.dec
      BY <2>1 DEF Counted
    <3>2. PICK f \in fl'[v].ents : f.id = id /\ f.ikey = b /\ f.dec BY <3>1
    <3>3. CASE v # w BY <1>4, <1>6, <3>2, <3>3 DEF Counted
    <3>4. CASE v = w /\ f \in fl[w].ents \ {e} BY <1>6, <3>2, <3>4 DEF Counted
    <3>5. CASE v = w /\ f = d BY <1>3, <3>2, <3>5
    <3> QED BY <1>4, <3>3, <3>4, <3>5
  <2>2. ASSUME Counted(id, b), ~(id = e.id /\ b = e.ikey) PROVE Counted(id, b)'
    <3>1. PICK v \in Worker : \E f \in fl[v].ents : f.id = id /\ f.ikey = b /\ f.dec
      BY <2>2 DEF Counted
    <3>2. PICK f \in fl[v].ents : f.id = id /\ f.ikey = b /\ f.dec BY <3>1
    <3>3. CASE v # w BY <1>4, <3>2, <3>3 DEF Counted
    <3>4. CASE v = w /\ f # e BY <1>4, <3>2, <3>4 DEF Counted
    <3>5. CASE v = w /\ f = e BY <2>2, <3>2, <3>5
    <3> QED BY <3>3, <3>4, <3>5
  <2> QED BY <2>1, <2>2
<1>9. \A v \in Worker : Writes(v)' <=> Writes(v) BY DEF Writes
<1>10. ASSUME NEW id, NEW b
       PROVE  /\ Attached(id, b)' <=> Attached(id, b)
              /\ Uncommitted(id, b)' <=> Uncommitted(id, b)
              /\ Submitted(id, b)' <=> Submitted(id, b)
  BY <1>9 DEF Attached, Uncommitted, Submitted, Todo, From
<1>11. e.kind # "itr" => Removed(e.id, e.ikey) BY DEF Removed
<1>12. e.dec => Counted(e.id, e.ikey) BY DEF Counted
<1>13. \A b : Removed(e.id, b) => b = e.ikey /\ e.kind # "itr" BY <1>6 DEF Removed
<1>14. \A b : Counted(e.id, b) => b = e.ikey /\ e.dec BY <1>6 DEF Counted
<1>15. ASSUME NEW b
       PROVE  Users(b)' = IF gone /\ e.kind # "itr" /\ b = e.ikey THEN Users(b) \ {e.id} ELSE Users(b)
  <2>1. CASE gone /\ e.kind # "itr" /\ b = e.ikey
    <3>1. ~Attached(e.id, b) /\ ~Submitted(e.id, b) BY <1>0, <1>11, <2>1, PartsDisjoint
    <3>2. \A id : id \in Users(b)' <=> id \in Users(b) /\ id # e.id
      BY <1>7, <1>10, <2>1, <3>1 DEF Users
    <3> QED BY <2>1, <3>2 DEF Users
  <2>2. CASE ~(gone /\ e.kind # "itr" /\ b = e.ikey)
    <3>1. \A id : Removed(id, b)' <=> Removed(id, b) BY <1>7, <1>13, <2>2
    <3> QED BY <1>10, <2>2, <3>1 DEF Users
  <2> QED BY <2>1, <2>2
<1>16. ASSUME NEW b
       PROVE  Unrecorded(b)' = IF e.dec /\ b = e.ikey THEN Unrecorded(b) \ {e.id} ELSE Unrecorded(b)
  <2>1. CASE e.dec /\ b = e.ikey
    <3>1. ~Uncommitted(e.id, b) /\ ~Submitted(e.id, b) BY <1>0, <1>12, <2>1, PartsDisjoint
    <3>2. \A id : id \in Unrecorded(b)' <=> id \in Unrecorded(b) /\ id # e.id
      BY <1>8, <1>10, <2>1, <3>1 DEF Unrecorded
    <3> QED BY <2>1, <3>2 DEF Unrecorded
  <2>2. CASE ~(e.dec /\ b = e.ikey)
    <3>1. \A id : Counted(id, b)' <=> Counted(id, b) BY <1>8, <1>14, <2>2
    <3> QED BY <1>10, <2>2, <3>1 DEF Unrecorded
  <2> QED BY <2>1, <2>2
<1>17. e.kind # "itr" => e.id \in Users(e.ikey) BY <1>1, <1>11 DEF Users
<1>18. e.dec => e.id \in Unrecorded(e.ikey) BY <1>1, <1>12 DEF Unrecorded
<1> QED BY <1>5, <1>15, <1>16, <1>17, <1>18

\* An entry is given up.
LEMMA ReleaseTally ==
  ASSUME ColumnInv, HolderInv, TallyInv, NEW w \in Worker, ReleaseNRS(w) \/ ReleaseRef(w)
  PROVE  HolderInv' /\ TallyInv'
<1>1. /\ UNCHANGED <<uk, reqs, hist, wk, ikeys, sktdf, logq, lt>> /\ fl[w].ents # {}
  <2>1. CASE ReleaseNRS(w) BY <2>1 DEF ReleaseNRS, FlushVars, userVars
  <2>2. CASE ReleaseRef(w) BY <2>2 DEF ReleaseRef, FlushVars, userVars
  <2> QED BY <2>1, <2>2
<1>2. EntriesInv BY DEF HolderInv
<1>3. PICK e \in fl[w].ents : e = FirstEntry(w) BY <1>1, <1>2, FirstEntryIs
<1>4. blk = [b \in DOMAIN blk |-> blk[b]] /\ \A b \in DOMAIN blk : IsBlock(blk[b])
  BY DEF TallyInv, BlockType
<1>5. \A b \in DOMAIN blk : blk[b].ref = Cardinality(Users(b)) /\ blk[b].nrs = Cardinality(Unrecorded(b))
  BY DEF TallyInv, RefInv, NrsInv
<1>6. \A b : IsFiniteSet(Users(b)) /\ IsFiniteSet(Unrecorded(b))
  <2>1. \A b : Users(b) \in SUBSET DOMAIN hist /\ Unrecorded(b) \in SUBSET DOMAIN hist
    BY DEF Users, Unrecorded
  <2> QED BY <2>1, WritesFinite DEF ColumnInv
<1>7. CASE ReleaseNRS(w)
  <2> DEFINE gone == e.kind = "itr"
             x == blk[e.ikey]
             v == x.nrs - 1
             y == [x EXCEPT !.nrs = v]
  <2>1. /\ e.dec /\ blk' = [blk EXCEPT ![e.ikey] = y]
        /\ fl' = [fl EXCEPT ![w].ents =
                     (fl[w].ents \ {e}) \cup (IF gone THEN {} ELSE {[e EXCEPT !.dec = FALSE]})]
    BY <1>3, <1>7 DEF ReleaseNRS
  <2>2. gone \in BOOLEAN /\ (e.kind = "itr" => gone) OBVIOUS
  <2>3. /\ HolderInv'
        /\ \A b : Users(b)' = IF gone /\ e.kind # "itr" /\ b = e.ikey THEN Users(b) \ {e.id} ELSE Users(b)
        /\ \A b : Unrecorded(b)' = IF e.dec /\ b = e.ikey THEN Unrecorded(b) \ {e.id} ELSE Unrecorded(b)
        /\ e.dec => e.id \in Unrecorded(e.ikey)
    <3> HIDE DEF gone
    <3> QED BY <1>1, <1>3, <2>1, <2>2, ReleaseUsers
  <2>4. \A b : Users(b)' = Users(b) BY <2>3
  <2>5. \A b : Unrecorded(b)' \subseteq Unrecorded(b) BY <2>3
  <2>6. Cardinality(Unrecorded(e.ikey)') = Cardinality(Unrecorded(e.ikey)) - 1
    BY <1>6, <2>1, <2>3, FS_RemoveElement
  <2>7. \A b : b # e.ikey => Unrecorded(b)' = Unrecorded(b) BY <2>3
  <2>8. e.ikey \in DOMAIN blk => IsBlock(y) /\ y.nrs = x.nrs - 1 /\ y.ref = x.ref /\ y.kbml = x.kbml
    <3>1. e.ikey \in DOMAIN blk => IsBlock(x) BY <1>4
    <3> HIDE DEF x, v
    <3>2. e.ikey \in DOMAIN blk => IsBlock(y) /\ y.nrs = v /\ y.ref = x.ref /\ y.kbml = x.kbml
      BY <3>1 DEF IsBlock
    <3> QED BY <3>2 DEF v
  <2> HIDE DEF y
  <2>9. /\ blk' = [b \in DOMAIN blk |-> blk'[b]]
        /\ \A b \in DOMAIN blk : blk'[b] = IF b = e.ikey THEN y ELSE blk[b]
    BY <1>4, <2>1
  <2>10. ASSUME NEW b \in DOMAIN blk
         PROVE  /\ IsBlock(blk'[b]) /\ blk'[b].kbml = blk[b].kbml
                /\ blk'[b].ref = Cardinality(Users(b)') /\ blk'[b].nrs = Cardinality(Unrecorded(b)')
                /\ Unrecorded(b)' \subseteq Unrecorded(b)
    <3>1. CASE b = e.ikey BY <1>5, <2>4, <2>5, <2>6, <2>8, <2>9, <3>1
    <3>2. CASE b # e.ikey BY <1>4, <1>5, <2>4, <2>7, <2>9, <3>2
    <3> QED BY <3>1, <3>2
  <2> QED BY <1>1, <2>3, <2>9, <2>10, BlocksTally
<1>8. CASE ReleaseRef(w)
  <2> DEFINE x == blk[e.ikey]
             v == x.ref - 1
             y == [x EXCEPT !.ref = v]
  <2>1. /\ ~e.dec /\ blk' = IF e.kind = "itr" THEN blk ELSE [blk EXCEPT ![e.ikey] = y]
        /\ fl' = [fl EXCEPT ![w].ents = (fl[w].ents \ {e}) \cup {}]
    <3>1. ~e.dec /\ fl' = [fl EXCEPT ![w].ents = fl[w].ents \ {e}]
          /\ blk' = IF e.kind = "itr" THEN blk ELSE [blk EXCEPT ![e.ikey] = y]
      BY <1>3, <1>8 DEF ReleaseRef
    <3>2. (fl[w].ents \ {e}) \cup {} = fl[w].ents \ {e} OBVIOUS
    <3> QED BY <3>1, <3>2
  <2>2. fl' = [fl EXCEPT ![w].ents =
                  (fl[w].ents \ {e}) \cup (IF TRUE THEN {} ELSE {[e EXCEPT !.dec = FALSE]})]
    BY <2>1
  <2>3. /\ HolderInv'
        /\ \A b : Users(b)' = IF e.kind # "itr" /\ b = e.ikey THEN Users(b) \ {e.id} ELSE Users(b)
        /\ \A b : Unrecorded(b)' = IF e.dec /\ b = e.ikey THEN Unrecorded(b) \ {e.id} ELSE Unrecorded(b)
        /\ e.kind # "itr" => e.id \in Users(e.ikey)
    <3>1. /\ HolderInv'
          /\ \A b : Users(b)' = IF TRUE /\ e.kind # "itr" /\ b = e.ikey THEN Users(b) \ {e.id} ELSE Users(b)
          /\ \A b : Unrecorded(b)' = IF e.dec /\ b = e.ikey THEN Unrecorded(b) \ {e.id} ELSE Unrecorded(b)
          /\ e.kind # "itr" => e.id \in Users(e.ikey)
      BY <1>1, <1>3, <2>2, ReleaseUsers
    <3> QED BY <3>1
  <2>4. \A b : Unrecorded(b)' = Unrecorded(b) BY <2>1, <2>3
  <2>5. e.kind # "itr" => Cardinality(Users(e.ikey)') = Cardinality(Users(e.ikey)) - 1
    BY <1>6, <2>3, FS_RemoveElement
  <2>6. \A b : b # e.ikey \/ e.kind = "itr" => Users(b)' = Users(b) BY <2>3
  <2>7. e.ikey \in DOMAIN blk => IsBlock(y) /\ y.ref = x.ref - 1 /\ y.nrs = x.nrs /\ y.kbml = x.kbml
    <3>1. e.ikey \in DOMAIN blk => IsBlock(x) BY <1>4
    <3> HIDE DEF x, v
    <3>2. e.ikey \in DOMAIN blk => IsBlock(y) /\ y.ref = v /\ y.nrs = x.nrs /\ y.kbml = x.kbml
      BY <3>1 DEF IsBlock
    <3> QED BY <3>2 DEF v
  <2> HIDE DEF y
  <2>8. /\ blk' = [b \in DOMAIN blk |-> blk'[b]]
        /\ \A b \in DOMAIN blk : blk'[b] = IF e.kind # "itr" /\ b = e.ikey THEN y ELSE blk[b]
    <3>1. CASE e.kind = "itr" BY <1>4, <2>1, <3>1
    <3>2. CASE e.kind # "itr" BY <1>4, <2>1, <3>2
    <3> QED BY <3>1, <3>2
  <2>9. ASSUME NEW b \in DOMAIN blk
        PROVE  /\ IsBlock(blk'[b]) /\ blk'[b].kbml = blk[b].kbml
               /\ blk'[b].ref = Cardinality(Users(b)') /\ blk'[b].nrs = Cardinality(Unrecorded(b)')
               /\ Unrecorded(b)' \subseteq Unrecorded(b)
    <3>1. CASE b = e.ikey /\ e.kind # "itr" BY <1>5, <2>4, <2>5, <2>7, <2>8, <3>1
    <3>2. CASE ~(b = e.ikey /\ e.kind # "itr") BY <1>4, <1>5, <2>4, <2>6, <2>8, <3>2
    <3> QED BY <3>1, <3>2
  <2> QED BY <1>1, <2>3, <2>8, <2>9, BlocksTally
<1> QED BY <1>7, <1>8
-----------------------------------------------------------------------------
(* A block is written. *)

\* The keys after a worker has used its own.
LEMMA PutIkeys ==
  ASSUME ColumnInv, HolderInv, NEW w \in Worker, NEW b, b = ikeys.own[w],
         ikeys' = [next |-> ikeys.next + 1, own |-> [ikeys.own EXCEPT ![w] = ikeys.next]]
  PROVE  /\ b \in Nat /\ ~Used(b) /\ Used(b)' /\ \A c : Used(c) => Used(c)'
         /\ \A v \in Worker : ikeys'.own[v] < ikeys'.next
         /\ \A v, u \in Worker : ikeys'.own[v] = ikeys'.own[u] => v = u
<1>1. /\ ikeys.next \in Nat /\ ikeys.own \in [Worker -> Nat]
  BY DEF ColumnInv, WorkerType
<1>2. /\ \A v \in Worker : ikeys.own[v] < ikeys.next /\ ikeys.own[v] \in Nat
      /\ \A v, u \in Worker : ikeys.own[v] = ikeys.own[u] => v = u
  BY <1>1 DEF HolderInv, IkeysInv
<1> DEFINE n == ikeys.next
           o == ikeys.own
<1>3. ikeys'.next = n + 1 /\ ikeys'.own = [o EXCEPT ![w] = n] OBVIOUS
<1>4. \A v \in Worker : ikeys'.own[v] = IF v = w THEN n ELSE o[v] BY <1>1, <1>3
<1>5. b \in Nat /\ b < n /\ \A v \in Worker : v # w => o[v] # b BY <1>2
<1>6. ~Used(b) BY DEF Used
<1>7. Used(b)' BY <1>1, <1>3, <1>4, <1>5 DEF Used
<1>8. ASSUME NEW c, Used(c) PROVE Used(c)'
  <2>1. c \in Nat /\ c < n /\ \A v \in Worker : o[v] # c BY <1>8 DEF Used
  <2> QED BY <1>1, <1>3, <1>4, <2>1 DEF Used
<1>9. \A v \in Worker : ikeys'.own[v] < ikeys'.next BY <1>1, <1>2, <1>3, <1>4
<1>10. \A v, u \in Worker : ikeys'.own[v] = ikeys'.own[u] => v = u BY <1>1, <1>2, <1>4
<1> QED BY <1>5, <1>6, <1>7, <1>8, <1>9, <1>10

\* Nothing was counted for a block before it is written.
LEMMA UnusedBlock ==
  ASSUME HolderInv, NEW b, ~Used(b), NEW id
  PROVE  /\ ~Attached(id, b) /\ ~Uncommitted(id, b) /\ ~Submitted(id, b)
         /\ ~Removed(id, b) /\ ~Counted(id, b)
<1>1. IkeysInv BY DEF HolderInv
<1>2. ~Attached(id, b) BY <1>1 DEF IkeysInv, Attached, HasStored
<1>3. ~Uncommitted(id, b) BY <1>1 DEF IkeysInv, Uncommitted, HasUnrecorded
<1>4. ~Submitted(id, b) BY <1>1 DEF IkeysInv, Submitted
<1>5. ~Removed(id, b) BY <1>1 DEF IkeysInv, Removed
<1>6. ~Counted(id, b) BY <1>1 DEF IkeysInv, Counted
<1> QED BY <1>2, <1>3, <1>4, <1>5, <1>6

\* The columns of the block are counted for it.
LEMMA PutUsers ==
  ASSUME ColumnInv, HolderInv, NEW w \in Worker, NEW b, b = ikeys.own[w], Put(w)
  PROVE  /\ Heads(w) \subseteq DOMAIN hist
         /\ Users(b)' = Heads(w) /\ Unrecorded(b)' = Heads(w)
         /\ \A c : c # b => Users(c)' = Users(c) /\ Unrecorded(c)' = Unrecorded(c)
         /\ \A v \in Worker : Writes(v)' => (v = w /\ wk'[v].ikey = b) \/ (Writes(v) /\ wk'[v] = wk[v])
<1> USE DEF ColumnInv
<1>1. /\ wk[w].pc = "put" /\ wk' = [wk EXCEPT ![w].pc = "submit", ![w].ikey = b]
      /\ UNCHANGED <<uk, reqs, hist, fl, sktdf>>
      /\ ikeys' = [next |-> ikeys.next + 1, own |-> [ikeys.own EXCEPT ![w] = ikeys.next]]
  BY DEF Put, userVars
<1>2. ~Used(b) BY <1>1, PutIkeys
<1>3. /\ wk'[w].pc = "submit" /\ wk'[w].ikey = b /\ wk'[w].list = wk[w].list /\ wk'[w].pos = wk[w].pos
      /\ \A v \in Worker : v # w => wk'[v] = wk[v]
  BY <1>1 DEF WorkerType, IsWorker
<1>4. wk[w].pos = 1 /\ wk[w].list \in Seq(Nat) BY <1>1 DEF WorkerPlaces, WorkerType, IsWorker
<1>5. /\ Todo(w) = 1..Len(wk[w].list) /\ Todo(w)' = 1..Len(wk[w].list)
      /\ DOMAIN wk[w].list = 1..Len(wk[w].list)
  <2>1. From(w) = 1 /\ From(w)' = 1 BY <1>1, <1>3, <1>4 DEF From
  <2>2. Todo(w) = 1..Len(wk[w].list) BY <2>1 DEF Todo
  <2>3. Todo(w)' = 1..Len(wk[w].list) BY <1>3, <2>1 DEF Todo
  <2> QED BY <1>4, <2>2, <2>3
<1>6. Heads(w) \subseteq DOMAIN hist
  <2>1. \A i \in DOMAIN wk[w].list : wk[w].list[i] \in DOMAIN reqs /\ reqs[wk[w].list[i]].latest # 0
    BY <1>5 DEF WorkerPlaces
  <2> QED BY <2>1, LatestWrite DEF Heads
<1>7. ~Writes(w) /\ Writes(w)' BY <1>1, <1>3 DEF Writes
<1>8. \A v \in Worker : v # w => (Writes(v)' <=> Writes(v)) /\ Todo(v)' = Todo(v)
  BY <1>3 DEF Writes, Todo, From
<1>9. ASSUME NEW id, NEW c
      PROVE  Submitted(id, c)' <=> Submitted(id, c) \/ (c = b /\ id \in Heads(w))
  <2>1. ASSUME Submitted(id, c)' PROVE Submitted(id, c) \/ (c = b /\ id \in Heads(w))
    <3>1. PICK v \in Worker : /\ Writes(v)' /\ wk'[v].ikey = c
                              /\ \E i \in Todo(v)' : reqs'[wk'[v].list[i]].latest = id
      BY <2>1 DEF Submitted
    <3>2. CASE v = w BY <1>1, <1>3, <1>5, <3>1, <3>2 DEF Heads
    <3>3. CASE v # w BY <1>1, <1>3, <1>8, <3>1, <3>3 DEF Submitted
    <3> QED BY <3>2, <3>3
  <2>2. ASSUME Submitted(id, c) PROVE Submitted(id, c)'
    <3>1. PICK v \in Worker : /\ Writes(v) /\ wk[v].ikey = c
                              /\ \E i \in Todo(v) : reqs[wk[v].list[i]].latest = id
      BY <2>2 DEF Submitted
    <3>2. v # w BY <1>7, <3>1
    <3>3. wk'[v] = wk[v] /\ Writes(v)' /\ Todo(v)' = Todo(v) BY <1>3, <1>8, <3>1, <3>2
    <3>4. \E i \in Todo(v)' : reqs'[wk'[v].list[i]].latest = id BY <1>1, <3>1, <3>3
    <3> HIDE DEF Writes, Todo
    <3> QED BY <3>1, <3>3, <3>4 DEF Submitted
  <2>3. ASSUME id \in Heads(w), c = b PROVE Submitted(id, c)'
    <3>1. PICK i \in DOMAIN wk[w].list : reqs[wk[w].list[i]].latest = id BY <2>3 DEF Heads
    <3>2. i \in Todo(w)' /\ reqs'[wk'[w].list[i]].latest = id BY <1>1, <1>3, <1>5, <3>1
    <3> QED BY <1>3, <1>7, <2>3, <3>2 DEF Submitted
  <2> QED BY <2>1, <2>2, <2>3
<1>10. ASSUME NEW id, NEW c
       PROVE  /\ Attached(id, c)' <=> Attached(id, c)
              /\ Uncommitted(id, c)' <=> Uncommitted(id, c)
              /\ Removed(id, c)' <=> Removed(id, c)
              /\ Counted(id, c)' <=> Counted(id, c)
  BY <1>1 DEF Attached, Uncommitted, Removed, Counted
<1>11. Users(b)' = Heads(w)
  <2>1. \A id : id \in Users(b)' <=> id \in Heads(w)
    BY <1>1, <1>2, <1>6, <1>9, <1>10, UnusedBlock DEF Users
  <2> QED BY <2>1, <1>6 DEF Users
<1>12. Unrecorded(b)' = Heads(w)
  <2>1. \A id : id \in Unrecorded(b)' <=> id \in Heads(w)
    BY <1>1, <1>2, <1>6, <1>9, <1>10, UnusedBlock DEF Unrecorded
  <2> QED BY <2>1, <1>6 DEF Unrecorded
<1>13. ASSUME NEW c, c # b PROVE Users(c)' = Users(c) /\ Unrecorded(c)' = Unrecorded(c)
  BY <1>1, <1>9, <1>10, <1>13 DEF Users, Unrecorded
<1>14. \A v \in Worker : Writes(v)' => (v = w /\ wk'[v].ikey = b) \/ (Writes(v) /\ wk'[v] = wk[v])
  BY <1>3, <1>8
<1> QED BY <1>6, <1>11, <1>12, <1>13, <1>14

\* A worker writes its block.
LEMMA PutTally ==
  ASSUME ColumnInv, HolderInv, TallyInv, NEW w \in Worker, Put(w)
  PROVE  HolderInv' /\ TallyInv'
<1>1. PICK b : b = ikeys.own[w] OBVIOUS
<1> DEFINE a == logq[w].active
           o == logq[w].q[a]
           n == NewBlock(w)
           Q == [logq[w].q EXCEPT ![a] = Append(o, b)]
           x == [logq[w] EXCEPT !.q = Q]
           U(c) == c \in Nat /\ c < ikeys'.next /\ \A v \in Worker : ikeys'.own[v] # c
<1>2. /\ blk' = With(blk, b, n) /\ logq' = [logq EXCEPT ![w] = x]
      /\ ikeys' = [next |-> ikeys.next + 1, own |-> [ikeys.own EXCEPT ![w] = ikeys.next]]
      /\ UNCHANGED <<uk, reqs, hist, fl, sktdf, lt>>
  BY <1>1 DEF Put, userVars
<1>3. /\ b \in Nat /\ ~Used(b) /\ U(b) /\ \A c : Used(c) => U(c)
      /\ \A v \in Worker : ikeys'.own[v] < ikeys'.next
      /\ \A v, u \in Worker : ikeys'.own[v] = ikeys'.own[u] => v = u
  <2>1. /\ b \in Nat /\ ~Used(b) /\ Used(b)' /\ \A c : Used(c) => Used(c)'
        /\ \A v \in Worker : ikeys'.own[v] < ikeys'.next
        /\ \A v, u \in Worker : ikeys'.own[v] = ikeys'.own[u] => v = u
    BY <1>1, <1>2, PutIkeys
  <2>2. \A c : Used(c)' <=> U(c) BY DEF Used
  <2> HIDE DEF U
  <2> QED BY <2>1, <2>2
<1> HIDE DEF U
<1>4. /\ Heads(w) \subseteq DOMAIN hist
      /\ Users(b)' = Heads(w) /\ Unrecorded(b)' = Heads(w)
      /\ \A c : c # b => Users(c)' = Users(c) /\ Unrecorded(c)' = Unrecorded(c)
      /\ \A v \in Worker : Writes(v)' => (v = w /\ wk'[v].ikey = b) \/ (Writes(v) /\ wk'[v] = wk[v])
  BY <1>1, PutUsers
<1>5. HolderInv'
  <2>1. FreshInv' BY <1>2 DEF HolderInv, FreshInv
  <2>2. EntriesInv' BY <1>2 DEF HolderInv, EntriesInv
  <2>3. \A v \in Worker : Writes(v)' => U(wk'[v].ikey) BY <1>3, <1>4 DEF HolderInv, IkeysInv
  <2>4. \A k \in Key : \A i \in DOMAIN uk'[k].cols : uk'[k].cols[i].st = "stored" => U(uk'[k].cols[i].ikey)
    BY <1>2, <1>3 DEF HolderInv, IkeysInv
  <2>5. /\ \A t \in Table : \A k \in DOMAIN sktdf'[t] : U(sktdf'[t][k].ikey)
        /\ \A v \in Worker : /\ \A k \in DOMAIN fl'[v].rows : U(fl'[v].rows[k].ikey)
                             /\ \A e \in fl'[v].ents : U(e.ikey)
    BY <1>2, <1>3 DEF HolderInv, IkeysInv
  <2>6. IkeysInv' BY <1>3, <2>3, <2>4, <2>5 DEF IkeysInv, Used, U
  <2> QED BY <2>1, <2>2, <2>6 DEF HolderInv
<1>6. n = [bits |-> n.bits, trx |-> n.trx, ref |-> Cardinality(Heads(w)), nrs |-> Cardinality(Heads(w)),
           inlog |-> TRUE, kbml |-> TRUE, wbits |-> {}]
  BY DEF NewBlock
<1> HIDE DEF n
<1>7. IsBlock(n) /\ n.ref = Cardinality(Heads(w)) /\ n.nrs = Cardinality(Heads(w)) /\ n.kbml = TRUE
  BY <1>6 DEF IsBlock
<1>8. b \notin DOMAIN blk BY <1>3 DEF TallyInv, BlockType
<1>9. /\ DOMAIN blk' = DOMAIN blk \cup {b} /\ blk' = [c \in DOMAIN blk' |-> blk'[c]]
      /\ blk'[b] = n /\ \A c \in DOMAIN blk : c # b /\ blk'[c] = blk[c]
  BY <1>2, <1>8 DEF With
<1>10. BlockType'
  <2>1. \A c \in DOMAIN blk' : IsBlock(blk'[c]) /\ U(c)
    BY <1>3, <1>7, <1>9 DEF TallyInv, BlockType
  <2> QED BY <1>9, <2>1 DEF BlockType, Used, U
<1>11. RefInv'
  <2>1. \A c \in DOMAIN blk' : blk'[c].ref = Cardinality(Users(c)')
    BY <1>4, <1>7, <1>9 DEF TallyInv, RefInv
  <2> QED BY <2>1 DEF RefInv
<1>12. NrsInv'
  <2>1. \A c \in DOMAIN blk' : blk'[c].nrs = Cardinality(Unrecorded(c)')
    BY <1>4, <1>7, <1>9 DEF TallyInv, NrsInv
  <2> QED BY <2>1 DEF NrsInv
<1>13. /\ logq \in [Worker -> [q : [{0, 1} -> Seq(Nat)], active : {0, 1}]]
       /\ \A v \in Worker : \A c \in {0, 1} : \A i \in DOMAIN logq[v].q[c] : Used(logq[v].q[c][i])
  BY DEF TallyInv, LogType, LogInv
<1>14. logq[w] \in [q : [{0, 1} -> Seq(Nat)], active : {0, 1}] BY <1>13
<1>15. a \in {0, 1} /\ logq[w].q \in [{0, 1} -> Seq(Nat)] /\ o \in Seq(Nat) BY <1>14
<1>16. \A i \in DOMAIN o : Used(o[i]) BY <1>13, <1>15
<1> HIDE DEF a, o
<1>17. /\ Append(o, b) \in Seq(Nat)
       /\ \A i \in DOMAIN Append(o, b) : (i \in DOMAIN o /\ Append(o, b)[i] = o[i]) \/ Append(o, b)[i] = b
  <2>1. o \in Seq(Nat) /\ b \in Nat BY <1>3, <1>15
  <2> QED BY ONLY <2>1
<1>18. \A i \in DOMAIN Append(o, b) : U(Append(o, b)[i]) BY <1>3, <1>16, <1>17
<1>19. Q \in [{0, 1} -> Seq(Nat)] /\ \A c \in {0, 1} : Q[c] = IF c = a THEN Append(o, b) ELSE logq[w].q[c]
  BY <1>15, <1>17
<1> HIDE DEF Q
<1>20. x \in [q : [{0, 1} -> Seq(Nat)], active : {0, 1}] /\ x.q = Q BY <1>14, <1>19
<1> HIDE DEF x
<1>21. \A c \in {0, 1} : \A i \in DOMAIN x.q[c] : U(x.q[c][i]) BY <1>3, <1>13, <1>18, <1>19, <1>20
<1>22. /\ logq' \in [Worker -> [q : [{0, 1} -> Seq(Nat)], active : {0, 1}]]
       /\ \A v \in Worker : logq'[v] = IF v = w THEN x ELSE logq[v]
  BY <1>2, <1>13, <1>20
<1>23. LogType' BY <1>2, <1>22 DEF TallyInv, LogType
<1>24. LogInv'
  <2>1. \A v \in Worker : \A c \in {0, 1} : \A i \in DOMAIN logq'[v].q[c] : U(logq'[v].q[c][i])
    <3> TAKE v \in Worker
    <3>1. CASE v = w BY <1>21, <1>22, <3>1
    <3>2. CASE v # w BY <1>3, <1>13, <1>22, <3>2
    <3> QED BY <3>1, <3>2
  <2>2. \A i \in DOMAIN lt'.batch :
           U(lt'.batch[i]) /\ (lt'.batch[i] \in DOMAIN blk' => blk'[lt'.batch[i]].nrs = 0)
    <3>1. \A i \in DOMAIN lt.batch :
             Used(lt.batch[i]) /\ (lt.batch[i] \in DOMAIN blk => blk[lt.batch[i]].nrs = 0)
      BY DEF TallyInv, LogInv
    <3>2. \A i \in DOMAIN lt.batch : lt.batch[i] # b BY <1>3, <3>1
    <3> QED BY <1>2, <1>3, <1>9, <3>1, <3>2
  <2>3. \A c \in DOMAIN blk' : blk'[c].nrs > 0 => blk'[c].kbml
    BY <1>7, <1>9 DEF TallyInv, LogInv
  <2> QED BY <2>1, <2>2, <2>3 DEF LogInv, Used, U
<1> QED BY <1>5, <1>10, <1>11, <1>12, <1>23, <1>24 DEF TallyInv
-----------------------------------------------------------------------------
(* A column is updated. *)

\* Column h of key k, which request r submits, is put into the block of worker w; the
\* request is freed.
Updates(w, k, r, h) ==
    /\ reqs[r].key = k /\ uk[k].cols[h].id = reqs[r].latest /\ reqs[r].latest # 0
    /\ uk[k].cols[h].st \in {"pending", "submitting"} /\ ~uk[k].cols[h].committed
    /\ Writes(w) /\ (\E i \in Todo(w) : wk[w].list[i] = r)
    /\ DOMAIN uk'[k].cols = DOMAIN uk[k].cols
    /\ \A i \in DOMAIN uk[k].cols : i # h => uk'[k].cols[i] = uk[k].cols[i]
    /\ Alike([uk[k].cols[h] EXCEPT !.ikey = wk[w].ikey], uk'[k].cols[h]) /\ uk'[k].cols[h].st = "stored"
    /\ \A j \in Key : j # k => uk'[j] = uk[j]
    /\ \A y \in DOMAIN reqs : y # r => reqs'[y] = reqs[y]
    /\ \A v \in Worker :
          /\ Writes(v)' => Writes(v) /\ wk'[v].ikey = wk[v].ikey
          /\ Writes(v)' => \A i \in Todo(v)' :
                              i \in Todo(v) /\ wk'[v].list[i] = wk[v].list[i] /\ wk[v].list[i] # r
          /\ Writes(v) => \A i \in Todo(v) : wk[v].list[i] # r =>
                              Writes(v)' /\ i \in Todo(v)' /\ wk'[v].list[i] = wk[v].list[i]
    /\ UNCHANGED <<hist, fl, sktdf, blockVars, lt>>

\* What an Update does to the lists and the workers.
LEMMA UpdateIs ==
  ASSUME ColumnInv, HolderInv, NEW w \in Worker, Update(w)
  PROVE  \E k \in Key, r \in DOMAIN reqs : \E h \in DOMAIN uk[k].cols :
            Updates(w, k, r, h)
<1> DEFINE r == wk[w].list[wk[w].pos]
           k == reqs[r].key
           cols == uk[k].cols
           h == At(k, reqs[r].latest)
           c == [cols[h] EXCEPT !.st = "stored", !.ikey = wk[w].ikey, !.kbm = "log"]
           last == wk[w].pos = Len(wk[w].list)
           x == IF last THEN IdleWorker ELSE [wk[w] EXCEPT !.pc = "submit", !.pos = @ + 1]
<1>1. /\ UserType /\ WorkerType /\ ColumnsInv /\ WorkerPlaces /\ ClosedInv
  BY DEF ColumnInv
<1>2. /\ wk[w].pc \in {"submit", "update"}
      /\ uk' = [uk EXCEPT ![k].cols[h] = c]
      /\ reqs' = Remove(reqs, r) /\ wk' = [wk EXCEPT ![w] = x]
      /\ UNCHANGED <<hist, fl, sktdf, blockVars, lt>>
  BY DEF Update
<1>3. /\ IsWorker(wk[w]) /\ wk[w].list \in Seq(Nat) /\ wk[w].pos \in Nat
      /\ wk[w].pos \in 1..Len(wk[w].list) /\ Todo(w) = wk[w].pos..Len(wk[w].list)
      /\ wk[w].pos \in Todo(w)
  <2>1. IsWorker(wk[w]) BY <1>1 DEF WorkerType
  <2>2. wk[w].list \in Seq(Nat) /\ wk[w].pos \in Nat BY <2>1 DEF IsWorker
  <2>3. wk[w].pos \in 1..Len(wk[w].list) BY <1>1, <1>2 DEF WorkerPlaces
  <2>4. Todo(w) = wk[w].pos..Len(wk[w].list) BY <1>2 DEF Todo, From
  <2> QED BY <2>1, <2>2, <2>3, <2>4
<1>4. r \in DOMAIN reqs /\ reqs[r].latest # 0 BY <1>1, <1>3 DEF WorkerPlaces
<1>5. \E i \in Todo(w) : wk[w].list[i] = r BY <1>3
<1>6. Writes(w) BY <1>2 DEF Writes
<1>7. \A v \in Worker : \A i \in Todo(v) : wk[v].list[i] = r => v = w /\ i = wk[w].pos
  BY <1>1, <1>3 DEF WorkerPlaces
<1> HIDE DEF r
<1>8. /\ k \in Key /\ uk[k] \in UserKey /\ cols \in Seq(ColumnNode) /\ h \in DOMAIN cols
      /\ cols[h].id = reqs[r].latest /\ cols[h].st \in {"pending", "submitting"}
  BY <1>1, <1>4, AtFacts
<1>9. ~cols[h].committed
  <2>1. Fresh(cols[h]) BY <1>8 DEF HolderInv, FreshInv
  <2> HIDE DEF cols, h, k
  <2> QED BY <1>8, <2>1 DEF Fresh
<1>10. c.st = "stored" /\ Alike([cols[h] EXCEPT !.ikey = wk[w].ikey], c)
  <2>1. cols[h] \in ColumnNode BY <1>8
  <2>2. wk[w].ikey \in Nat BY <1>3 DEF IsWorker
  <2> DEFINE o == cols[h]
             n == wk[w].ikey
             y == [o EXCEPT !.ikey = n]
             z == [[o EXCEPT !.st = "stored"] EXCEPT !.ikey = n]
             z1 == [z EXCEPT !.kbm = "log"]
  <2> HIDE DEF cols, h, k
  <2>3. o \in ColumnNode /\ n \in Nat /\ c = z1 BY <2>1, <2>2
  <2> HIDE DEF o, n, c
  <2>4. y \in ColumnNode /\ y.id = o.id /\ y.ikey = n /\ y.del = o.del /\ y.committed = o.committed
        /\ y.holding = o.holding /\ y.recdel = o.recdel
    BY <2>3 DEF ColumnNode
  <2>5. z \in ColumnNode /\ z.id = o.id /\ z.ikey = n /\ z.del = o.del /\ z.committed = o.committed
        /\ z.holding = o.holding /\ z.recdel = o.recdel /\ z.st = "stored"
    BY <2>3 DEF ColumnNode
  <2> HIDE DEF z
  <2>6. z1.id = z.id /\ z1.ikey = z.ikey /\ z1.del = z.del /\ z1.committed = z.committed
        /\ z1.holding = z.holding /\ z1.recdel = z.recdel /\ z1.st = z.st
    BY <2>5 DEF ColumnNode
  <2> HIDE DEF y, z1
  <2>7. c.st = "stored" /\ Alike(y, c) BY <2>3, <2>4, <2>5, <2>6 DEF Alike
  <2> QED BY <2>7 DEF y, o, n
<1> HIDE DEF c, h, k
<1> DEFINE B == [cols EXCEPT ![h] = c]
           u == [uk[k] EXCEPT !.cols = B]
<1>11. uk' = [uk EXCEPT ![k] = u]
  <2>1. uk \in [Key -> UserKey] BY <1>1 DEF UserType
  <2> QED BY <1>2, <1>8, <2>1
<1>12. DOMAIN B = DOMAIN cols /\ B[h] = c /\ \A i \in DOMAIN cols : i # h => B[i] = cols[i]
  <2> HIDE DEF cols
  <2> QED BY <1>8
<1> HIDE DEF B
<1>13. u.cols = B BY <1>8 DEF UserKey
<1> HIDE DEF u
<1>14. uk'[k] = u /\ \A j \in Key : j # k => uk'[j] = uk[j]
  <2>1. uk \in [Key -> UserKey] BY <1>1 DEF UserType
  <2> QED BY <1>8, <1>11, <2>1
<1>15. \A y \in DOMAIN reqs : y # r => reqs'[y] = reqs[y] BY <1>2 DEF Remove
<1>16. wk'[w] = x /\ \A v \in Worker : v # w => wk'[v] = wk[v] BY <1>1, <1>2 DEF WorkerType
<1>17. /\ last => x = IdleWorker
       /\ ~last => x.pc = "submit" /\ x.list = wk[w].list /\ x.pos = wk[w].pos + 1 /\ x.ikey = wk[w].ikey
  <2>1. CASE last BY <2>1
  <2>2. CASE ~last
    <3> DEFINE y == [wk[w] EXCEPT !.pc = "submit"]
               z == [y EXCEPT !.pos = wk[w].pos + 1]
    <3>1. IsWorker(y) /\ y.pc = "submit" /\ y.list = wk[w].list /\ y.ikey = wk[w].ikey BY <1>3 DEF IsWorker
    <3>2. x = z BY <2>2
    <3> HIDE DEF y
    <3>3. z.pc = "submit" /\ z.list = wk[w].list /\ z.pos = wk[w].pos + 1 /\ z.ikey = wk[w].ikey
      BY <1>3, <3>1 DEF IsWorker
    <3> QED BY <2>2, <3>2, <3>3
  <2> QED BY <2>1, <2>2
<1> HIDE DEF x
<1>18. ASSUME NEW v \in Worker
       PROVE  /\ Writes(v)' => Writes(v) /\ wk'[v].ikey = wk[v].ikey
              /\ Writes(v)' => \A i \in Todo(v)' :
                                  i \in Todo(v) /\ wk'[v].list[i] = wk[v].list[i] /\ wk[v].list[i] # r
              /\ Writes(v) => \A i \in Todo(v) : wk[v].list[i] # r =>
                                  Writes(v)' /\ i \in Todo(v)' /\ wk'[v].list[i] = wk[v].list[i]
  <2>1. CASE v # w
    <3>1. wk'[v] = wk[v] BY <1>16, <2>1
    <3>2. Todo(v)' = Todo(v) /\ (Writes(v)' <=> Writes(v)) BY <3>1 DEF Todo, From, Writes
    <3> QED BY <1>7, <2>1, <3>1, <3>2
  <2>2. CASE v = w /\ last
    <3>1. wk'[v].pc = "idle" BY <1>16, <1>17, <2>2 DEF IdleWorker
    <3>2. ~Writes(v)' BY <3>1 DEF Writes
    <3>3. \A i \in Todo(v) : i = wk[w].pos BY <1>3, <2>2
    <3> QED BY <2>2, <3>2, <3>3 DEF r
  <2>3. CASE v = w /\ ~last
    <3>1. /\ wk'[v].pc = "submit" /\ wk'[v].list = wk[w].list /\ wk'[v].pos = wk[w].pos + 1
          /\ wk'[v].ikey = wk[w].ikey
      BY <1>16, <1>17, <2>3
    <3>2. Todo(v)' = (wk[w].pos + 1)..Len(wk[w].list) /\ Writes(v)' BY <3>1 DEF Todo, From, Writes
    <3>3. \A i : i \in (wk[w].pos + 1)..Len(wk[w].list) <=> i \in wk[w].pos..Len(wk[w].list) /\ i # wk[w].pos
      BY <1>3
    <3>4. \A i : i \in Todo(v)' <=> i \in Todo(v) /\ i # wk[w].pos BY <1>3, <2>3, <3>2, <3>3
    <3>5. wk[w].list[wk[w].pos] = r BY DEF r
    <3> QED BY <1>6, <1>7, <2>3, <3>1, <3>2, <3>4, <3>5
  <2> QED BY <2>1, <2>2, <2>3
<1>19. reqs[r].key = k BY DEF k
<1>20. uk'[k].cols = B BY <1>13, <1>14
<1>21. h \in DOMAIN uk[k].cols BY <1>8
<1>22. uk[k].cols[h].id = reqs[r].latest /\ reqs[r].latest # 0 /\ ~uk[k].cols[h].committed
       /\ uk[k].cols[h].st \in {"pending", "submitting"}
  BY <1>4, <1>8, <1>9
<1>23. /\ DOMAIN uk'[k].cols = DOMAIN uk[k].cols
       /\ \A i \in DOMAIN uk[k].cols : i # h => uk'[k].cols[i] = uk[k].cols[i]
       /\ Alike([uk[k].cols[h] EXCEPT !.ikey = wk[w].ikey], uk'[k].cols[h]) /\ uk'[k].cols[h].st = "stored"
  BY <1>10, <1>12, <1>20
<1> HIDE DEF cols, last
<1>24. Updates(w, k, r, h)
  BY <1>2, <1>5, <1>6, <1>14, <1>15, <1>18, <1>19, <1>22, <1>23 DEF Updates
<1> QED BY <1>4, <1>8, <1>21, <1>24

\* A worker updates a column.
LEMMA UpdateTally ==
  ASSUME ColumnInv, HolderInv, TallyInv, NEW w \in Worker, Update(w)
  PROVE  HolderInv' /\ TallyInv'
<1> USE DEF ColumnInv
<1>1. PICK k \in Key, r \in DOMAIN reqs : \E h \in DOMAIN uk[k].cols : Updates(w, k, r, h) BY UpdateIs
<1>0. PICK h \in DOMAIN uk[k].cols : Updates(w, k, r, h) BY <1>1
<1>2. /\ reqs[r].key = k /\ uk[k].cols[h].id = reqs[r].latest /\ reqs[r].latest # 0
      /\ uk[k].cols[h].st \in {"pending", "submitting"} /\ ~uk[k].cols[h].committed
      /\ Writes(w) /\ (\E i \in Todo(w) : wk[w].list[i] = r)
      /\ DOMAIN uk'[k].cols = DOMAIN uk[k].cols
      /\ \A i \in DOMAIN uk[k].cols : i # h => uk'[k].cols[i] = uk[k].cols[i]
      /\ Alike([uk[k].cols[h] EXCEPT !.ikey = wk[w].ikey], uk'[k].cols[h]) /\ uk'[k].cols[h].st = "stored"
      /\ \A j \in Key : j # k => uk'[j] = uk[j]
      /\ \A y \in DOMAIN reqs : y # r => reqs'[y] = reqs[y]
      /\ \A v \in Worker :
            /\ Writes(v)' => Writes(v) /\ wk'[v].ikey = wk[v].ikey
            /\ Writes(v)' => \A i \in Todo(v)' :
                                i \in Todo(v) /\ wk'[v].list[i] = wk[v].list[i] /\ wk[v].list[i] # r
            /\ Writes(v) => \A i \in Todo(v) : wk[v].list[i] # r =>
                                Writes(v)' /\ i \in Todo(v)' /\ wk'[v].list[i] = wk[v].list[i]
      /\ UNCHANGED <<hist, fl, sktdf, blockVars, lt>>
  BY <1>0 DEF Updates
<1>3. /\ uk'[k].cols[h].id = reqs[r].latest /\ uk'[k].cols[h].ikey = wk[w].ikey
      /\ ~uk'[k].cols[h].committed /\ uk'[k].cols[h].st = "stored" /\ h \in DOMAIN uk'[k].cols
  <2>1. uk[k].cols[h] \in ColumnNode BY ColumnTyped
  <2> DEFINE o == uk[k].cols[h]
             y == [o EXCEPT !.ikey = wk[w].ikey]
  <2>2. o \in ColumnNode BY <2>1
  <2> HIDE DEF o
  <2>3. y.id = o.id /\ y.ikey = wk[w].ikey /\ y.committed = o.committed BY <2>2 DEF ColumnNode
  <2>4. Alike(y, uk'[k].cols[h]) BY <1>2 DEF o
  <2> HIDE DEF y
  <2>5. uk'[k].cols[h].id = o.id /\ uk'[k].cols[h].ikey = wk[w].ikey
        /\ uk'[k].cols[h].committed = o.committed
    BY <2>3, <2>4 DEF Alike
  <2> QED BY <1>2, <2>5 DEF o
<1>4. PICK n, b : n = reqs[r].latest /\ b = wk[w].ikey OBVIOUS
<1>5. \A j \in Key : \A i \in DOMAIN uk[j].cols : uk[j].cols[i].id = n => j = k /\ i = h
  BY <1>2, <1>4, OnePlace
<1>6. ASSUME NEW id, NEW c PROVE Attached(id, c)' <=> Attached(id, c) \/ (id = n /\ c = b)
  <2>1. ASSUME Attached(id, c)' PROVE Attached(id, c) \/ (id = n /\ c = b)
    <3>1. PICK j \in Key : \E i \in DOMAIN uk'[j].cols :
             uk'[j].cols[i].id = id /\ uk'[j].cols[i].st = "stored" /\ uk'[j].cols[i].ikey = c
      BY <2>1 DEF Attached, HasStored
    <3>2. PICK i \in DOMAIN uk'[j].cols :
             uk'[j].cols[i].id = id /\ uk'[j].cols[i].st = "stored" /\ uk'[j].cols[i].ikey = c
      BY <3>1
    <3>3. CASE j = k /\ i = h BY <1>3, <1>4, <3>2, <3>3
    <3>4. CASE ~(j = k /\ i = h)
      <4>1. i \in DOMAIN uk[j].cols /\ uk'[j].cols[i] = uk[j].cols[i] BY <1>2, <3>4
      <4> QED BY <3>2, <4>1 DEF Attached, HasStored
    <3> QED BY <3>3, <3>4
  <2>2. ASSUME Attached(id, c) PROVE Attached(id, c)'
    <3>1. PICK j \in Key : \E i \in DOMAIN uk[j].cols :
             uk[j].cols[i].id = id /\ uk[j].cols[i].st = "stored" /\ uk[j].cols[i].ikey = c
      BY <2>2 DEF Attached, HasStored
    <3>2. PICK i \in DOMAIN uk[j].cols :
             uk[j].cols[i].id = id /\ uk[j].cols[i].st = "stored" /\ uk[j].cols[i].ikey = c
      BY <3>1
    <3>3. ~(j = k /\ i = h) BY <1>2, <3>2
    <3>4. i \in DOMAIN uk'[j].cols /\ uk'[j].cols[i] = uk[j].cols[i] BY <1>2, <3>3
    <3> QED BY <3>2, <3>4 DEF Attached, HasStored
  <2>3. Attached(n, b)' BY <1>3, <1>4 DEF Attached, HasStored
  <2> QED BY <2>1, <2>2, <2>3
<1>7. ASSUME NEW id, NEW c PROVE Uncommitted(id, c)' <=> Uncommitted(id, c) \/ (id = n /\ c = b)
  <2>1. ASSUME Uncommitted(id, c)' PROVE Uncommitted(id, c) \/ (id = n /\ c = b)
    <3>1. PICK j \in Key : \E i \in DOMAIN uk'[j].cols :
             uk'[j].cols[i].id = id /\ uk'[j].cols[i].st = "stored" /\ uk'[j].cols[i].ikey = c
             /\ ~uk'[j].cols[i].committed
      BY <2>1 DEF Uncommitted, HasUnrecorded
    <3>2. PICK i \in DOMAIN uk'[j].cols :
             uk'[j].cols[i].id = id /\ uk'[j].cols[i].st = "stored" /\ uk'[j].cols[i].ikey = c
             /\ ~uk'[j].cols[i].committed
      BY <3>1
    <3>3. CASE j = k /\ i = h BY <1>3, <1>4, <3>2, <3>3
    <3>4. CASE ~(j = k /\ i = h)
      <4>1. i \in DOMAIN uk[j].cols /\ uk'[j].cols[i] = uk[j].cols[i] BY <1>2, <3>4
      <4> QED BY <3>2, <4>1 DEF Uncommitted, HasUnrecorded
    <3> QED BY <3>3, <3>4
  <2>2. ASSUME Uncommitted(id, c) PROVE Uncommitted(id, c)'
    <3>1. PICK j \in Key : \E i \in DOMAIN uk[j].cols :
             uk[j].cols[i].id = id /\ uk[j].cols[i].st = "stored" /\ uk[j].cols[i].ikey = c
             /\ ~uk[j].cols[i].committed
      BY <2>2 DEF Uncommitted, HasUnrecorded
    <3>2. PICK i \in DOMAIN uk[j].cols :
             uk[j].cols[i].id = id /\ uk[j].cols[i].st = "stored" /\ uk[j].cols[i].ikey = c
             /\ ~uk[j].cols[i].committed
      BY <3>1
    <3>3. ~(j = k /\ i = h) BY <1>2, <3>2
    <3>4. i \in DOMAIN uk'[j].cols /\ uk'[j].cols[i] = uk[j].cols[i] BY <1>2, <3>3
    <3> QED BY <3>2, <3>4 DEF Uncommitted, HasUnrecorded
  <2>3. Uncommitted(n, b)' BY <1>3, <1>4 DEF Uncommitted, HasUnrecorded
  <2> QED BY <2>1, <2>2, <2>3
<1>8. \A y \in DOMAIN reqs : reqs[y].latest = n => y = r BY <1>2, <1>4 DEF ClosedInv
<1>9. \A v \in Worker : \A i \in Todo(v) : wk[v].list[i] \in DOMAIN reqs BY DEF WorkerPlaces
<1>10. ASSUME NEW id, NEW c PROVE Submitted(id, c)' <=> Submitted(id, c) /\ id # n
  <2>1. ASSUME Submitted(id, c)' PROVE Submitted(id, c) /\ id # n
    <3>1. PICK v \in Worker : /\ Writes(v)' /\ wk'[v].ikey = c
                              /\ \E i \in Todo(v)' : reqs'[wk'[v].list[i]].latest = id
      BY <2>1 DEF Submitted
    <3>2. PICK i \in Todo(v)' : reqs'[wk'[v].list[i]].latest = id BY <3>1
    <3>3. /\ i \in Todo(v) /\ wk'[v].list[i] = wk[v].list[i] /\ wk[v].list[i] # r
          /\ Writes(v) /\ wk'[v].ikey = wk[v].ikey
      BY <1>2, <3>1, <3>2
    <3>4. reqs[wk[v].list[i]].latest = id BY <1>2, <1>9, <3>2, <3>3
    <3>5. id # n BY <1>8, <1>9, <3>3, <3>4
    <3> QED BY <3>1, <3>3, <3>4, <3>5 DEF Submitted
  <2>2. ASSUME Submitted(id, c), id # n PROVE Submitted(id, c)'
    <3>1. PICK v \in Worker : /\ Writes(v) /\ wk[v].ikey = c
                              /\ \E i \in Todo(v) : reqs[wk[v].list[i]].latest = id
      BY <2>2 DEF Submitted
    <3>2. PICK i \in Todo(v) : reqs[wk[v].list[i]].latest = id BY <3>1
    <3>3. wk[v].list[i] # r BY <1>4, <2>2, <3>2
    <3>4. Writes(v)' /\ i \in Todo(v)' /\ wk'[v].list[i] = wk[v].list[i] /\ wk'[v].ikey = wk[v].ikey
      BY <1>2, <3>1, <3>3
    <3>5. reqs'[wk'[v].list[i]].latest = id BY <1>2, <1>9, <3>2, <3>3, <3>4
    <3> HIDE DEF Writes, Todo
    <3> QED BY <3>1, <3>4, <3>5 DEF Submitted
  <2> QED BY <2>1, <2>2
<1>11. \A c : Submitted(n, c) <=> c = b
  <2>1. \A v \in Worker : \A i \in Todo(v) : reqs[wk[v].list[i]].latest = n => wk[v].list[i] = r
    BY <1>8, <1>9
  <2>2. PICK i \in Todo(w) : wk[w].list[i] = r BY <1>2
  <2>3. \A v \in Worker : \A j \in Todo(v) : wk[v].list[j] = r => v = w
    BY <2>2 DEF WorkerPlaces
  <2>4. Submitted(n, b) BY <1>2, <1>4, <2>2 DEF Submitted
  <2>5. ASSUME NEW c, Submitted(n, c) PROVE c = b BY <1>4, <2>1, <2>3, <2>5 DEF Submitted
  <2> QED BY <2>4, <2>5
<1>12. fl' = fl /\ hist' = hist BY <1>2
<1>13. ASSUME NEW id, NEW c PROVE /\ Removed(id, c)' <=> Removed(id, c)
                                  /\ Counted(id, c)' <=> Counted(id, c)
  BY <1>12 DEF Removed, Counted
<1>14. SameUsers
  <2>1. ASSUME NEW c PROVE Users(c)' = Users(c)
    <3>1. \A id : id \in Users(c)' <=> id \in Users(c) BY <1>6, <1>10, <1>11, <1>12, <1>13 DEF Users
    <3> QED BY <3>1 DEF Users
  <2>2. ASSUME NEW c PROVE Unrecorded(c)' = Unrecorded(c)
    <3>1. \A id : id \in Unrecorded(c)' <=> id \in Unrecorded(c)
      BY <1>7, <1>10, <1>11, <1>12, <1>13 DEF Unrecorded
    <3> QED BY <3>1 DEF Unrecorded
  <2> QED BY <2>1, <2>2 DEF SameUsers
<1>15. TallyInv' BY <1>2, <1>14, TallyKept
<1>16. ASSUME NEW j \in Key, NEW i \in DOMAIN uk'[j].cols, ~(j = k /\ i = h)
       PROVE  i \in DOMAIN uk[j].cols /\ uk'[j].cols[i] = uk[j].cols[i]
  BY <1>2, <1>16
<1>17. FreshInv'
  <2>1. ASSUME NEW j \in Key, NEW i \in DOMAIN uk'[j].cols PROVE Fresh(uk'[j].cols[i])
    <3>1. CASE j = k /\ i = h BY <1>3, <3>1 DEF Fresh
    <3>2. CASE ~(j = k /\ i = h) BY <1>16, <3>2 DEF HolderInv, FreshInv
    <3> QED BY <3>1, <3>2
  <2> QED BY <2>1 DEF FreshInv
<1>18. IkeysInv'
  <2>0. ikeys' = ikeys /\ sktdf' = sktdf BY <1>2 DEF blockVars
  <2>1. \A c : Used(c)' <=> Used(c) BY <2>0 DEF Used
  <2>2. ASSUME NEW j \in Key, NEW i \in DOMAIN uk'[j].cols, uk'[j].cols[i].st = "stored"
        PROVE  Used(uk'[j].cols[i].ikey)
    <3>1. CASE j = k /\ i = h BY <1>2, <1>3, <3>1 DEF HolderInv, IkeysInv
    <3>2. CASE ~(j = k /\ i = h) BY <1>16, <2>2, <3>2 DEF HolderInv, IkeysInv
    <3> QED BY <3>1, <3>2
  <2>3. \A v \in Worker : Writes(v)' => Used(wk'[v].ikey) BY <1>2 DEF HolderInv, IkeysInv
  <2>4. /\ \A v \in Worker : ikeys'.own[v] < ikeys'.next
        /\ \A v, u \in Worker : ikeys'.own[v] = ikeys'.own[u] => v = u
        /\ \A t \in Table : \A j \in DOMAIN sktdf'[t] : Used(sktdf'[t][j].ikey)
        /\ \A v \in Worker : /\ \A j \in DOMAIN fl'[v].rows : Used(fl'[v].rows[j].ikey)
                             /\ \A e \in fl'[v].ents : Used(e.ikey)
    BY <1>12, <2>0 DEF HolderInv, IkeysInv
  <2> HIDE DEF Used, Writes
  <2> QED BY <2>1, <2>2, <2>3, <2>4 DEF IkeysInv
<1>19. EntriesInv'
  <2>0. EntriesInv BY DEF HolderInv
  <2>1. ASSUME NEW v \in Worker, NEW e \in fl[v].ents, NEW j, j = hist[e.id].key,
               NEW i \in DOMAIN uk'[j].cols, uk'[j].cols[i].id = e.id
        PROVE  e.kind = "itr" /\ uk'[j].cols[i].st = "stored" /\ uk'[j].cols[i].committed
    <3>0. j \in Key BY <2>0, <2>1 DEF EntriesInv, UserType
    <3>1. ~(j = k /\ i = h)
      <4>1. SUFFICES ASSUME j = k /\ i = h PROVE FALSE OBVIOUS
      <4>2. uk[k].cols[h].id = e.id BY <1>2, <1>3, <2>1, <4>1
      <4>3. uk[k].cols[h].st = "stored" BY <2>0, <4>2, EntryColumn
      <4> QED BY <1>2, <4>3
    <3>2. i \in DOMAIN uk[j].cols /\ uk'[j].cols[i] = uk[j].cols[i] BY <1>16, <2>1, <3>0, <3>1
    <3>3. uk[j].cols[i].id = e.id BY <2>1, <3>2
    <3>4. e.kind = "itr" /\ uk[j].cols[i].st = "stored" /\ uk[j].cols[i].committed
      BY <2>0, <3>0, <3>2, <3>3, EntryColumn
    <3> QED BY <3>2, <3>4
  <2> QED BY <1>12, <2>0, <2>1 DEF EntriesInv
<1> QED BY <1>15, <1>17, <1>18, <1>19 DEF HolderInv
-----------------------------------------------------------------------------
(* A flush scans a key. *)

\* What the scan makes of a column.
LEMMA ScannedFields ==
  ASSUME NEW cols \in Seq(ColumnNode), NEW S, NEW i \in DOMAIN cols
  PROVE  LET c == Scanned(cols, S, i)
             v == Verdict(cols, S, i)
             taken == cols[i].st = "stored" /\ v \in {"valid", "iter"}
         IN  /\ c.id = cols[i].id /\ c.st = cols[i].st /\ c.ikey = cols[i].ikey /\ c.del = cols[i].del
             /\ c.recdel <=> cols[i].recdel \/ \E j \in 1..(i - 1) : Verdict(cols, S, j) = "drop"
             /\ ~taken => c.committed = cols[i].committed /\ c.holding = cols[i].holding
             /\ taken => c.committed /\ (c.holding <=> cols[i].holding \/ v = "iter")
<1> DEFINE v == Verdict(cols, S, i)
           rd == cols[i].recdel \/ \E j \in 1..(i - 1) : Verdict(cols, S, j) = "drop"
           c == [cols[i] EXCEPT !.recdel = rd]
           ho == c.holding \/ v = "iter"
           d1 == [c EXCEPT !.committed = TRUE]
           d2 == [d1 EXCEPT !.kbm = "prim"]
           d == [d2 EXCEPT !.holding = ho]
<1>1. cols[i] \in ColumnNode OBVIOUS
<1>2. Scanned(cols, S, i) = IF c.st # "stored" \/ v \notin {"valid", "iter"} THEN c ELSE d
  <2> DEFINE e == [c EXCEPT !.committed = TRUE, !.kbm = "prim", !.holding = ho]
  <2>1. Scanned(cols, S, i) = IF c.st # "stored" \/ v \notin {"valid", "iter"} THEN c ELSE e
    BY Zenon DEF Scanned
  <2>2. e = d OBVIOUS
  <2> QED BY <2>1, <2>2
<1>3. /\ rd \in BOOLEAN
      /\ rd <=> cols[i].recdel \/ \E j \in 1..(i - 1) : Verdict(cols, S, j) = "drop"
  OBVIOUS
<1> HIDE DEF rd, v
<1>4. /\ c \in ColumnNode /\ c.id = cols[i].id /\ c.st = cols[i].st /\ c.ikey = cols[i].ikey
      /\ c.del = cols[i].del /\ c.recdel = rd /\ c.committed = cols[i].committed
      /\ c.holding = cols[i].holding
  BY <1>1, <1>3 DEF ColumnNode
<1> HIDE DEF c
<1>5. ho \in BOOLEAN /\ (ho <=> c.holding \/ v = "iter") OBVIOUS
<1> HIDE DEF ho
<1>6. /\ d1 \in ColumnNode /\ d1.id = c.id /\ d1.st = c.st /\ d1.ikey = c.ikey /\ d1.committed = TRUE
      /\ d1.del = c.del /\ d1.recdel = c.recdel
  BY <1>4 DEF ColumnNode
<1> HIDE DEF d1
<1>7. /\ d2 \in ColumnNode /\ d2.id = c.id /\ d2.st = c.st /\ d2.ikey = c.ikey /\ d2.committed = TRUE
      /\ d2.del = c.del /\ d2.recdel = c.recdel
  BY <1>6 DEF ColumnNode
<1> HIDE DEF d2
<1>8. /\ d.id = c.id /\ d.st = c.st /\ d.ikey = c.ikey /\ d.committed = TRUE
      /\ d.del = c.del /\ d.recdel = c.recdel /\ d.holding = ho
  BY <1>5, <1>7 DEF ColumnNode
<1> HIDE DEF d
<1>9. CASE c.st # "stored" \/ v \notin {"valid", "iter"}
  <2>1. Scanned(cols, S, i) = c BY <1>2, <1>9
  <2> QED BY <1>3, <1>4, <1>9, <2>1 DEF v
<1>10. CASE ~(c.st # "stored" \/ v \notin {"valid", "iter"})
  <2>1. Scanned(cols, S, i) = d BY <1>2, <1>10
  <2> QED BY <1>3, <1>4, <1>5, <1>8, <1>10, <2>1 DEF v
<1> QED BY <1>9, <1>10

\* The column of the row, behind the others.
LEMMA RowColumnIs ==
  ASSUME UserType, TableType, ColumnsInv, RowsInv, NEW k \in Key, Fetches(k)
  PROVE  LET n == Len(uk[k].cols) + 1
             c == Columns(k)[n]
         IN  /\ DOMAIN Columns(k) = DOMAIN uk[k].cols \cup {n}
             /\ c.id = Row(k).id /\ c.ikey = Row(k).ikey /\ c.st = "stored" /\ c.committed
             /\ ~c.del /\ ~c.holding /\ ~c.recdel
<1> DEFINE A == uk[k].cols
           row == Row(k)
           end == IF A = <<>> THEN MaxSeq ELSE A[Len(A)].begin
           o == Column(row.id, FALSE, FALSE)
           d1 == [o EXCEPT !.begin = row.begin]
           d2 == [d1 EXCEPT !.end = end]
           d3 == [d2 EXCEPT !.st = "stored"]
           d4 == [d3 EXCEPT !.ikey = row.ikey]
           d5 == [d4 EXCEPT !.committed = TRUE]
           c == [d5 EXCEPT !.kbm = "prim"]
<1>1. A \in Seq(ColumnNode) BY DEF UserType, UserKey
<1>2. row.id \in Nat /\ row.begin \in Nat /\ row.ikey \in Nat
  <2>1. HasRow(k) /\ TableOf[k] \in Table BY StateAssumption DEF Fetches
  <2>2. Row(k) \in RowOf BY <2>1 DEF TableType, IsRows, HasRow, Row
  <2> QED BY <2>2 DEF RowOf
<1>3. end \in Nat
  <2>1. CASE A = <<>> BY <2>1, StateAssumption
  <2>2. CASE A # <<>>
    <3>1. Len(A) \in DOMAIN A /\ A[Len(A)] \in ColumnNode
      <4> HIDE DEF A
      <4> QED BY <1>1, <2>2
    <3>2. A[Len(A)].begin \in Nat BY <3>1 DEF ColumnNode
    <3> QED BY <2>2, <3>2
  <2> QED BY <2>1, <2>2
<1>4. Columns(k) = Append(A, c) BY DEF Columns, RowColumn, FetchedColumn
<1> HIDE DEF A, row, end
<1>5. /\ o \in ColumnNode /\ o.id = row.id /\ ~o.del /\ ~o.holding /\ ~o.recdel
  <2>1. MaxSeq \in Nat BY StateAssumption
  <2> QED BY <1>2, <2>1 DEF Column, ColumnNode
<1> HIDE DEF o
<1>6. d1 \in ColumnNode /\ d1.id = row.id /\ ~d1.del /\ ~d1.holding /\ ~d1.recdel
  BY <1>2, <1>5 DEF ColumnNode
<1> HIDE DEF d1
<1>7. d2 \in ColumnNode /\ d2.id = row.id /\ ~d2.del /\ ~d2.holding /\ ~d2.recdel
  BY <1>3, <1>6 DEF ColumnNode
<1> HIDE DEF d2
<1>8. d3 \in ColumnNode /\ d3.id = row.id /\ ~d3.del /\ ~d3.holding /\ ~d3.recdel /\ d3.st = "stored"
  BY <1>7 DEF ColumnNode
<1> HIDE DEF d3
<1>9. d4 \in ColumnNode /\ d4.id = row.id /\ ~d4.del /\ ~d4.holding /\ ~d4.recdel /\ d4.st = "stored"
      /\ d4.ikey = row.ikey
  BY <1>2, <1>8 DEF ColumnNode
<1> HIDE DEF d4
<1>10. d5 \in ColumnNode /\ d5.id = row.id /\ ~d5.del /\ ~d5.holding /\ ~d5.recdel /\ d5.st = "stored"
       /\ d5.ikey = row.ikey /\ d5.committed
  BY <1>9 DEF ColumnNode
<1> HIDE DEF d5
<1>11. c \in ColumnNode /\ c.id = row.id /\ ~c.del /\ ~c.holding /\ ~c.recdel /\ c.st = "stored"
       /\ c.ikey = row.ikey /\ c.committed
  BY <1>10 DEF ColumnNode
<1> HIDE DEF c
<1>12. DOMAIN Append(A, c) = DOMAIN A \cup {Len(A) + 1} /\ Append(A, c)[Len(A) + 1] = c BY <1>1, <1>11
<1> QED BY <1>4, <1>11, <1>12 DEF A, row

\* List B is what a scan leaves of a list: all but the dropped columns, and what is in a
\* block is recorded.
Leaves(cols, S, B) ==
    /\ \A m \in DOMAIN B : \E i \in DOMAIN cols :
          /\ Verdict(cols, S, i) # "drop"
          /\ B[m].id = cols[i].id /\ B[m].st = cols[i].st /\ B[m].ikey = cols[i].ikey
          /\ B[m].st = "stored" => B[m].committed
          /\ B[m].st # "stored" => B[m].committed = cols[i].committed /\ B[m].holding = cols[i].holding
    /\ \A i \in DOMAIN cols : Verdict(cols, S, i) # "drop" =>
          \E m \in DOMAIN B :
             B[m].id = cols[i].id /\ B[m].st = cols[i].st /\ B[m].ikey = cols[i].ikey

\* The scan leaves that.
LEMMA RestLeaves ==
  ASSUME NEW cols \in Seq(ColumnNode), NEW S
  PROVE  Leaves(cols, S, Rest(cols, S))
<1> DEFINE B == Rest(cols, S)
<1>1. PICK f : ScannedList(cols, S, B, f) BY RestFacts
<1> HIDE DEF B
<1>2. /\ \A m \in DOMAIN B : f[m] \in DOMAIN cols /\ B[m] = Scanned(cols, S, f[m])
      /\ \A m \in DOMAIN B : Verdict(cols, S, f[m]) # "drop"
      /\ \A i \in DOMAIN cols : Verdict(cols, S, i) # "drop" => \E m \in DOMAIN B : f[m] = i
  BY <1>1 DEF ScannedList, Thinned
<1>3. ASSUME NEW i \in DOMAIN cols, Verdict(cols, S, i) # "drop"
      PROVE  LET c == Scanned(cols, S, i) IN
             /\ c.id = cols[i].id /\ c.st = cols[i].st /\ c.ikey = cols[i].ikey
             /\ c.st = "stored" => c.committed
             /\ c.st # "stored" => c.committed = cols[i].committed /\ c.holding = cols[i].holding
  <2>1. cols[i].st = "stored" => Verdict(cols, S, i) \in {"valid", "iter"}
    BY <1>3 DEF Verdict, Skipped
  <2> QED BY <2>1, ScannedFields
<1>4. ASSUME NEW m \in DOMAIN B
      PROVE  \E i \in DOMAIN cols :
                /\ Verdict(cols, S, i) # "drop"
                /\ B[m].id = cols[i].id /\ B[m].st = cols[i].st /\ B[m].ikey = cols[i].ikey
                /\ B[m].st = "stored" => B[m].committed
                /\ B[m].st # "stored" => /\ B[m].committed = cols[i].committed
                                         /\ B[m].holding = cols[i].holding
  <2>1. f[m] \in DOMAIN cols /\ B[m] = Scanned(cols, S, f[m]) /\ Verdict(cols, S, f[m]) # "drop" BY <1>2
  <2> QED BY <1>3, <2>1
<1>5. ASSUME NEW i \in DOMAIN cols, Verdict(cols, S, i) # "drop"
      PROVE  \E m \in DOMAIN B :
                B[m].id = cols[i].id /\ B[m].st = cols[i].st /\ B[m].ikey = cols[i].ikey
  <2>1. PICK m \in DOMAIN B : f[m] = i BY <1>2, <1>5
  <2>2. B[m] = Scanned(cols, S, i) BY <1>2, <2>1
  <2> QED BY <1>3, <1>5, <2>2
<1> QED BY <1>4, <1>5 DEF Leaves, B

\* Set E has an entry for each column in a block that the scan does not record.
EntriesOf(cols, S, E) ==
    /\ \A e \in E : IsEntry(e) /\ \E i \in DOMAIN cols :
          /\ cols[i].st = "stored" /\ e.id = cols[i].id /\ e.ikey = cols[i].ikey
          /\ e.dec <=> ~cols[i].committed
          /\ Verdict(cols, S, i) = IF e.kind = "itr" THEN "iter" ELSE "drop"
    /\ \A i \in DOMAIN cols : cols[i].st = "stored" /\ Verdict(cols, S, i) \in {"iter", "drop"} =>
          \E e \in E : /\ e.id = cols[i].id /\ e.ikey = cols[i].ikey /\ (e.dec <=> ~cols[i].committed)
                       /\ e.kind = "itr" <=> Verdict(cols, S, i) = "iter"
    /\ \A e, f \in E : e.id = f.id => e = f

\* The columns of block b that the scan records for the first time.
Recording(cols, S, b) == {i \in Hit(cols, S, b, {"valid"}) : ~cols[i].committed}

\* The scan of key k by worker w: it leaves list B, and entries E.
ScansKey(w, k, cols, S, B, E) ==
    /\ fl[w].pc = "build" /\ k \in fl[w].todo /\ k \in Key
    /\ cols = Columns(k) /\ Leaves(cols, S, B) /\ EntriesOf(cols, S, E)
    /\ uk'[k].cols = B /\ \A j \in Key : j # k => uk'[j] = uk[j]
    /\ fl'[w].ents = fl[w].ents \cup E /\ \A v \in Worker : v # w => fl'[v] = fl[v]
    /\ fl'[w].keys = fl[w].keys /\ fl'[w].todo = fl[w].todo \ {k}
    /\ UNCHANGED <<reqs, hist, wk, ikeys>>

\* The list of the key before the scan; there are no entries of the key.
LEMMA ScansFrom ==
  ASSUME ColumnInv, HolderInv, NEW w \in Worker, NEW k, NEW cols, NEW S, NEW B, NEW E,
         ScansKey(w, k, cols, S, B, E)
  PROVE  /\ cols \in Seq(ColumnNode)
         /\ \A i \in DOMAIN uk[k].cols : i \in DOMAIN cols /\ cols[i] = uk[k].cols[i]
         /\ \A i \in DOMAIN cols : cols[i].id \in DOMAIN hist /\ hist[cols[i].id].key = k
         /\ \A i, j \in DOMAIN cols : cols[i].id = cols[j].id => i = j
         /\ \A i \in DOMAIN cols :
               \/ i \in DOMAIN uk[k].cols
               \/ /\ Fetches(k) /\ cols[i].id = Row(k).id /\ cols[i].ikey = Row(k).ikey
                  /\ cols[i].st = "stored" /\ cols[i].committed
         /\ Fetches(k) => \E i \in DOMAIN cols :
               cols[i].id = Row(k).id /\ cols[i].ikey = Row(k).ikey /\ cols[i].st = "stored"
         /\ Fetches(k) => Row(k).id \in DOMAIN hist /\ \A b : Row(k).id \notin Users(b)
         /\ \A v \in Worker : \A e \in fl[v].ents : hist[e.id].key # k
<1> USE DEF ColumnInv
<1>1. /\ fl[w].pc = "build" /\ k \in fl[w].todo /\ k \in Key /\ cols = Columns(k) BY DEF ScansKey
<1>2. /\ cols \in Seq(ColumnNode)
      /\ \A i \in DOMAIN uk[k].cols : i \in DOMAIN cols /\ cols[i] = uk[k].cols[i]
      /\ \A i \in DOMAIN cols : cols[i].id \in DOMAIN hist /\ hist[cols[i].id].key = k
      /\ \A i, j \in DOMAIN cols : i < j => cols[j].id < cols[i].id
  BY <1>1, ColumnsFacts
<1>3. \A i, j \in DOMAIN cols : cols[i].id = cols[j].id => i = j
  <2> TAKE i, j \in DOMAIN cols
  <2>1. i \in Nat /\ j \in Nat BY <1>2
  <2>2. cols[i].id \in Nat /\ cols[j].id \in Nat BY <1>2 DEF UserType
  <2> QED BY <1>2, <2>1, <2>2
<1>4. ASSUME Fetches(k)
      PROVE  /\ DOMAIN cols = DOMAIN uk[k].cols \cup {Len(uk[k].cols) + 1}
             /\ LET c == cols[Len(uk[k].cols) + 1] IN
                c.id = Row(k).id /\ c.ikey = Row(k).ikey /\ c.st = "stored" /\ c.committed
  BY <1>1, <1>4, RowColumnIs
<1>5. ~Fetches(k) => cols = uk[k].cols BY <1>1 DEF Columns
<1>6. \A v \in Worker : \A e \in fl[v].ents : hist[e.id].key # k
  <2> TAKE v \in Worker
  <2> TAKE e \in fl[v].ents
  <2>1. SUFFICES ASSUME hist[e.id].key = k PROVE FALSE OBVIOUS
  <2>2. k \in fl[v].keys /\ k \notin fl[v].todo BY <2>1 DEF HolderInv, EntriesInv
  <2>3. fl[v].pc # "none" BY <2>2 DEF FlushesInv, NoFlush
  <2>4. TableOf[k] = fl[v].t /\ TableOf[k] = fl[w].t BY <1>1, <2>2 DEF FlushesInv
  <2>5. v = w BY <1>1, <2>3, <2>4 DEF FlushesInv
  <2> QED BY <1>1, <2>2, <2>5
<1>7. ASSUME Fetches(k) PROVE Row(k).id \in DOMAIN hist /\ \A b : Row(k).id \notin Users(b)
  <2>1. HasRow(k) /\ ~uk[k].fetched /\ TableOf[k] \in Table BY <1>1, <1>7, StateAssumption DEF Fetches
  <2>2. /\ Row(k).id \in DOMAIN hist /\ hist[Row(k).id].key = k
        /\ \A i \in DOMAIN uk[k].cols : Row(k).id < uk[k].cols[i].id
    BY <1>1, <2>1 DEF RowsInv, HasRow, Row
  <2>3. Row(k).id \in Nat BY <2>2 DEF UserType
  <2>4. \A j \in Key : \A i \in DOMAIN uk[j].cols : uk[j].cols[i].id # Row(k).id
    <3> TAKE j \in Key
    <3> TAKE i \in DOMAIN uk[j].cols
    <3>1. SUFFICES ASSUME uk[j].cols[i].id = Row(k).id PROVE FALSE OBVIOUS
    <3>2. j = k BY <2>2, <3>1 DEF ColumnsInv
    <3> QED BY <2>2, <2>3, <3>1, <3>2
  <2>5. ASSUME NEW b PROVE Row(k).id \notin Users(b)
    <3>1. ~Attached(Row(k).id, b) BY <2>4 DEF Attached, HasStored
    <3>2. ~Submitted(Row(k).id, b) BY <2>4, SubmittedColumn
    <3>3. ~Removed(Row(k).id, b) BY <1>6, <2>2 DEF Removed
    <3> QED BY <3>1, <3>2, <3>3 DEF Users
  <2> QED BY <2>2, <2>5
<1>8. \A i \in DOMAIN cols :
         \/ i \in DOMAIN uk[k].cols
         \/ /\ Fetches(k) /\ cols[i].id = Row(k).id /\ cols[i].ikey = Row(k).ikey
            /\ cols[i].st = "stored" /\ cols[i].committed
  BY <1>4, <1>5
<1>9. Fetches(k) => \E i \in DOMAIN cols :
         cols[i].id = Row(k).id /\ cols[i].ikey = Row(k).ikey /\ cols[i].st = "stored"
  BY <1>4
<1> QED BY <1>2, <1>3, <1>6, <1>7, <1>8, <1>9

\* Users after the scan: the column of the row is a new one.
LEMMA ScansUsers ==
  ASSUME ColumnInv, HolderInv, NEW w \in Worker, NEW k, NEW cols, NEW S, NEW B, NEW E,
         ScansKey(w, k, cols, S, B, E), NEW b
  PROVE  Users(b)' = IF Fetches(k) /\ b = Row(k).ikey THEN Users(b) \cup {Row(k).id} ELSE Users(b)
<1>1. /\ k \in Key /\ Leaves(cols, S, B) /\ EntriesOf(cols, S, E)
      /\ uk'[k].cols = B /\ \A j \in Key : j # k => uk'[j] = uk[j]
      /\ fl'[w].ents = fl[w].ents \cup E /\ \A v \in Worker : v # w => fl'[v] = fl[v]
      /\ UNCHANGED <<reqs, hist, wk>>
  BY DEF ScansKey
<1>2. /\ cols \in Seq(ColumnNode)
      /\ \A i \in DOMAIN uk[k].cols : i \in DOMAIN cols /\ cols[i] = uk[k].cols[i]
      /\ \A i \in DOMAIN cols : cols[i].id \in DOMAIN hist
      /\ \A i \in DOMAIN cols :
            \/ i \in DOMAIN uk[k].cols
            \/ /\ Fetches(k) /\ cols[i].id = Row(k).id /\ cols[i].ikey = Row(k).ikey
               /\ cols[i].st = "stored"
      /\ Fetches(k) => \E i \in DOMAIN cols :
            cols[i].id = Row(k).id /\ cols[i].ikey = Row(k).ikey /\ cols[i].st = "stored"
      /\ Fetches(k) => Row(k).id \in DOMAIN hist
  BY ScansFrom
<1>3. ASSUME NEW id
      PROVE  HasStored(cols, id, b) <=> \/ HasStored(uk[k].cols, id, b)
                                        \/ Fetches(k) /\ id = Row(k).id /\ b = Row(k).ikey
  BY <1>2 DEF HasStored
<1>4. ASSUME NEW id, HasStored(B, id, b) PROVE HasStored(cols, id, b)
  <2>1. PICK m \in DOMAIN B : B[m].id = id /\ B[m].st = "stored" /\ B[m].ikey = b BY <1>4 DEF HasStored
  <2>2. PICK i \in DOMAIN cols : B[m].id = cols[i].id /\ B[m].st = cols[i].st /\ B[m].ikey = cols[i].ikey
    BY <1>1 DEF Leaves
  <2> QED BY <2>1, <2>2 DEF HasStored
<1>5. ASSUME NEW id, NEW e \in E, e.id = id, e.ikey = b PROVE HasStored(cols, id, b)
  BY <1>1, <1>5 DEF EntriesOf, HasStored
<1>6. ASSUME NEW id, HasStored(cols, id, b)
      PROVE  HasStored(B, id, b) \/ \E e \in E : e.id = id /\ e.ikey = b /\ e.kind # "itr"
  <2>1. PICK i \in DOMAIN cols : cols[i].id = id /\ cols[i].st = "stored" /\ cols[i].ikey = b
    BY <1>6 DEF HasStored
  <2>2. CASE Verdict(cols, S, i) = "drop" BY <1>1, <2>1, <2>2 DEF EntriesOf
  <2>3. CASE Verdict(cols, S, i) # "drop" BY <1>1, <2>1, <2>3 DEF Leaves, HasStored
  <2> QED BY <2>2, <2>3
<1>7. ASSUME NEW id
      PROVE  /\ Attached(id, b) <=> \/ HasStored(uk[k].cols, id, b)
                                    \/ \E j \in Key : j # k /\ HasStored(uk[j].cols, id, b)
             /\ Attached(id, b)' <=> \/ HasStored(B, id, b)
                                     \/ \E j \in Key : j # k /\ HasStored(uk[j].cols, id, b)
  BY <1>1 DEF Attached
<1>8. ASSUME NEW id
      PROVE  Removed(id, b)' <=> Removed(id, b) \/ \E e \in E : e.id = id /\ e.ikey = b /\ e.kind # "itr"
  BY <1>1 DEF Removed
<1>9. \A v \in Worker : Writes(v)' <=> Writes(v) BY <1>1 DEF Writes
<1>10. ASSUME NEW id PROVE Submitted(id, b)' <=> Submitted(id, b)
  BY <1>1, <1>9 DEF Submitted, Todo, From
<1>11. ASSUME NEW id
       PROVE  id \in Users(b)' <=> id \in Users(b) \/ (Fetches(k) /\ id = Row(k).id /\ b = Row(k).ikey)
  <2>1. /\ HasStored(cols, id, b) => id \in DOMAIN hist
    BY <1>2 DEF HasStored
  <2>2. id \in Users(b) <=> id \in DOMAIN hist /\ (Attached(id, b) \/ Submitted(id, b) \/ Removed(id, b))
    BY DEF Users
  <2>3. id \in Users(b)' <=> id \in DOMAIN hist /\ (Attached(id, b)' \/ Submitted(id, b)' \/ Removed(id, b)')
    BY <1>1 DEF Users
  <2> HIDE DEF HasStored, Attached, Submitted, Removed, Users, Fetches
  <2> QED BY <1>2, <1>3, <1>4, <1>5, <1>6, <1>7, <1>8, <1>10, <2>1, <2>2, <2>3
<1> QED BY <1>11

\* The columns that are recorded in the table are unrecorded no more.
LEMMA ScansUnrecorded ==
  ASSUME ColumnInv, HolderInv, NEW w \in Worker, NEW k, NEW cols, NEW S, NEW B, NEW E,
         ScansKey(w, k, cols, S, B, E), NEW b
  PROVE  LET U == {cols[i].id : i \in Recording(cols, S, b)} IN
         Unrecorded(b)' = Unrecorded(b) \ U /\ U \subseteq Unrecorded(b)
<1> DEFINE U == {cols[i].id : i \in Recording(cols, S, b)}
<1>1. /\ k \in Key /\ Leaves(cols, S, B) /\ EntriesOf(cols, S, E)
      /\ uk'[k].cols = B /\ \A j \in Key : j # k => uk'[j] = uk[j]
      /\ fl'[w].ents = fl[w].ents \cup E /\ \A v \in Worker : v # w => fl'[v] = fl[v]
      /\ UNCHANGED <<reqs, hist, wk>>
  BY DEF ScansKey
<1>2. /\ cols \in Seq(ColumnNode)
      /\ \A i \in DOMAIN uk[k].cols : i \in DOMAIN cols /\ cols[i] = uk[k].cols[i]
      /\ \A i \in DOMAIN cols : cols[i].id \in DOMAIN hist /\ hist[cols[i].id].key = k
      /\ \A i, j \in DOMAIN cols : cols[i].id = cols[j].id => i = j
      /\ \A i \in DOMAIN cols : i \in DOMAIN uk[k].cols \/ cols[i].committed
      /\ \A v \in Worker : \A e \in fl[v].ents : hist[e.id].key # k
  BY ScansFrom
<1>3. EntriesInv /\ ColumnsInv BY DEF HolderInv, ColumnInv
<1>4. ASSUME NEW id PROVE HasUnrecorded(cols, id, b) <=> HasUnrecorded(uk[k].cols, id, b)
  BY <1>2 DEF HasUnrecorded
<1>5. ASSUME NEW id PROVE ~HasUnrecorded(B, id, b)
  BY <1>1 DEF HasUnrecorded, Leaves
<1>6. ASSUME NEW id
      PROVE  id \in U <=> \E i \in DOMAIN cols :
                /\ cols[i].id = id /\ cols[i].st = "stored" /\ cols[i].ikey = b /\ ~cols[i].committed
                /\ Verdict(cols, S, i) = "valid"
  BY DEF Recording, Hit
<1>7. ASSUME NEW id
      PROVE  (\E e \in E : e.id = id /\ e.ikey = b /\ e.dec) <=>
             \E i \in DOMAIN cols :
                /\ cols[i].id = id /\ cols[i].st = "stored" /\ cols[i].ikey = b /\ ~cols[i].committed
                /\ Verdict(cols, S, i) \in {"iter", "drop"}
  <2>1. ASSUME NEW e \in E, e.id = id, e.ikey = b, e.dec
        PROVE  \E i \in DOMAIN cols :
                /\ cols[i].id = id /\ cols[i].st = "stored" /\ cols[i].ikey = b /\ ~cols[i].committed
                /\ Verdict(cols, S, i) \in {"iter", "drop"}
    BY <1>1, <2>1 DEF EntriesOf
  <2>2. ASSUME NEW i \in DOMAIN cols, cols[i].id = id, cols[i].st = "stored", cols[i].ikey = b,
               ~cols[i].committed, Verdict(cols, S, i) \in {"iter", "drop"}
        PROVE  \E e \in E : e.id = id /\ e.ikey = b /\ e.dec
    BY <1>1, <2>2 DEF EntriesOf
  <2> QED BY <2>1, <2>2
<1>8. \A i \in DOMAIN cols : cols[i].st = "stored" => Verdict(cols, S, i) \in {"valid", "iter", "drop"}
  BY DEF Verdict, Skipped
<1>9. ASSUME NEW id
      PROVE  /\ HasUnrecorded(cols, id, b) <=> id \in U \/ \E e \in E : e.id = id /\ e.ikey = b /\ e.dec
             /\ ~(id \in U /\ \E e \in E : e.id = id /\ e.ikey = b /\ e.dec)
  <2>1. HasUnrecorded(cols, id, b) <=> \E i \in DOMAIN cols :
           cols[i].id = id /\ cols[i].st = "stored" /\ cols[i].ikey = b /\ ~cols[i].committed
    BY DEF HasUnrecorded
  <2> DEFINE H(i) == cols[i].id = id /\ cols[i].st = "stored" /\ cols[i].ikey = b /\ ~cols[i].committed
             v(i) == Verdict(cols, S, i)
             X == \E e \in E : e.id = id /\ e.ikey = b /\ e.dec
  <2>2. /\ HasUnrecorded(cols, id, b) <=> \E i \in DOMAIN cols : H(i)
        /\ id \in U <=> \E i \in DOMAIN cols : H(i) /\ v(i) = "valid"
        /\ X <=> \E i \in DOMAIN cols : H(i) /\ v(i) \in {"iter", "drop"}
    <3> HIDE DEF U
    <3> QED BY <1>6, <1>7, <2>1
  <2>3. \A i \in DOMAIN cols : H(i) => v(i) \in {"valid", "iter", "drop"} BY <1>8
  <2>4. \A i, j \in DOMAIN cols : H(i) /\ H(j) => i = j BY <1>2
  <2> HIDE DEF U, H, v, X
  <2>5. (HasUnrecorded(cols, id, b) <=> id \in U \/ X) /\ ~(id \in U /\ X) BY ONLY <2>2, <2>3, <2>4
  <2> QED BY <2>5 DEF X
<1>10. ASSUME NEW id
       PROVE  /\ Uncommitted(id, b) <=> \/ HasUnrecorded(uk[k].cols, id, b)
                                        \/ \E j \in Key : j # k /\ HasUnrecorded(uk[j].cols, id, b)
              /\ Uncommitted(id, b)' <=> \/ HasUnrecorded(B, id, b)
                                         \/ \E j \in Key : j # k /\ HasUnrecorded(uk[j].cols, id, b)
  BY <1>1 DEF Uncommitted
<1>11. ASSUME NEW id
       PROVE  Counted(id, b)' <=> Counted(id, b) \/ \E e \in E : e.id = id /\ e.ikey = b /\ e.dec
  BY <1>1 DEF Counted
<1>12. \A v \in Worker : Writes(v)' <=> Writes(v) BY <1>1 DEF Writes
<1>13. ASSUME NEW id PROVE Submitted(id, b)' <=> Submitted(id, b)
  BY <1>1, <1>12 DEF Submitted, Todo, From
<1>14. ASSUME NEW id \in U
       PROVE  /\ id \in DOMAIN hist /\ ~Submitted(id, b) /\ ~Counted(id, b)
              /\ \A j \in Key : j # k => ~HasUnrecorded(uk[j].cols, id, b)
  <2>1. PICK i \in DOMAIN cols : cols[i].id = id BY <1>6
  <2>2. id \in DOMAIN hist /\ hist[id].key = k BY <1>2, <2>1
  <2>3. Uncommitted(id, b) BY <1>4, <1>9, <1>10
  <2>4. ~Submitted(id, b) /\ ~Counted(id, b) BY <1>3, <2>3, PartsDisjoint
  <2>5. \A j \in Key : j # k => ~HasUnrecorded(uk[j].cols, id, b)
    BY <1>3, <2>2 DEF HasUnrecorded, ColumnsInv
  <2> QED BY <2>2, <2>4, <2>5
<1>15. ASSUME NEW id
       PROVE  (id \in Unrecorded(b)' <=> id \in Unrecorded(b) /\ id \notin U)
              /\ (id \in U => id \in Unrecorded(b))
  <2>2. id \in Unrecorded(b) <=> id \in DOMAIN hist /\ (Uncommitted(id, b) \/ Submitted(id, b) \/ Counted(id, b))
    BY DEF Unrecorded
  <2>3. id \in Unrecorded(b)' <=>
           id \in DOMAIN hist /\ (Uncommitted(id, b)' \/ Submitted(id, b)' \/ Counted(id, b)')
    BY <1>1 DEF Unrecorded
  <2> HIDE DEF U, HasUnrecorded, Uncommitted, Submitted, Counted, Unrecorded
  <2> QED BY <1>4, <1>5, <1>9, <1>10, <1>11, <1>13, <1>14, <2>2, <2>3
<1> QED BY <1>15

\* The entries of a scan, with the blocks as it leaves them.
NewEntries(cols, S, nblk) ==
    LET lost(V) == {i \in DOMAIN cols : cols[i].st = "stored" /\ Verdict(cols, S, i) \in V} IN
    {Entry(cols[i], "itr") : i \in lost({"iter"})}
      \cup {Entry(cols[i], EntryKind(cols[i], nblk[cols[i].ikey])) : i \in lost({"drop"})}

\* There is one for each column.
LEMMA NewEntriesIs ==
  ASSUME NEW cols \in Seq(ColumnNode), NEW S, NEW nblk,
         \A i, j \in DOMAIN cols : cols[i].id = cols[j].id => i = j
  PROVE  EntriesOf(cols, S, NewEntries(cols, S, nblk))
<1> DEFINE E == NewEntries(cols, S, nblk)
           kind(i) == IF Verdict(cols, S, i) = "iter" THEN "itr"
                      ELSE EntryKind(cols[i], nblk[cols[i].ikey])
           ent(i) == Entry(cols[i], kind(i))
           lost(i) == cols[i].st = "stored" /\ Verdict(cols, S, i) \in {"iter", "drop"}
<1>1. \A i \in DOMAIN cols : EntryKind(cols[i], nblk[cols[i].ikey]) \in {"upd", "del"} BY DEF EntryKind
<1>2. ASSUME NEW i \in DOMAIN cols
      PROVE  /\ kind(i) \in {"itr", "upd", "del"}
             /\ lost(i) => Verdict(cols, S, i) = IF kind(i) = "itr" THEN "iter" ELSE "drop"
             /\ lost(i) => (kind(i) = "itr" <=> Verdict(cols, S, i) = "iter")
  BY <1>1
<1>3. ASSUME NEW i \in DOMAIN cols
      PROVE  /\ IsEntry(ent(i)) /\ ent(i).id = cols[i].id /\ ent(i).ikey = cols[i].ikey
             /\ ent(i).kind = kind(i) /\ (ent(i).dec <=> ~cols[i].committed)
  <2>1. cols[i] \in ColumnNode OBVIOUS
  <2>2. cols[i].id \in Nat /\ cols[i].ikey \in Nat BY <2>1 DEF ColumnNode
  <2>3. kind(i) \in {"itr", "upd", "del"} BY <1>2
  <2> HIDE DEF kind
  <2> QED BY <2>2, <2>3 DEF Entry, IsEntry
<1>4. \A e : e \in E <=> \E i \in DOMAIN cols : lost(i) /\ e = ent(i)
  <2> DEFINE e1(i) == Entry(cols[i], "itr")
             e2(i) == Entry(cols[i], EntryKind(cols[i], nblk[cols[i].ikey]))
             X(V) == {i \in DOMAIN cols : cols[i].st = "stored" /\ Verdict(cols, S, i) \in V}
  <2>1. E = {e1(i) : i \in X({"iter"})} \cup {e2(i) : i \in X({"drop"})} BY DEF NewEntries
  <2>2. \A i \in DOMAIN cols : /\ Verdict(cols, S, i) = "iter" => ent(i) = e1(i)
                               /\ Verdict(cols, S, i) = "drop" => ent(i) = e2(i)
    OBVIOUS
  <2> HIDE DEF E, e1, e2, ent
  <2> QED BY <2>1, <2>2
<1> HIDE DEF E, ent, kind
<1>5. \A e \in E : IsEntry(e) /\ \E i \in DOMAIN cols :
         /\ cols[i].st = "stored" /\ e.id = cols[i].id /\ e.ikey = cols[i].ikey
         /\ e.dec <=> ~cols[i].committed
         /\ Verdict(cols, S, i) = IF e.kind = "itr" THEN "iter" ELSE "drop"
  <2> TAKE e \in E
  <2>1. PICK i \in DOMAIN cols : lost(i) /\ e = ent(i) BY <1>4
  <2> QED BY <1>2, <1>3, <2>1
<1>6. ASSUME NEW i \in DOMAIN cols, cols[i].st = "stored", Verdict(cols, S, i) \in {"iter", "drop"}
      PROVE  \E e \in E : /\ e.id = cols[i].id /\ e.ikey = cols[i].ikey /\ (e.dec <=> ~cols[i].committed)
                          /\ e.kind = "itr" <=> Verdict(cols, S, i) = "iter"
  <2>1. ent(i) \in E BY <1>4, <1>6
  <2> QED BY <1>2, <1>3, <1>6, <2>1
<1>7. \A e, f \in E : e.id = f.id => e = f
  <2> TAKE e, f \in E
  <2>1. PICK i \in DOMAIN cols : e = ent(i) BY <1>4
  <2>2. PICK j \in DOMAIN cols : f = ent(j) BY <1>4
  <2> QED BY <1>3, <2>1, <2>2
<1> QED BY <1>5, <1>6, <1>7 DEF EntriesOf, E

\* The rows the scan of key k leaves: the one of its valid column is new, and the table
\* in memory has none of it.
ScansRecorded(w, k, cols, S) ==
    /\ fl'[w].pc = "build"
    /\ \A j \in DOMAIN fl'[w].rows :
          \/ j \in DOMAIN fl[w].rows /\ fl'[w].rows[j] = fl[w].rows[j]
          \/ j = k /\ \E i \in DOMAIN cols :
                /\ cols[i].st = "stored" /\ Verdict(cols, S, i) = "valid"
                /\ fl'[w].rows[j].id = cols[i].id /\ fl'[w].rows[j].ikey = cols[i].ikey
    /\ \A t \in Table : \A j \in DOMAIN sktdf'[t] :
          j # k /\ j \in DOMAIN sktdf[t] /\ sktdf'[t][j] = sktdf[t][j]

\* The scan of a key that is dirty or has no row.
LEMMA BuildIs ==
  ASSUME ColumnInv, HolderInv, NEW w \in Worker, FlushBuild(w), NEW k, k = MinOf(fl[w].todo),
         ~(HasRow(k) /\ ~uk[k].dirty), NEW S, S = fl[w].snaps, NEW cols, cols = Columns(k)
  PROVE  /\ ScansKey(w, k, cols, S, Rest(cols, S), NewEntries(cols, S, blk'))
         /\ ScansRecorded(w, k, cols, S)
<1> DEFINE valid == {i \in DOMAIN cols : Verdict(cols, S, i) = "valid"}
           nblk == [b \in DOMAIN blk |->
                    IF b \in {cols[i].ikey : i \in {j \in DOMAIN cols : cols[j].st = "stored"}}
                    THEN ScannedBlock(w, cols, S, b, Fetches(k) /\ b = Row(k).ikey) ELSE blk[b]]
           E == NewEntries(cols, S, nblk)
           B == Rest(cols, S)
           ents == fl[w].ents \cup E
           rows == IF valid = {} THEN fl[w].rows ELSE With(fl[w].rows, k, NewRow(cols[MinOf(valid)]))
           y1 == [fl[w] EXCEPT !.todo = fl[w].todo \ {k}]
           y2 == [y1 EXCEPT !.ents = ents]
           x == [y2 EXCEPT !.rows = rows]
           u1 == [uk[k] EXCEPT !.fetched = TRUE]
           u2 == [u1 EXCEPT !.dirty = StaysDirty(cols, S)]
           u3 == [u2 EXCEPT !.cols = B]
           u == IF B = <<>> THEN NoUserKey ELSE u3
<1>1. /\ UserType /\ TableType /\ ColumnsInv /\ RowsInv /\ FlushesInv BY DEF ColumnInv
<1>2. /\ fl[w].pc = "build" /\ fl[w].todo # {} /\ UNCHANGED <<reqs, hist, wk, ikeys>>
      /\ blk' = nblk
      /\ fl' = [fl EXCEPT ![w] =
                   [fl[w] EXCEPT !.todo = @ \ {k}, !.ents = @ \cup E,
                                 !.rows = IF valid = {} THEN @
                                          ELSE With(@, k, NewRow(cols[MinOf(valid)]))]]
      /\ uk' = [uk EXCEPT ![k] =
                   IF B = <<>> THEN NoUserKey
                   ELSE [uk[k] EXCEPT !.fetched = TRUE, !.dirty = StaysDirty(cols, S), !.cols = B]]
      /\ sktdf' = [sktdf EXCEPT ![fl[w].t] = Remove(@, k)]
  BY DEF FlushBuild, NewEntries, Rest
<1>3. k \in fl[w].todo /\ k \in Key /\ k \in fl[w].keys /\ TableOf[k] = fl[w].t /\ fl[w].t \in Table
  BY <1>1, <1>2, NextKey
<1>4. /\ cols \in Seq(ColumnNode) /\ \A i, j \in DOMAIN cols : i < j => cols[j].id < cols[i].id
      /\ \A i \in DOMAIN cols : cols[i].id \in DOMAIN hist
  BY <1>1, <1>3, ColumnsFacts
<1>5. \A i, j \in DOMAIN cols : cols[i].id = cols[j].id => i = j
  <2> TAKE i, j \in DOMAIN cols
  <2>1. i \in Nat /\ j \in Nat BY <1>4
  <2>2. cols[i].id \in Nat /\ cols[j].id \in Nat BY <1>1, <1>4 DEF UserType
  <2> QED BY <1>4, <2>1, <2>2
<1> HIDE DEF nblk
<1>6. EntriesOf(cols, S, E) BY <1>4, <1>5, NewEntriesIs
<1>7. Leaves(cols, S, B) /\ B \in Seq(ColumnNode) BY <1>4, RestLeaves, RestFacts
<1> HIDE DEF E, B
<1>8. uk'[k].cols = B /\ \A j \in Key : j # k => uk'[j] = uk[j]
  <2>1. uk \in [Key -> UserKey] /\ uk[k] \in UserKey BY <1>1, <1>3 DEF UserType
  <2>2. StaysDirty(cols, S) \in BOOLEAN BY DEF StaysDirty
  <2>3. uk' = [uk EXCEPT ![k] = u] BY <1>2
  <2>4. u.cols = B
    <3>1. CASE B = <<>> BY <3>1, NoUserKeyIs DEF NoUserKey
    <3>2. CASE B # <<>>
      <4>1. u1 \in UserKey BY <2>1 DEF UserKey
      <4> HIDE DEF u1
      <4>2. u2 \in UserKey BY <2>2, <4>1 DEF UserKey
      <4> HIDE DEF u2
      <4>3. u3.cols = B BY <1>7, <4>2 DEF UserKey
      <4> QED BY <3>2, <4>3
    <3> QED BY <3>1, <3>2
  <2> HIDE DEF u
  <2> QED BY <1>3, <2>1, <2>3, <2>4
<1>9. fl' = [fl EXCEPT ![w] = x]
  <2> HIDE DEF rows, ents
  <2>1. fl' = [fl EXCEPT ![w] = [fl[w] EXCEPT !.todo = fl[w].todo \ {k}, !.ents = ents, !.rows = rows]]
    BY <1>2 DEF rows, ents
  <2> QED BY <2>1
<1>10. IsFlush(fl[w]) /\ IsRows(fl[w].rows) BY <1>1 DEF TableType, IsFlush
<1>11. \A j \in DOMAIN rows :
         \/ j \in DOMAIN fl[w].rows /\ rows[j] = fl[w].rows[j]
         \/ j = k /\ \E i \in DOMAIN cols :
               /\ cols[i].st = "stored" /\ Verdict(cols, S, i) = "valid"
               /\ rows[j].id = cols[i].id /\ rows[j].ikey = cols[i].ikey
  <2>1. CASE valid = {} BY <2>1
  <2>2. CASE valid # {}
    <3> DEFINE n == MinOf(valid)
    <3>1. n \in valid
      <4>1. valid \subseteq Nat BY <1>4
      <4>2. \E i \in valid : \A j \in valid : i <= j BY <2>2, <4>1, Smallest
      <4> QED BY <4>2 DEF MinOf
    <3>2. n \in DOMAIN cols /\ cols[n].st = "stored" /\ Verdict(cols, S, n) = "valid"
      BY <1>4, <3>1, VerdictFacts
    <3> HIDE DEF n
    <3>3. rows = With(fl[w].rows, k, NewRow(cols[n])) BY <2>2 DEF n
    <3> HIDE DEF rows
    <3>4. NewRow(cols[n]).ikey = cols[n].ikey /\ NewRow(cols[n]).id = cols[n].id BY DEF NewRow
    <3>5. \A j \in DOMAIN rows : (j \in DOMAIN fl[w].rows /\ rows[j] = fl[w].rows[j])
                                   \/ (j = k /\ rows[j] = NewRow(cols[n]))
      BY <3>3 DEF With
    <3> QED BY <3>2, <3>4, <3>5
  <2> QED BY <2>1, <2>2
<1> HIDE DEF rows, ents
<1>12. /\ x.keys = fl[w].keys /\ x.todo = fl[w].todo \ {k} /\ x.rows = rows /\ x.ents = ents
       /\ x.pc = fl[w].pc
  <2>1. fl[w].todo \ {k} \in SUBSET Key BY <1>10 DEF IsFlush
  <2>2. IsFlush(y1) /\ y1.keys = fl[w].keys /\ y1.todo = fl[w].todo \ {k} /\ y1.pc = fl[w].pc
    BY <1>10, <2>1 DEF IsFlush
  <2> HIDE DEF y1
  <2>3. /\ IsFlush(y2) /\ y2.keys = fl[w].keys /\ y2.todo = fl[w].todo \ {k} /\ y2.ents = ents
        /\ y2.pc = fl[w].pc
    BY <2>2 DEF IsFlush
  <2> HIDE DEF y2
  <2> QED BY <2>3 DEF IsFlush
<1> HIDE DEF x
<1>13. fl'[w] = x /\ \A v \in Worker : v # w => fl'[v] = fl[v]
  BY <1>1, <1>9 DEF TableType
<1>14. \A t \in Table : \A j \in DOMAIN sktdf'[t] :
         j # k /\ j \in DOMAIN sktdf[t] /\ sktdf'[t][j] = sktdf[t][j]
  <2>1. sktdf = [t \in Table |-> sktdf[t]] BY <1>1 DEF TableType
  <2>2. /\ sktdf'[fl[w].t] = Remove(sktdf[fl[w].t], k)
        /\ \A t \in Table : t # fl[w].t => sktdf'[t] = sktdf[t] /\ k \notin DOMAIN sktdf[t]
    BY <1>1, <1>2, <1>3, <2>1 DEF RowsInv
  <2>3. \A t \in Table : \A j \in DOMAIN Remove(sktdf[t], k) :
           j # k /\ j \in DOMAIN sktdf[t] /\ Remove(sktdf[t], k)[j] = sktdf[t][j]
    BY DEF Remove
  <2> QED BY <1>3, <2>2, <2>3
<1>15. ScansKey(w, k, cols, S, B, E)
  BY <1>2, <1>3, <1>6, <1>7, <1>8, <1>12, <1>13 DEF ScansKey, ents
<1>16. E = NewEntries(cols, S, blk') BY <1>2 DEF E
<1>17. ScansRecorded(w, k, cols, S)
  <2>1. fl'[w].pc = "build" /\ fl'[w].rows = rows BY <1>2, <1>12, <1>13
  <2> QED BY ONLY <1>11, <1>14, <2>1 DEF ScansRecorded
<1> QED BY <1>15, <1>16, <1>17 DEF B

\* The columns of block b that lose their bit.
Cleared(cols, S, b) ==
    {cols[i].id : i \in {j \in Hit(cols, S, b, {"iter", "drop"}) : ~cols[j].holding}}

\* A block after the scan, with r references.
ScannedWith(w, cols, S, b, r) ==
    LET lost == Hit(cols, S, b, {"iter", "drop"}) IN
    [blk[b] EXCEPT
        !.bits = @ \ Cleared(cols, S, b),
        !.trx = @ \ {cols[i].id : i \in Hit(cols, S, b, {"iter", "drop", "valid"})},
        !.ref = r,
        !.nrs = @ - Cardinality(Recording(cols, S, b)),
        !.wbits = IF lost = {} THEN @ ELSE @ \cup {w}]

\* Its fields.
LEMMA ScannedBlockIs ==
  ASSUME NEW w, NEW cols, NEW S, NEW b, IsBlock(blk[b]), NEW r
  PROVE  LET x == ScannedWith(w, cols, S, b, r) IN
         /\ IsBlock(x) /\ x.kbml = blk[b].kbml /\ x.ref = r
         /\ x.nrs = blk[b].nrs - Cardinality(Recording(cols, S, b))
         /\ x.bits = blk[b].bits \ Cleared(cols, S, b)
<1> DEFINE o == blk[b]
           x == ScannedWith(w, cols, S, b, r)
           lost == Hit(cols, S, b, {"iter", "drop"})
           v1 == o.bits \ Cleared(cols, S, b)
           v2 == o.trx \ {cols[i].id : i \in Hit(cols, S, b, {"iter", "drop", "valid"})}
           v4 == o.nrs - Cardinality(Recording(cols, S, b))
           v5 == IF lost = {} THEN o.wbits ELSE o.wbits \cup {w}
           y1 == [o EXCEPT !.bits = v1]
           y2 == [y1 EXCEPT !.trx = v2]
           y3 == [y2 EXCEPT !.ref = r]
           y4 == [y3 EXCEPT !.nrs = v4]
           y == [y4 EXCEPT !.wbits = v5]
<1>1. x = y
  <2>1. x = [o EXCEPT !.bits = v1, !.trx = v2, !.ref = r, !.nrs = v4, !.wbits = v5]
    BY DEF ScannedWith
  <2> HIDE DEF o, x, v1, v2, v4, v5
  <2> QED BY <2>1
<1>2. IsBlock(o) OBVIOUS
<1>3. /\ v1 = blk[b].bits \ Cleared(cols, S, b)
      /\ v4 = blk[b].nrs - Cardinality(Recording(cols, S, b))
      /\ o.kbml = blk[b].kbml
  OBVIOUS
<1> HIDE DEF o, v1, v2, v4, v5
<1>4. IsBlock(y1) /\ y1.bits = v1 /\ y1.ref = o.ref /\ y1.nrs = o.nrs /\ y1.kbml = o.kbml
  BY <1>2, BlockWith
<1> HIDE DEF y1
<1>5. IsBlock(y2) /\ y2.bits = v1 /\ y2.kbml = o.kbml BY <1>4 DEF IsBlock
<1> HIDE DEF y2
<1>6. IsBlock(y3) /\ y3.bits = v1 /\ y3.ref = r /\ y3.kbml = o.kbml BY <1>5 DEF IsBlock
<1> HIDE DEF y3
<1>7. IsBlock(y4) /\ y4.bits = v1 /\ y4.ref = r /\ y4.nrs = v4 /\ y4.kbml = o.kbml BY <1>6 DEF IsBlock
<1> HIDE DEF y4
<1>8. IsBlock(y) /\ y.bits = v1 /\ y.ref = r /\ y.nrs = v4 /\ y.kbml = o.kbml BY <1>7 DEF IsBlock
<1> HIDE DEF y
<1> QED BY <1>1, <1>3, <1>8

\* One column of a list is recorded at most.
LEMMA RecordingOne ==
  ASSUME NEW cols \in Seq(ColumnNode), NEW S, NEW b
  PROVE  /\ Recording(cols, S, b) = {} \/ \E i \in DOMAIN cols : Recording(cols, S, b) = {i}
         /\ \A i \in Recording(cols, S, b) :
               i \in DOMAIN cols /\ cols[i].st = "stored" /\ cols[i].ikey = b /\ ~cols[i].committed
<1>1. \A i \in Recording(cols, S, b) :
         /\ i \in DOMAIN cols /\ Verdict(cols, S, i) = "valid"
         /\ cols[i].st = "stored" /\ cols[i].ikey = b /\ ~cols[i].committed
  BY DEF Recording, Hit
<1>2. \A i, j \in Recording(cols, S, b) : i = j BY <1>1, VerdictFacts
<1> QED BY <1>1, <1>2

\* The scan keeps what holders know.
LEMMA ScansHolders ==
  ASSUME ColumnInv, HolderInv, NEW w \in Worker, NEW k, NEW cols, NEW S, NEW B, NEW E,
         ScansKey(w, k, cols, S, B, E), ScansRecorded(w, k, cols, S)
  PROVE  HolderInv'
<1>1. /\ k \in Key /\ k \in fl[w].todo /\ Leaves(cols, S, B) /\ EntriesOf(cols, S, E)
      /\ uk'[k].cols = B /\ \A j \in Key : j # k => uk'[j] = uk[j]
      /\ fl'[w].ents = fl[w].ents \cup E /\ \A v \in Worker : v # w => fl'[v] = fl[v]
      /\ fl'[w].keys = fl[w].keys /\ fl'[w].todo = fl[w].todo \ {k}
      /\ UNCHANGED <<reqs, hist, wk, ikeys>>
  BY DEF ScansKey
<1>2. /\ \A i \in DOMAIN uk[k].cols : i \in DOMAIN cols /\ cols[i] = uk[k].cols[i]
      /\ \A i \in DOMAIN cols : cols[i].id \in DOMAIN hist /\ hist[cols[i].id].key = k
      /\ \A i, j \in DOMAIN cols : cols[i].id = cols[j].id => i = j
      /\ \A i \in DOMAIN cols :
            \/ i \in DOMAIN uk[k].cols
            \/ Fetches(k) /\ cols[i].ikey = Row(k).ikey /\ cols[i].st = "stored"
      /\ \A v \in Worker : \A e \in fl[v].ents : hist[e.id].key # k
  BY ScansFrom
<1>3. \A i \in DOMAIN cols : Fresh(cols[i]) BY <1>1, <1>2 DEF HolderInv, FreshInv, Fresh
<1>4. \A i \in DOMAIN cols : cols[i].st = "stored" => Used(cols[i].ikey)
  <2>1. Fetches(k) => Used(Row(k).ikey)
    <3>1. Fetches(k) => TableOf[k] \in Table /\ k \in DOMAIN sktdf[TableOf[k]]
      BY <1>1, StateAssumption DEF Fetches, HasRow
    <3> QED BY <3>1 DEF HolderInv, IkeysInv, Row
  <2> QED BY <1>1, <1>2, <2>1 DEF HolderInv, IkeysInv
<1>5. FreshInv'
  <2>1. ASSUME NEW j \in Key, NEW m \in DOMAIN uk'[j].cols PROVE Fresh(uk'[j].cols[m])
    <3>1. CASE j # k BY <1>1, <2>1, <3>1 DEF HolderInv, FreshInv
    <3>2. CASE j = k
      <4>1. m \in DOMAIN B /\ uk'[j].cols[m] = B[m] BY <1>1, <2>1, <3>2
      <4>2. PICK i \in DOMAIN cols :
               /\ B[m].st = cols[i].st
               /\ B[m].st # "stored" => /\ B[m].committed = cols[i].committed
                                        /\ B[m].holding = cols[i].holding
        BY <1>1, <4>1 DEF Leaves
      <4> QED BY <1>3, <4>1, <4>2 DEF Fresh
    <3> QED BY <3>1, <3>2
  <2> QED BY <2>1 DEF FreshInv
<1>6. IkeysInv'
  <2>1. \A c : Used(c)' <=> Used(c) BY <1>1 DEF Used
  <2>2. ASSUME NEW j \in Key, NEW m \in DOMAIN uk'[j].cols, uk'[j].cols[m].st = "stored"
        PROVE  Used(uk'[j].cols[m].ikey)
    <3>1. CASE j # k BY <1>1, <2>2, <3>1 DEF HolderInv, IkeysInv
    <3>2. CASE j = k
      <4>1. m \in DOMAIN B /\ uk'[j].cols[m] = B[m] BY <1>1, <2>2, <3>2
      <4>2. PICK i \in DOMAIN cols : B[m].st = cols[i].st /\ B[m].ikey = cols[i].ikey
        BY <1>1, <4>1 DEF Leaves
      <4> QED BY <1>4, <2>2, <4>1, <4>2
    <3> QED BY <3>1, <3>2
  <2>3. \A v \in Worker : Writes(v)' => Used(wk'[v].ikey) BY <1>1 DEF HolderInv, IkeysInv, Writes
  <2>4. /\ \A v \in Worker : ikeys'.own[v] < ikeys'.next
        /\ \A v, u \in Worker : ikeys'.own[v] = ikeys'.own[u] => v = u
    BY <1>1 DEF HolderInv, IkeysInv
  <2>5. \A t \in Table : \A j \in DOMAIN sktdf'[t] : Used(sktdf'[t][j].ikey)
    BY DEF HolderInv, IkeysInv, ScansRecorded
  <2>6. ASSUME NEW v \in Worker
        PROVE  /\ \A j \in DOMAIN fl'[v].rows : Used(fl'[v].rows[j].ikey)
               /\ \A e \in fl'[v].ents : Used(e.ikey)
    <3>0. /\ \A j \in DOMAIN fl[v].rows : Used(fl[v].rows[j].ikey)
          /\ \A e \in fl[v].ents : Used(e.ikey)
      BY DEF HolderInv, IkeysInv
    <3>1. CASE v # w BY <1>1, <3>0, <3>1
    <3>2. CASE v = w
      <4>1. \A e \in E : Used(e.ikey) BY <1>1, <1>4 DEF EntriesOf
      <4>2. \A j \in DOMAIN fl'[w].rows : Used(fl'[w].rows[j].ikey)
        <5> TAKE j \in DOMAIN fl'[w].rows
        <5>1. CASE j \in DOMAIN fl[w].rows /\ fl'[w].rows[j] = fl[w].rows[j] BY <3>0, <3>2, <5>1
        <5>2. ASSUME NEW i \in DOMAIN cols, cols[i].st = "stored", fl'[w].rows[j].ikey = cols[i].ikey
              PROVE  Used(fl'[w].rows[j].ikey)
          BY <1>4, <5>2
        <5> QED BY <5>1, <5>2 DEF ScansRecorded
      <4> QED BY <1>1, <3>0, <3>2, <4>1, <4>2
    <3> QED BY <3>1, <3>2
  <2> HIDE DEF Used, Writes
  <2> QED BY <2>1, <2>2, <2>3, <2>4, <2>5, <2>6 DEF IkeysInv
<1>7. EntriesInv'
  <2>0. EntriesInv BY DEF HolderInv
  <2>1. ASSUME NEW e \in E
        PROVE  /\ IsEntry(e) /\ e.id \in DOMAIN hist /\ hist[e.id].key = k
               /\ \A m \in DOMAIN B : B[m].id = e.id => e.kind = "itr" /\ B[m].st = "stored" /\ B[m].committed
    <3>1. PICK i \in DOMAIN cols : /\ IsEntry(e) /\ cols[i].st = "stored" /\ e.id = cols[i].id
                                   /\ Verdict(cols, S, i) = IF e.kind = "itr" THEN "iter" ELSE "drop"
      BY <1>1 DEF EntriesOf
    <3>2. ASSUME NEW m \in DOMAIN B, B[m].id = e.id
          PROVE  e.kind = "itr" /\ B[m].st = "stored" /\ B[m].committed
      <4>1. PICK j \in DOMAIN cols : /\ Verdict(cols, S, j) # "drop" /\ B[m].id = cols[j].id
                                     /\ B[m].st = cols[j].st /\ (B[m].st = "stored" => B[m].committed)
        BY <1>1 DEF Leaves
      <4>2. i = j BY <1>2, <3>1, <3>2, <4>1
      <4> QED BY <3>1, <4>1, <4>2
    <3> QED BY <1>2, <3>1, <3>2
  <2>2. ASSUME NEW v \in Worker
        PROVE  /\ \A e \in fl'[v].ents :
                     /\ IsEntry(e) /\ e.id \in DOMAIN hist
                     /\ hist[e.id].key \in fl'[v].keys \ fl'[v].todo
                     /\ \A i \in DOMAIN uk'[hist[e.id].key].cols :
                           uk'[hist[e.id].key].cols[i].id = e.id =>
                              /\ e.kind = "itr" /\ uk'[hist[e.id].key].cols[i].st = "stored"
                              /\ uk'[hist[e.id].key].cols[i].committed
               /\ \A e, f \in fl'[v].ents : e.id = f.id => e = f
    <3>1. ASSUME NEW e \in fl[v].ents
          PROVE  /\ IsEntry(e) /\ e.id \in DOMAIN hist /\ hist[e.id].key \in fl[v].keys \ fl[v].todo
                 /\ \A i \in DOMAIN uk'[hist[e.id].key].cols :
                       uk'[hist[e.id].key].cols[i].id = e.id =>
                          /\ e.kind = "itr" /\ uk'[hist[e.id].key].cols[i].st = "stored"
                          /\ uk'[hist[e.id].key].cols[i].committed
      <4>1. /\ IsEntry(e) /\ e.id \in DOMAIN hist /\ hist[e.id].key \in fl[v].keys \ fl[v].todo
            /\ \A i \in DOMAIN uk[hist[e.id].key].cols :
                  uk[hist[e.id].key].cols[i].id = e.id =>
                     /\ e.kind = "itr" /\ uk[hist[e.id].key].cols[i].st = "stored"
                     /\ uk[hist[e.id].key].cols[i].committed
        BY <2>0 DEF EntriesInv
      <4>2. hist[e.id].key \in Key BY <4>1 DEF ColumnInv, UserType
      <4>3. hist[e.id].key # k BY <1>2
      <4>4. uk'[hist[e.id].key] = uk[hist[e.id].key] BY <1>1, <4>2, <4>3
      <4> QED BY <4>1, <4>4
    <3>2. \A e, f \in fl[v].ents : e.id = f.id => e = f BY <2>0 DEF EntriesInv
    <3>3. CASE v # w
      <4>1. fl'[v] = fl[v] BY <1>1, <3>3
      <4> QED BY <3>1, <3>2, <4>1
    <3>4. CASE v = w
      <4>1. fl'[v].ents = fl[v].ents \cup E /\ fl'[v].keys = fl[v].keys /\ fl'[v].todo = fl[v].todo \ {k}
        BY <1>1, <3>4
      <4>2. k \in fl[v].keys BY <1>1, <3>4 DEF ColumnInv, FlushesInv
      <4>3. \A e \in E :
               /\ IsEntry(e) /\ e.id \in DOMAIN hist
               /\ hist[e.id].key \in fl'[v].keys \ fl'[v].todo
               /\ \A i \in DOMAIN uk'[hist[e.id].key].cols :
                     uk'[hist[e.id].key].cols[i].id = e.id =>
                        /\ e.kind = "itr" /\ uk'[hist[e.id].key].cols[i].st = "stored"
                        /\ uk'[hist[e.id].key].cols[i].committed
        BY <1>1, <2>1, <4>1, <4>2
      <4>4. \A e, f \in E : e.id = f.id => e = f BY <1>1 DEF EntriesOf
      <4>5. \A e \in fl[v].ents, f \in E : e.id # f.id BY <1>2, <2>1
      <4>6. \A e, f \in fl'[v].ents : e.id = f.id => e = f BY <3>2, <4>1, <4>4, <4>5
      <4> QED BY <3>1, <4>1, <4>3, <4>6
    <3> QED BY <3>3, <3>4
  <2>3. hist' = hist BY <1>1
  <2> QED BY <2>2, <2>3 DEF EntriesInv
<1> QED BY <1>5, <1>6, <1>7 DEF HolderInv

\* A flush scans a key.
LEMMA BuildTally ==
  ASSUME ColumnInv, HolderInv, TallyInv, NEW w \in Worker, FlushBuild(w)
  PROVE  HolderInv' /\ TallyInv'
<1>1. PICK k : k = MinOf(fl[w].todo) OBVIOUS
<1>2. /\ fl[w].pc = "build" /\ fl[w].todo # {} /\ UNCHANGED <<reqs, hist, wk, ikeys, logq, lt>>
  BY DEF FlushBuild
<1>3. k \in fl[w].todo /\ k \in Key /\ k \in fl[w].keys /\ TableOf[k] = fl[w].t /\ fl[w].t \in Table
  BY <1>1, <1>2, NextKey DEF ColumnInv
<1>4. CASE HasRow(k) /\ ~uk[k].dirty
  <2>1. /\ fl' = [fl EXCEPT ![w].todo = fl[w].todo \ {k}, ![w].rows = With(fl[w].rows, k, Row(k))]
        /\ UNCHANGED <<uk, blk, sktdf>>
    BY <1>1, <1>4 DEF FlushBuild
  <2> DEFINE rows == With(fl[w].rows, k, Row(k))
             y == [fl[w] EXCEPT !.todo = fl[w].todo \ {k}]
             x == [y EXCEPT !.rows = rows]
  <2>2. \A j \in DOMAIN rows : Used(rows[j].ikey)
    <3>1. Used(Row(k).ikey) BY <1>3, <1>4 DEF HolderInv, IkeysInv, HasRow, Row
    <3>2. \A j \in DOMAIN rows : rows[j] = Row(k) \/ (j \in DOMAIN fl[w].rows /\ rows[j] = fl[w].rows[j])
      BY DEF With
    <3> HIDE DEF rows
    <3> QED BY <3>1, <3>2 DEF HolderInv, IkeysInv
  <2>3. fl' = [fl EXCEPT ![w] = x]
    <3>1. fl = [v \in Worker |-> fl[v]] BY DEF ColumnInv, TableType
    <3>2. fl' = [fl EXCEPT ![w].todo = fl[w].todo \ {k}, ![w].rows = rows] BY <2>1
    <3> HIDE DEF rows
    <3> QED BY <3>1, <3>2
  <2> HIDE DEF rows
  <2>4. x.rows = rows /\ x.todo = fl[w].todo \ {k} /\ x.keys = fl[w].keys /\ x.ents = fl[w].ents
    <3>1. IsFlush(fl[w]) BY DEF ColumnInv, TableType
    <3>2. fl[w].todo \ {k} \in SUBSET Key BY <3>1 DEF IsFlush
    <3>3. y \in [pc : {"none", "build", "delete", "update", "release", "end"}, t : {y.t},
                 snaps : {y.snaps}, todo : SUBSET Key, rows : {y.rows}, ents : {y.ents}, keys : SUBSET Key]
          /\ y.todo = fl[w].todo \ {k} /\ y.keys = fl[w].keys /\ y.ents = fl[w].ents
      BY <3>1, <3>2 DEF IsFlush
    <3> HIDE DEF y
    <3> QED BY <3>3
  <2> HIDE DEF x
  <2>5. fl'[w] = x /\ \A v \in Worker : v # w => fl'[v] = fl[v] BY <2>3 DEF ColumnInv, TableType
  <2>6. \A v \in Worker : fl'[v].ents = fl[v].ents BY <2>4, <2>5
  <2>7. SameUsers BY <1>2, <2>1, <2>6, EntsUsers
  <2>8. ASSUME NEW v \in Worker
        PROVE  /\ \A j \in DOMAIN fl'[v].rows : Used(fl'[v].rows[j].ikey)
               /\ \A e \in fl'[v].ents :
                     /\ IsEntry(e) /\ hist[e.id].key \in fl'[v].keys \ fl'[v].todo
                     /\ \E f \in fl[v].ents : f.id = e.id /\ f.ikey = e.ikey /\ f.kind = e.kind
               /\ \A e, f \in fl'[v].ents : e.id = f.id => e = f
    <3>0. /\ \A j \in DOMAIN fl[v].rows : Used(fl[v].rows[j].ikey)
          /\ \A f \in fl[v].ents : IsEntry(f) /\ hist[f.id].key \in fl[v].keys \ fl[v].todo
          /\ \A f, g \in fl[v].ents : f.id = g.id => f = g
      BY DEF HolderInv, IkeysInv, EntriesInv
    <3>1. CASE v = w BY <2>2, <2>4, <2>5, <3>0, <3>1
    <3>2. CASE v # w BY <2>5, <3>0, <3>2
    <3> QED BY <3>1, <3>2
  <2>9. HolderInv' BY <1>2, <2>1, <2>8, EntsHolders
  <2> QED BY <1>2, <2>1, <2>7, <2>9, TallyKept DEF blockVars
<1>5. CASE ~(HasRow(k) /\ ~uk[k].dirty)
  <2>1. PICK S, cols : S = fl[w].snaps /\ cols = Columns(k) OBVIOUS
  <2> DEFINE B == Rest(cols, S)
             E == NewEntries(cols, S, blk')
             used == {cols[i].ikey : i \in {j \in DOMAIN cols : cols[j].st = "stored"}}
             fetched(b) == Fetches(k) /\ b = Row(k).ikey
  <2>2. ScansKey(w, k, cols, S, B, E) /\ ScansRecorded(w, k, cols, S)
    BY <1>1, <1>5, <2>1, BuildIs
  <2>3. blk' = [b \in DOMAIN blk |-> IF b \in used THEN ScannedBlock(w, cols, S, b, fetched(b)) ELSE blk[b]]
    BY <1>1, <1>5, <2>1 DEF FlushBuild
  <2>4. PICK L : ScansKey(w, k, cols, S, B, L) BY <2>2
  <2> HIDE DEF B, E
  <2>5. PICK A : ScansKey(w, k, cols, S, A, L) BY <2>4
  <2>6. HolderInv' BY <2>2, <2>4, <2>5, ScansHolders
  <2>7. /\ \A b : Users(b)' = IF fetched(b) THEN Users(b) \cup {Row(k).id} ELSE Users(b)
        /\ \A b : LET U == {cols[i].id : i \in Recording(cols, S, b)} IN
                  Unrecorded(b)' = Unrecorded(b) \ U /\ U \subseteq Unrecorded(b)
    BY <2>5, ScansUsers, ScansUnrecorded
  <2>8. /\ cols \in Seq(ColumnNode)
        /\ Fetches(k) => \E i \in DOMAIN cols :
               cols[i].id = Row(k).id /\ cols[i].ikey = Row(k).ikey /\ cols[i].st = "stored"
        /\ Fetches(k) => Row(k).id \in DOMAIN hist /\ \A b : Row(k).id \notin Users(b)
    BY <2>5, ScansFrom
  <2>9. ASSUME NEW b
        PROVE  /\ IsFiniteSet(Users(b)) /\ IsFiniteSet(Unrecorded(b))
               /\ Cardinality(Users(b)) \in Nat /\ Cardinality(Unrecorded(b)) \in Nat
    <3>1. Users(b) \in SUBSET DOMAIN hist /\ Unrecorded(b) \in SUBSET DOMAIN hist
      BY DEF Users, Unrecorded
    <3> QED BY <3>1, WritesFinite DEF ColumnInv
  <2>10. ASSUME NEW b \in DOMAIN blk
         PROVE  /\ IsBlock(blk'[b]) /\ blk'[b].kbml = blk[b].kbml
                /\ blk'[b].ref = IF fetched(b) THEN blk[b].ref + 1 ELSE blk[b].ref
                /\ blk'[b].nrs = blk[b].nrs - Cardinality(Recording(cols, S, b))
    <3>0. IsBlock(blk[b]) BY DEF TallyInv, BlockType
    <3>1. CASE b \in used
      <4> DEFINE r == IF fetched(b) THEN blk[b].ref + 1 ELSE blk[b].ref
      <4>1. blk'[b] = ScannedWith(w, cols, S, b, r)
        <5>1. blk'[b] = ScannedBlock(w, cols, S, b, fetched(b)) BY <2>3, <3>1
        <5> QED BY <5>1 DEF ScannedBlock, ScannedWith, Recording, Cleared
      <4> HIDE DEF r
      <4>2. IsBlock(blk'[b]) /\ blk'[b].kbml = blk[b].kbml /\ blk'[b].ref = r
            /\ blk'[b].nrs = blk[b].nrs - Cardinality(Recording(cols, S, b))
        BY <3>0, <4>1, ScannedBlockIs
      <4> QED BY <4>2 DEF r
    <3>2. CASE b \notin used
      <4>1. blk'[b] = blk[b] BY <2>3, <3>2
      <4>2. ~fetched(b) BY <2>8, <3>2
      <4>3. Recording(cols, S, b) = {} BY <2>8, <3>2, RecordingOne
      <4>4. Cardinality(Recording(cols, S, b)) = 0 BY <4>3, FS_EmptySet
      <4>5. blk[b].nrs \in Nat BY <2>9 DEF TallyInv, NrsInv
      <4> QED BY <3>0, <4>1, <4>2, <4>4, <4>5
    <3> QED BY <3>1, <3>2
  <2>11. ASSUME NEW b \in DOMAIN blk PROVE blk'[b].ref = Cardinality(Users(b)')
    <3>1. blk[b].ref = Cardinality(Users(b)) BY DEF TallyInv, RefInv
    <3>2. CASE fetched(b)
      <4>1. Row(k).id \notin Users(b) BY <2>8, <3>2
      <4>2. Cardinality(Users(b) \cup {Row(k).id}) = Cardinality(Users(b)) + 1 BY <2>9, <4>1, FS_AddElement
      <4> QED BY <2>7, <2>10, <3>1, <3>2, <4>2
    <3>3. CASE ~fetched(b) BY <2>7, <2>10, <3>1, <3>3
    <3> QED BY <3>2, <3>3
  <2>12. ASSUME NEW b \in DOMAIN blk
         PROVE  blk'[b].nrs = Cardinality(Unrecorded(b)') /\ Unrecorded(b)' \subseteq Unrecorded(b)
    <3>1. blk[b].nrs = Cardinality(Unrecorded(b)) BY DEF TallyInv, NrsInv
    <3>2. CASE Recording(cols, S, b) = {}
      <4>1. Cardinality(Recording(cols, S, b)) = 0 BY <3>2, FS_EmptySet
      <4>2. Unrecorded(b)' = Unrecorded(b) BY <2>7, <3>2
      <4> QED BY <2>9, <2>10, <3>1, <4>1, <4>2
    <3>3. ASSUME NEW i \in DOMAIN cols, Recording(cols, S, b) = {i}
          PROVE  blk'[b].nrs = Cardinality(Unrecorded(b)') /\ Unrecorded(b)' \subseteq Unrecorded(b)
      <4>1. Cardinality(Recording(cols, S, b)) = 1 BY <3>3, FS_Singleton
      <4>2. Unrecorded(b)' = Unrecorded(b) \ {cols[i].id} /\ cols[i].id \in Unrecorded(b) BY <2>7, <3>3
      <4>3. Cardinality(Unrecorded(b) \ {cols[i].id}) = Cardinality(Unrecorded(b)) - 1
        BY <2>9, <4>2, FS_RemoveElement
      <4> QED BY <2>9, <2>10, <3>1, <4>1, <4>2, <4>3
    <3> QED BY <2>8, <3>2, <3>3, RecordingOne
  <2>13. blk' = [b \in DOMAIN blk |-> blk'[b]] BY <2>3
  <2> HIDE DEF fetched
  <2>14. TallyInv' BY <1>2, <2>10, <2>11, <2>12, <2>13, BlocksTally
  <2> QED BY <2>6, <2>14
<1> QED BY <1>4, <1>5
-----------------------------------------------------------------------------
(* The end of a flush. *)

\* A flush that goes to its end without rewriting blocks has nothing to give up.
EndInv == \A w \in Worker : fl[w].pc = "end" => fl[w].ents = {}

\* The keys of a set whose column is in block b, and their columns.
KeysLeaving(b, S) == {k \in S : ~NoColumns(k) /\ Newest(k).kbm # "none" /\ Newest(k).ikey = b}
Evictees(b, S) == {uk[k].cols[1].id : k \in KeysLeaving(b, S)}

\* A key that may be evicted has one column, which is recorded.
LEMMA EvictedIs ==
  ASSUME ColumnInv, NEW w \in Worker, NEW k \in Evicted(w)
  PROVE  /\ k \in Key /\ uk[k].present /\ ~uk[k].dirty
         /\ DOMAIN uk[k].cols = {1} /\ ~NoColumns(k) /\ Newest(k) = uk[k].cols[1]
         /\ uk[k].cols[1].st = "stored" /\ uk[k].cols[1].committed /\ uk[k].cols[1].kbm = "prim"
<1>1. k \in Key /\ uk[k].present /\ ~uk[k].dirty
  <2>1. \A j \in fl[w].keys : j \in Key BY DEF ColumnInv, TableType, IsFlush
  <2>2. \A j \in Key : j <= j BY StateAssumption
  <2> QED BY <2>1, <2>2 DEF Evicted, InKeymap, Busy
<1>2. IsClean(k) BY <1>1, CleanIs DEF ColumnInv
<1>3. Len(uk[k].cols) = 1 /\ Newest(k) = uk[k].cols[1] BY <1>1, <1>2 DEF IsClean, Newest
<1>4. uk[k].cols \in Seq(ColumnNode) BY <1>1 DEF ColumnInv, UserType, UserKey
<1>5. DOMAIN uk[k].cols = {1} /\ uk[k].cols # <<>> BY <1>3, <1>4
<1> QED BY <1>1, <1>2, <1>3, <1>5 DEF IsClean, NoColumns

\* As many references are given up as columns leave a block.
LEMMA EvicteesCount ==
  ASSUME ColumnInv, NEW w \in Worker, NEW b
  PROVE  /\ References(b, Evicted(w)) = Cardinality(Evictees(b, Evicted(w)))
         /\ \A id \in Evictees(b, Evicted(w)) : id \in DOMAIN hist /\ Attached(id, b)
         /\ \A id : id \in Evictees(b, Evicted(w)) <=>
               \E k \in Evicted(w) : HasStored(uk[k].cols, id, b)
<1> DEFINE E == Evicted(w)
           R == KeysLeaving(b, E)
           G == Evictees(b, E)
           f == [k \in R |-> uk[k].cols[1].id]
<1>1. \A k \in E : /\ k \in Key /\ DOMAIN uk[k].cols = {1} /\ ~NoColumns(k) /\ Newest(k) = uk[k].cols[1]
                   /\ uk[k].cols[1].st = "stored" /\ uk[k].cols[1].kbm = "prim"
  BY EvictedIs
<1> HIDE DEF E
<1>2. \A k : k \in R <=> k \in E /\ uk[k].cols[1].ikey = b BY <1>1 DEF KeysLeaving
<1>3. \A id : id \in G <=> \E k \in R : id = uk[k].cols[1].id BY DEF Evictees
<1> HIDE DEF R, G
<1>4. \A id : id \in G <=> \E k \in E : HasStored(uk[k].cols, id, b)
  BY <1>1, <1>2, <1>3 DEF HasStored
<1>5. \A id \in G : id \in DOMAIN hist /\ Attached(id, b)
  <2> TAKE id \in G
  <2>1. PICK k \in E : HasStored(uk[k].cols, id, b) BY <1>4
  <2>2. Attached(id, b) BY <1>1, <2>1 DEF Attached
  <2>3. id \in DOMAIN hist BY <1>1, <2>1 DEF HasStored, ColumnInv, ColumnsInv
  <2> QED BY <2>2, <2>3
<1>6. IsFiniteSet(G)
  <2>1. G \in SUBSET DOMAIN hist BY <1>5
  <2> QED BY <2>1, WritesFinite DEF ColumnInv
<1>7. f \in [R -> G] BY <1>3
<1>8. \A x, y \in R : f[x] = f[y] => x = y
  <2> TAKE x, y \in R
  <2>1. x \in Key /\ y \in Key /\ 1 \in DOMAIN uk[x].cols /\ 1 \in DOMAIN uk[y].cols BY <1>1, <1>2
  <2> QED BY <2>1, OnePlace DEF ColumnInv
<1>9. \A z \in G : \E x \in R : f[x] = z BY <1>3
<1>10. Cardinality(R) = Cardinality(G)
  <2> HIDE DEF f
  <2> QED BY <1>6, <1>7, <1>8, <1>9, SameCount
<1>11. References(b, E) = Cardinality(R) BY DEF References, R, KeysLeaving
<1> QED BY <1>4, <1>5, <1>10, <1>11 DEF E, G

\* A flush ends.
LEMMA EndTally ==
  ASSUME ColumnInv, HolderInv, TallyInv, EndInv, NEW w \in Worker, FlushEnd(w)
  PROVE  HolderInv' /\ TallyInv'
<1> DEFINE E == Evicted(w)
           t == fl[w].t
<1>1. /\ UNCHANGED <<reqs, hist, wk, ikeys, logq, lt>>
      /\ fl[w].ents = {} /\ fl[w].pc # "none"
      /\ sktdf' = [sktdf EXCEPT ![t] = fl[w].rows]
      /\ uk' = [k \in Key |-> IF k \in E THEN NoUserKey ELSE uk[k]]
      /\ blk' = [b \in DOMAIN blk |-> [blk[b] EXCEPT !.ref = @ - References(b, E)]]
      /\ fl' = [fl EXCEPT ![w] = NoFlush]
  BY DEF FlushEnd, EndInv
<1>2. \A k \in E : k \in Key /\ DOMAIN uk[k].cols = {1} /\ uk[k].cols[1].committed BY EvictedIs
<1>3. /\ \A b : References(b, E) = Cardinality(Evictees(b, E))
      /\ \A b : \A id \in Evictees(b, E) : id \in DOMAIN hist /\ Attached(id, b)
      /\ \A b : \A id : id \in Evictees(b, E) <=> \E k \in E : HasStored(uk[k].cols, id, b)
  BY EvicteesCount
<1> HIDE DEF E
<1>4. \A k \in Key : IF k \in E THEN DOMAIN uk'[k].cols = {} ELSE uk'[k] = uk[k] BY <1>1, NoUserKeyIs
<1>5. /\ fl'[w] = NoFlush /\ fl'[w].ents = {} /\ DOMAIN fl'[w].rows = {}
      /\ \A v \in Worker : v # w => fl'[v] = fl[v]
      /\ sktdf'[t] = fl[w].rows /\ \A u \in Table : u # t => sktdf'[u] = sktdf[u]
  BY <1>1 DEF ColumnInv, TableType, FlushesInv, NoFlush, Empty
<1>6. \A v \in Worker : fl'[v].ents = fl[v].ents BY <1>1, <1>5
<1>7. \A v \in Worker : Writes(v)' <=> Writes(v) BY <1>1 DEF Writes
<1>8. \A b : Used(b)' <=> Used(b) BY <1>1 DEF Used
<1>9. FreshInv'
  <2>1. ASSUME NEW k \in Key, NEW i \in DOMAIN uk'[k].cols PROVE Fresh(uk'[k].cols[i])
    <3>1. uk'[k] = uk[k] BY <1>4, <2>1
    <3> QED BY <3>1, <2>1 DEF HolderInv, FreshInv
  <2> QED BY <2>1 DEF FreshInv
<1>10. IkeysInv'
  <2> USE DEF HolderInv, IkeysInv
  <2>1. ASSUME NEW k \in Key, NEW i \in DOMAIN uk'[k].cols, uk'[k].cols[i].st = "stored"
        PROVE  Used(uk'[k].cols[i].ikey)
    <3>1. uk'[k] = uk[k] BY <1>4, <2>1
    <3> QED BY <2>1, <3>1
  <2>2. ASSUME NEW u \in Table, NEW k \in DOMAIN sktdf'[u] PROVE Used(sktdf'[u][k].ikey)
    <3>1. CASE u = t BY <1>5, <2>2, <3>1
    <3>2. CASE u # t BY <1>5, <2>2, <3>2
    <3> QED BY <3>1, <3>2
  <2>3. ASSUME NEW v \in Worker, NEW k \in DOMAIN fl'[v].rows PROVE Used(fl'[v].rows[k].ikey)
    <3>1. v # w /\ fl'[v] = fl[v] BY <1>5, <2>3
    <3> QED BY <2>3, <3>1
  <2>4. \A v \in Worker : \A e \in fl'[v].ents : Used(e.ikey) BY <1>6
  <2>5. \A v \in Worker : Writes(v)' => Used(wk'[v].ikey) BY <1>1, <1>7
  <2>6. /\ \A v \in Worker : ikeys'.own[v] < ikeys'.next
        /\ \A u, v \in Worker : ikeys'.own[u] = ikeys'.own[v] => u = v
    BY <1>1
  <2> HIDE DEF Used, Writes
  <2> QED BY <1>8, <2>1, <2>2, <2>3, <2>4, <2>5, <2>6
<1>11. EntriesInv'
  <2>1. ASSUME NEW v \in Worker, NEW e \in fl'[v].ents
        PROVE  /\ IsEntry(e) /\ e.id \in DOMAIN hist
               /\ hist[e.id].key \in fl'[v].keys \ fl'[v].todo
               /\ \A i \in DOMAIN uk'[hist[e.id].key].cols :
                     uk'[hist[e.id].key].cols[i].id = e.id =>
                       /\ e.kind = "itr" /\ uk'[hist[e.id].key].cols[i].st = "stored"
                       /\ uk'[hist[e.id].key].cols[i].committed
    <3>1. v # w /\ fl'[v] = fl[v] /\ e \in fl[v].ents BY <1>5, <2>1
    <3>2. /\ IsEntry(e) /\ e.id \in DOMAIN hist /\ hist[e.id].key \in fl[v].keys \ fl[v].todo
          /\ \A i \in DOMAIN uk[hist[e.id].key].cols :
                uk[hist[e.id].key].cols[i].id = e.id =>
                  /\ e.kind = "itr" /\ uk[hist[e.id].key].cols[i].st = "stored"
                  /\ uk[hist[e.id].key].cols[i].committed
      BY <3>1 DEF HolderInv, EntriesInv
    <3>3. hist[e.id].key \in Key BY <3>2 DEF ColumnInv, UserType
    <3> QED BY <1>4, <3>1, <3>2, <3>3
  <2>2. \A v \in Worker : \A e, f \in fl'[v].ents : e.id = f.id => e = f
    BY <1>6 DEF HolderInv, EntriesInv
  <2>3. hist' = hist BY <1>1
  <2> HIDE DEF IsEntry
  <2> QED BY <2>1, <2>2, <2>3 DEF EntriesInv
<1>12. ASSUME NEW id, NEW b
       PROVE  /\ Attached(id, b)' <=> Attached(id, b) /\ id \notin Evictees(b, E)
              /\ Uncommitted(id, b)' <=> Uncommitted(id, b)
              /\ Submitted(id, b)' <=> Submitted(id, b)
              /\ Removed(id, b)' <=> Removed(id, b)
              /\ Counted(id, b)' <=> Counted(id, b)
  <2>1. \A k \in Key : HasStored(uk'[k].cols, id, b) <=> HasStored(uk[k].cols, id, b) /\ k \notin E
    BY <1>4 DEF HasStored
  <2>2. \A j, k \in Key : HasStored(uk[j].cols, id, b) /\ HasStored(uk[k].cols, id, b) => j = k
    BY OnePlace DEF HasStored, ColumnInv
  <2>3. Attached(id, b)' <=> Attached(id, b) /\ id \notin Evictees(b, E)
    BY <1>2, <1>3, <2>1, <2>2 DEF Attached
  <2>4. \A k \in Key : HasUnrecorded(uk'[k].cols, id, b) <=> HasUnrecorded(uk[k].cols, id, b)
    BY <1>2, <1>4 DEF HasUnrecorded
  <2>5. Uncommitted(id, b)' <=> Uncommitted(id, b) BY <2>4 DEF Uncommitted
  <2>6. Submitted(id, b)' <=> Submitted(id, b) BY <1>1, <1>7 DEF Submitted, Todo, From
  <2>7. (Removed(id, b)' <=> Removed(id, b)) /\ (Counted(id, b)' <=> Counted(id, b))
    BY <1>6 DEF Removed, Counted
  <2> QED BY <2>3, <2>5, <2>6, <2>7
<1>13. ASSUME NEW b PROVE Users(b)' = Users(b) \ Evictees(b, E) /\ Unrecorded(b)' = Unrecorded(b)
  <2>1. \A id \in Evictees(b, E) : ~Submitted(id, b) /\ ~Removed(id, b)
    BY <1>3, PartsDisjoint DEF HolderInv
  <2>2. \A id : id \in Users(b)' <=> id \in Users(b) \ Evictees(b, E)
    BY <1>1, <1>12, <2>1 DEF Users
  <2>3. \A id : id \in Unrecorded(b)' <=> id \in Unrecorded(b) BY <1>1, <1>12 DEF Unrecorded
  <2>4. Users(b)' = Users(b) \ Evictees(b, E) BY <2>2 DEF Users
  <2> QED BY <2>3, <2>4 DEF Unrecorded
<1>14. ASSUME NEW b PROVE Cardinality(Users(b)') = Cardinality(Users(b)) - References(b, E)
  <2>1. Users(b) \in SUBSET DOMAIN hist BY DEF Users
  <2>2. IsFiniteSet(Users(b)) BY <2>1, WritesFinite DEF ColumnInv
  <2>3. Users(b) \cap Evictees(b, E) = Evictees(b, E) BY <1>3 DEF Users
  <2>4. Cardinality(Users(b) \ Evictees(b, E))
          = Cardinality(Users(b)) - Cardinality(Users(b) \cap Evictees(b, E))
    BY <2>2, FS_Difference
  <2> QED BY <1>3, <1>13, <2>3, <2>4
<1>15. /\ blk' = [b \in DOMAIN blk |-> blk'[b]]
       /\ \A b \in DOMAIN blk : /\ IsBlock(blk'[b]) /\ blk'[b].kbml = blk[b].kbml
                                /\ blk'[b].ref = Cardinality(Users(b)')
                                /\ blk'[b].nrs = Cardinality(Unrecorded(b)')
                                /\ Unrecorded(b)' \subseteq Unrecorded(b)
  <2>1. blk' = [b \in DOMAIN blk |-> blk'[b]] BY <1>1
  <2>2. ASSUME NEW b \in DOMAIN blk
        PROVE  /\ IsBlock(blk'[b]) /\ blk'[b].kbml = blk[b].kbml
               /\ blk'[b].ref = Cardinality(Users(b)')
               /\ blk'[b].nrs = Cardinality(Unrecorded(b)')
    <3> DEFINE x == blk[b]
               n == x.ref - References(b, E)
    <3>1. blk'[b] = [x EXCEPT !.ref = n] BY <1>1
    <3>2. IsBlock(x) /\ x.ref = Cardinality(Users(b)) /\ x.nrs = Cardinality(Unrecorded(b))
      BY DEF TallyInv, BlockType, RefInv, NrsInv
    <3>3. n = Cardinality(Users(b)') BY <1>14, <3>2
    <3> HIDE DEF x, n
    <3>4. IsBlock(blk'[b]) /\ blk'[b].kbml = x.kbml /\ blk'[b].ref = n /\ blk'[b].nrs = x.nrs
      BY <3>1, <3>2 DEF IsBlock
    <3> QED BY <1>13, <3>2, <3>3, <3>4 DEF x
  <2> QED BY <1>13, <2>1, <2>2
<1>16. TallyInv' BY <1>1, <1>15, BlocksTally
<1> QED BY <1>9, <1>10, <1>11, <1>16 DEF HolderInv

-----------------------------------------------------------------------------
(* All steps. *)

\* A flush that goes to its end has no entries.
LEMMA EndKept ==
  ASSUME ColumnInv, EndInv, [Next]_vars
  PROVE  EndInv'
<1> USE DEF EndInv
<1>0. /\ fl = [v \in Worker |-> fl[v]] /\ \A v \in Worker : IsFlush(fl[v])
  BY DEF ColumnInv, TableType
<1>1. CASE UNCHANGED fl BY <1>1
<1>2. ASSUME NEW w \in Worker, NEW x, fl' = [fl EXCEPT ![w] = x], x.pc = "end" => x.ents = {}
      PROVE  EndInv'
  <2>1. fl'[w] = x /\ \A v \in Worker : v # w => fl'[v] = fl[v] BY <1>0, <1>2
  <2> QED BY <1>2, <2>1
<1>3. ASSUME NEW w \in Worker, FlushNext(w) PROVE EndInv'
  <2>1. ASSUME NEW t \in Table, FlushStart(w, t) PROVE EndInv'
    BY <1>2, <2>1 DEF FlushStart
  <2>2. CASE FlushBuild(w)
    <3>1. fl[w].pc = "build" BY <2>2 DEF FlushBuild
    <3> DEFINE k == MinOf(fl[w].todo)
               cols == Columns(k)
               S == fl[w].snaps
               valid == {i \in DOMAIN cols : Verdict(cols, S, i) = "valid"}
               todo == fl[w].todo \ {k}
               same == With(fl[w].rows, k, Row(k))
               rows == IF valid = {} THEN fl[w].rows ELSE With(fl[w].rows, k, NewRow(cols[MinOf(valid)]))
               y == [fl[w] EXCEPT !.todo = todo]
    <3>2. \/ fl' = [fl EXCEPT ![w] = [y EXCEPT !.rows = same]]
          \/ \E E : fl' = [fl EXCEPT ![w] = [[y EXCEPT !.ents = E] EXCEPT !.rows = rows]]
      <4>1. CASE HasRow(k) /\ ~uk[k].dirty
        <5>1. fl' = [fl EXCEPT ![w].todo = @ \ {k}, ![w].rows = With(@, k, Row(k))]
          BY <2>2, <4>1 DEF FlushBuild
        <5> QED BY <1>0, <5>1 DEF IsFlush
      <4>2. CASE ~(HasRow(k) /\ ~uk[k].dirty)
        <5> DEFINE nblk == [b \in DOMAIN blk |->
                      IF b \in {cols[i].ikey : i \in {j \in DOMAIN cols : cols[j].st = "stored"}}
                      THEN ScannedBlock(w, cols, S, b, Fetches(k) /\ b = Row(k).ikey) ELSE blk[b]]
                   E == NewEntries(cols, S, nblk)
                   ents == fl[w].ents \cup E
        <5>1. fl' = [fl EXCEPT ![w] =
                        [fl[w] EXCEPT !.todo = @ \ {k}, !.ents = @ \cup E,
                                      !.rows = IF valid = {} THEN @
                                               ELSE With(@, k, NewRow(cols[MinOf(valid)]))]]
          BY <2>2, <4>2 DEF FlushBuild, NewEntries
        <5> HIDE DEF E, k, cols, S, valid
        <5>2. fl' = [fl EXCEPT ![w] = [[y EXCEPT !.ents = ents] EXCEPT !.rows = rows]] BY <5>1
        <5> HIDE DEF ents, y, rows
        <5> QED BY <5>2
      <4> QED BY <4>1, <4>2
    <3> HIDE DEF todo, same, rows
    <3>3. fl'[w].pc = "build" /\ \A v \in Worker : v # w => fl'[v] = fl[v]
      BY <1>0, <3>1, <3>2 DEF IsFlush
    <3> QED BY <3>3
  <2>3. CASE FlushWrite(w)
    <3>1. PICK pc : pc = (IF fl[w].ents = {} THEN "end" ELSE "delete") OBVIOUS
    <3>2. fl' = [fl EXCEPT ![w].pc = pc] BY <2>3, <3>1 DEF FlushWrite, Moved
    <3>3. fl'[w].pc = pc /\ fl'[w].ents = fl[w].ents /\ \A v \in Worker : v # w => fl'[v] = fl[v]
      BY <1>0, <3>2 DEF IsFlush
    <3> QED BY <3>1, <3>3
  <2>4. CASE FlushDelete(w)
    <3>1. fl'[w].pc = "update" /\ \A v \in Worker : v # w => fl'[v] = fl[v]
      BY <1>0, <2>4 DEF FlushDelete, Moved, IsFlush
    <3> QED BY <3>1
  <2>5. CASE FlushUpdate(w)
    <3>1. fl'[w].pc = "release" /\ \A v \in Worker : v # w => fl'[v] = fl[v]
      BY <1>0, <2>5 DEF FlushUpdate, Moved, IsFlush
    <3> QED BY <3>1
  <2>6. CASE ReleaseNRS(w) \/ ReleaseRef(w)
    <3>1. fl[w].pc = "release" /\ \E X : fl' = [fl EXCEPT ![w].ents = X]
      BY <2>6 DEF ReleaseNRS, ReleaseRef
    <3>2. fl'[w].pc = "release" /\ \A v \in Worker : v # w => fl'[v] = fl[v]
      BY <1>0, <3>1 DEF IsFlush
    <3> QED BY <3>2
  <2>7. CASE FlushEnd(w) BY <1>2, <2>7 DEF FlushEnd, NoFlush
  <2> QED BY <1>3, <2>1, <2>2, <2>3, <2>4, <2>5, <2>6, <2>7 DEF FlushNext
<1>4. CASE LogNext
  <2>1. UNCHANGED LogVars
    <3>1. ASSUME NEW w, LogScan(w) PROVE UNCHANGED LogVars BY <3>1 DEF LogScan
    <3>2. CASE LogRescan BY <3>2 DEF LogRescan
    <3>3. CASE LogMark BY <3>3 DEF LogMark
    <3>4. CASE LogDelete BY <3>4 DEF LogDelete
    <3> QED BY <1>4, <3>1, <3>2, <3>3, <3>4 DEF LogNext, LogStart
  <2> QED BY <1>1, <2>1 DEF LogVars
<1>5. ASSUME NEW p \in Writer, Store(p) \/ PutColumnNodeToRequestQueue(p) PROVE UNCHANGED fl
  BY <1>5 DEF Store, Discard, Insert, PutColumnNodeToRequestQueue
<1>6. ASSUME NEW w \in Worker, WorkerNext(w) PROVE UNCHANGED fl
  BY <1>6 DEF WorkerNext, Pop, WakeIdle, Merge, Put, Decrease, Update
<1>7. CASE TakeSnapshot \/ (\E s \in DOMAIN snaps : ReleaseSnapshot(s)) \/ (\E t \in Thread : Publish(t))
           \/ UNCHANGED vars
  BY <1>1, <1>7 DEF TakeSnapshot, ReleaseSnapshot, Publish, vars
<1> QED BY <1>1, <1>3, <1>4, <1>5, <1>6, <1>7 DEF Next

\* The database as it is opened: no column is in memory.
LEMMA InitTally ==
  ASSUME Init
  PROVE  HolderInv /\ TallyInv /\ EndInv
<1>1. PICK load \in Workloads :
         Opened(load.stored) /\ lt = [IdleLog EXCEPT !.n = load.rounds]
  BY DEF Init, InitState
<1> DEFINE S == load.stored
<1>2. /\ \A k \in Key : uk[k] = NoUserKey
      /\ \A w \in Worker : wk[w] = IdleWorker /\ fl[w] = NoFlush
      /\ logq = [w \in Worker |-> [q |-> [i \in {0, 1} |-> <<>>], active |-> 0]]
  BY DEF Init, InitState
<1>3. /\ \A k \in Key : DOMAIN uk[k].cols = {}
      /\ \A w \in Worker : /\ ~Writes(w) /\ fl[w].ents = {} /\ DOMAIN fl[w].rows = {} /\ fl[w].pc = "none"
  BY <1>2, NoUserKeyIs DEF Writes, IdleWorker, NoFlush, Empty
<1>4. ikeys = [next |-> FirstBlock + MaxOf(Worker) + 1, own |-> [w \in Worker |-> FirstBlock + w]]
  BY <1>1 DEF Opened
<1>5. /\ \A w \in Worker : w \in Nat /\ 1 <= w /\ ikeys.own[w] = 1 + w /\ ikeys.own[w] < ikeys.next
      /\ ikeys.next \in Nat /\ 1 < ikeys.next
  <2>1. PICK n \in Worker : Worker = 1..n BY StateAssumption
  <2>2. n \in Nat /\ 1 <= n /\ \A m \in Worker : m <= n /\ m \in Nat /\ 1 <= m
    <3>1. \A m \in 1..n : m \in Nat /\ 1 <= m /\ m <= n OBVIOUS
    <3> QED BY <2>1, <3>1
  <2>3. MaxOf(Worker) = n BY <2>1, <2>2, MaxOfFacts
  <2> QED BY <1>4, <2>2, <2>3 DEF FirstBlock
<1>6. Used(FirstBlock)
  <2>1. FirstBlock = 1 BY DEF FirstBlock
  <2> QED BY <1>5, <2>1 DEF Used
<1>7. \A t \in Table : \A k \in DOMAIN sktdf[t] : sktdf[t][k].ikey = FirstBlock
  BY <1>1 DEF Opened, OpenedTables
<1>8. FreshInv BY <1>3 DEF FreshInv
<1>9. IkeysInv
  <2>1. \A v, w \in Worker : ikeys.own[v] = ikeys.own[w] => v = w BY <1>5
  <2> HIDE DEF Used, Writes
  <2> QED BY <1>3, <1>5, <1>6, <1>7, <2>1 DEF IkeysInv
<1>10. EntriesInv BY <1>3 DEF EntriesInv
<1>11. \A b \in DOMAIN blk : b = FirstBlock /\ blk[b] = OpenedBlock(S)
  BY <1>1 DEF Opened
<1>12. blk = [b \in DOMAIN blk |-> blk[b]] BY <1>1 DEF Opened
<1>13. /\ IsBlock(OpenedBlock(S)) /\ OpenedBlock(S).ref = 0 /\ OpenedBlock(S).nrs = 0
       /\ OpenedBlock(S).kbml = FALSE
  BY DEF IsBlock, OpenedBlock
<1>14. BlockType BY <1>6, <1>11, <1>12, <1>13 DEF BlockType
<1>15. \A b : Users(b) = {} /\ Unrecorded(b) = {}
  <2>1. \A id, b : ~Attached(id, b) /\ ~Uncommitted(id, b) /\ ~Submitted(id, b) /\ ~Removed(id, b)
                     /\ ~Counted(id, b)
    BY <1>3 DEF Attached, Uncommitted, HasStored, HasUnrecorded, Submitted, Removed, Counted
  <2> QED BY <2>1 DEF Users, Unrecorded
<1>16. RefInv /\ NrsInv
  BY <1>11, <1>13, <1>15, FS_EmptySet DEF RefInv, NrsInv
<1>17. /\ lt.pc = "idle" /\ lt.batch = <<>>
       /\ lt \in [pc : {"idle", "scan", "rescan", "mark", "delete"}, w : {lt.w}, batch : Seq(Nat),
                  dels : {lt.dels}, n : {lt.n}]
  <2>1. PICK n : lt = [IdleLog EXCEPT !.n = n] BY <1>1
  <2>2. lt = [pc |-> "idle", w |-> 0, batch |-> <<>>, dels |-> {}, n |-> n] BY <2>1 DEF IdleLog
  <2> QED BY <2>2
<1>18. logq \in [Worker -> [q : [{0, 1} -> Seq(Nat)], active : {0, 1}]]
  <2>1. [i \in {0, 1} |-> <<>>] \in [{0, 1} -> Seq(Nat)] OBVIOUS
  <2> QED BY <1>2, <2>1
<1>19. LogType BY <1>17, <1>18 DEF LogType
<1>20. LogInv
  <2>1. \A w \in Worker : \A a \in {0, 1} : logq[w].q[a] = <<>> BY <1>2
  <2>2. DOMAIN << >> = {} OBVIOUS
  <2> QED BY <1>11, <1>13, <1>17, <2>1, <2>2 DEF LogInv
<1>21. EndInv BY <1>3 DEF EndInv
<1> QED BY <1>8, <1>9, <1>10, <1>14, <1>16, <1>19, <1>20, <1>21 DEF HolderInv, TallyInv

\* Every step keeps the counts.
LEMMA NextTally ==
  ASSUME ColumnInv, TrxnInv, HolderInv, TallyInv, EndInv, [Next]_vars
  PROVE  HolderInv' /\ TallyInv'
<1>0. TableInv BY DEF TrxnInv
<1>1. ASSUME NEW w \in Worker, WorkerNext(w) PROVE HolderInv' /\ TallyInv'
  BY <1>0, <1>1, WriteTally, PutTally, UpdateTally DEF WorkerNext
<1>2. ASSUME NEW w \in Worker, FlushNext(w) PROVE HolderInv' /\ TallyInv'
  BY <1>2, StartTally, BuildTally, MovedTally, ReleaseTally, EndTally DEF FlushNext
<1>3. CASE LogNext BY <1>3, LogTally
<1>4. CASE \/ \E p \in Writer : Store(p) \/ PutColumnNodeToRequestQueue(p)
           \/ TakeSnapshot \/ (\E s \in DOMAIN snaps : ReleaseSnapshot(s))
           \/ (\E t \in Thread : Publish(t)) \/ UNCHANGED vars
  BY <1>0, <1>4, WriteTally
<1> QED BY <1>1, <1>2, <1>3, <1>4 DEF Next

\* The two counts of a block are those of its columns.
LEMMA TallyExact ==
  ASSUME ColumnInv, HolderInv, TallyInv
  PROVE  KBRefExact /\ NRSExact
BY CountsExact DEF HolderInv, TallyInv, LogInv

\* The references of a key block are exactly its columns in memory, those its worker has
\* written and not yet updated, and those a flush has taken out and not yet given up,
\* however writes, merges, flushes, evictions and the log thread interleave (KBRefExact;
\* KeyBlockPrimaryMeta::ref_cnt_, by which a block is deleted).
THEOREM KBRefExactAlways == Spec => []KBRefExact
<1>1. Init => ColumnInv /\ HolderInv /\ TallyInv /\ EndInv BY InitColumns, InitTally
<1>2. ColumnInv /\ HolderInv /\ TallyInv /\ EndInv /\ TrxnInv /\ [Next]_vars
        => (ColumnInv /\ HolderInv /\ TallyInv /\ EndInv)'
  BY NextColumns, NextTally, EndKept
<1>3. ColumnInv /\ HolderInv /\ TallyInv => KBRefExact BY TallyExact
<1> QED BY <1>1, <1>2, <1>3, TrxnInvAlways, PTL DEF Spec

\* The count of columns of a block that no table records is exact, and a block with such
\* a column has its log entry (NRSExact; the count is raised when the block is written and
\* lowered by the flushes of all the tables of its columns).
THEOREM NRSExactAlways == Spec => []NRSExact
<1>1. Init => ColumnInv /\ HolderInv /\ TallyInv /\ EndInv BY InitColumns, InitTally
<1>2. ColumnInv /\ HolderInv /\ TallyInv /\ EndInv /\ TrxnInv /\ [Next]_vars
        => (ColumnInv /\ HolderInv /\ TallyInv /\ EndInv)'
  BY NextColumns, NextTally, EndKept
<1>3. ColumnInv /\ HolderInv /\ TallyInv => NRSExact BY TallyExact
<1> QED BY <1>1, <1>2, <1>3, TrxnInvAlways, PTL DEF Spec

-----------------------------------------------------------------------------
(* Blocks that can be reached. *)

\* A column that a flush found invalid is not found valid later: something newer was
\* deleted, or is in a block, or the column is a delete.
HoldOK(cols) ==
    \A i \in DOMAIN cols : cols[i].holding =>
        \/ cols[i].recdel \/ cols[i].del
        \/ \E j \in DOMAIN cols : cols[j].st = "stored" /\ cols[i].id < cols[j].id
HoldInv == \A k \in Key : HoldOK(uk[k].cols)

\* A column without a block is a put or a delete as its write is.
FlagInv ==
    \A k \in Key : \A i \in DOMAIN uk[k].cols :
        uk[k].cols[i].st # "stored" => uk[k].cols[i].del = hist[uk[k].cols[i].id].del

\* The value of a put is on the device and valid in its block.
Held(id, b) == b \in DOMAIN blk /\ id \in blk[b].bits /\ b \in kb \cap kbm

\* The table that is being built has lost the column; the table on the device follows.
Building(id, b) ==
    \E w \in Worker : fl[w].pc = "build" /\ \E e \in fl[w].ents : e.id = id /\ e.ikey = b

\* The block of a column is there, and on the device when it is a put, the ones that only
\* a snapshot sees included.
InBlock(c) ==
    /\ c.ikey \in DOMAIN blk
    /\ ~c.del => c.ikey \in kb \cap kbm /\ (c.holding \/ Held(c.id, c.ikey))

KeptColumns ==
    \A k \in Key : \A i \in DOMAIN uk[k].cols :
        uk[k].cols[i].st = "stored" => InBlock(uk[k].cols[i])
KeptWrites ==
    \A w \in Worker : \A id \in DOMAIN hist : Submitted(id, wk[w].ikey) =>
        wk[w].ikey \in DOMAIN blk /\ (hist[id].del \/ Held(id, wk[w].ikey))
KeptRows ==
    /\ \A t \in Table : \A k \in DOMAIN sktdf[t] : Held(sktdf[t][k].id, sktdf[t][k].ikey)
    /\ \A w \in Worker : /\ \A k \in DOMAIN fl[w].rows : Held(fl[w].rows[k].id, fl[w].rows[k].ikey)
                         /\ fl[w].todo \cap DOMAIN fl[w].rows = {}

\* A row on the device.
OnDevice(r) ==
    /\ r.ikey \in DOMAIN blk /\ r.ikey \in kb
    /\ r.id \in blk[r.ikey].bits \/ Building(r.id, r.ikey)
KeptDevice ==
    /\ skt = [t \in Table |-> skt[t]]
    /\ \A t \in Table : \A k \in DOMAIN skt[t] :
          /\ skt[t][k].id \in DOMAIN hist /\ hist[skt[t][k].id].key = k /\ TableOf[k] = t
          /\ OnDevice(skt[t][k])

\* The block of an entry is there; a block that is to be deleted with the last column of
\* it has nothing else.
EntryKept(e) ==
    /\ e.ikey \in DOMAIN blk
    /\ e.kind = "itr" => Attached(e.id, e.ikey)
    /\ e.kind = "del" => blk[e.ikey].bits = {} /\ blk[e.ikey].ref <= 1
KeptEntries == \A w \in Worker : \A e \in fl[w].ents : EntryKept(e)
KeptDels == \A b \in lt.dels : b \notin DOMAIN blk /\ Used(b)

KeepInv ==
    /\ HoldInv /\ FlagInv /\ KeptColumns /\ KeptWrites /\ KeptRows /\ KeptDevice /\ KeptEntries
    /\ KeptDels

\* The block is needed on the device.
Reached(b) ==
    blk[b].bits # {} \/ \E id : Attached(id, b) \/ Submitted(id, b) \/ Building(id, b)

\* A step deletes no block that is needed, and clears no bit.
SafeDeletes ==
    \A b \in DOMAIN blk :
        /\ blk[b].bits # {} \/ Users(b) # {} => b \in DOMAIN blk' /\ blk'[b].bits = blk[b].bits
        /\ Reached(b) => (b \in kb => b \in kb') /\ (b \in kbm => b \in kbm')

\* The column was in its block already, or written there.
OldColumn(c) == InBlock(c) /\ (Attached(c.id, c.ikey) \/ Submitted(c.id, c.ikey))

\* The references of a block are a number; none, or one only.
LEMMA RefNat ==
  ASSUME ColumnInv, TallyInv, NEW b \in DOMAIN blk
  PROVE  /\ blk[b].ref \in Nat /\ (blk[b].ref = 0 => Users(b) = {})
         /\ blk[b].ref <= 1 => \A id \in Users(b) : Users(b) = {id}
<1>1. blk[b].ref = Cardinality(Users(b)) BY DEF TallyInv, RefInv
<1>2. IsFiniteSet(Users(b)) /\ Cardinality(Users(b)) \in Nat
  <2>1. Users(b) \in SUBSET DOMAIN hist BY DEF Users
  <2> QED BY <2>1, WritesFinite DEF ColumnInv
<1>3. Cardinality(Users(b)) = 0 => Users(b) = {} BY <1>2, FS_EmptySet
<1>4. ASSUME NEW id \in Users(b), Cardinality(Users(b)) <= 1 PROVE Users(b) = {id}
  <2>1. IsFiniteSet(Users(b) \ {id}) /\ Cardinality(Users(b) \ {id}) = Cardinality(Users(b)) - 1
    BY <1>2, FS_RemoveElement
  <2>2. Cardinality(Users(b) \ {id}) \in Nat BY <2>1, FS_CardinalityType
  <2>3. Cardinality(Users(b) \ {id}) = 0 BY <1>2, <1>4, <2>1, <2>2
  <2>4. Users(b) \ {id} = {} BY <2>1, <2>3, FS_EmptySet
  <2> QED BY <2>4
<1> QED BY <1>1, <1>2, <1>3, <1>4

\* What uses a block.
LEMMA UsersHas ==
  ASSUME ColumnInv, EntriesInv, NEW id, NEW b, Attached(id, b) \/ Submitted(id, b) \/ Removed(id, b)
  PROVE  id \in Users(b)
BY UsersWrite DEF Users

\* The block of an entry is used.
LEMMA EntryUses ==
  ASSUME ColumnInv, EntriesInv, KeepInv, NEW w \in Worker, NEW e \in fl[w].ents
  PROVE  /\ e.id \in Users(e.ikey) /\ e.ikey \in DOMAIN blk
         /\ e.kind = "itr" => Attached(e.id, e.ikey)
         /\ e.kind # "itr" => Removed(e.id, e.ikey)
<1>1. EntryKept(e) BY DEF KeepInv, KeptEntries
<1>2. e.kind # "itr" => Removed(e.id, e.ikey) BY DEF Removed
<1> QED BY <1>1, <1>2, UsersHas DEF EntryKept

\* A value that is valid in its block stays so.
LEMMA HeldStays ==
  ASSUME SafeDeletes, NEW id, NEW b, Held(id, b)
  PROVE  Held(id, b)'
<1>1. b \in DOMAIN blk /\ id \in blk[b].bits /\ b \in kb /\ b \in kbm BY DEF Held
<1>2. blk[b].bits # {} /\ Reached(b) BY <1>1 DEF Reached
<1>3. b \in DOMAIN blk' /\ blk'[b].bits = blk[b].bits /\ b \in kb' /\ b \in kbm'
  BY <1>1, <1>2 DEF SafeDeletes
<1> QED BY <1>1, <1>3 DEF Held

\* A column stays in its block.
LEMMA OldColumnStays ==
  ASSUME ColumnInv, EntriesInv, SafeDeletes, NEW c, OldColumn(c)
  PROVE  InBlock(c)'
<1>1. c.ikey \in DOMAIN blk BY DEF OldColumn, InBlock
<1>2. Users(c.ikey) # {} /\ Reached(c.ikey) BY UsersHas DEF OldColumn, Reached
<1>3. c.ikey \in DOMAIN blk' /\ (c.ikey \in kb => c.ikey \in kb') /\ (c.ikey \in kbm => c.ikey \in kbm')
  BY <1>1, <1>2 DEF SafeDeletes
<1>4. Held(c.id, c.ikey) => Held(c.id, c.ikey)' BY HeldStays
<1> QED BY <1>3, <1>4 DEF OldColumn, InBlock

\* The columns of lists that have the same blocks.
LEMMA SameColumns ==
  ASSUME ColumnInv, HolderInv, KeepInv, NEW k \in Key, NEW B, SameStored(uk[k].cols, B)
  PROVE  \A j \in DOMAIN B : B[j].st = "stored" => OldColumn(B[j])
<1> SUFFICES ASSUME NEW j \in DOMAIN B, B[j].st = "stored" PROVE OldColumn(B[j]) OBVIOUS
<1>1. PICK i \in DOMAIN uk[k].cols : uk[k].cols[i].st = "stored" /\ Alike(uk[k].cols[i], B[j])
  BY DEF SameStored
<1>2. InBlock(uk[k].cols[i]) BY <1>1 DEF KeepInv, KeptColumns
<1>3. Attached(uk[k].cols[i].id, uk[k].cols[i].ikey) BY <1>1 DEF Attached, HasStored
<1> QED BY <1>1, <1>2, <1>3 DEF OldColumn, InBlock, Alike

\* They are held for the same reasons.
LEMMA SameHold ==
  ASSUME NEW A, NEW B, HoldOK(A), SameStored(A, B), \A j \in DOMAIN B : Fresh(B[j])
  PROVE  HoldOK(B)
<1> SUFFICES ASSUME NEW j \in DOMAIN B, B[j].holding
             PROVE  \/ B[j].recdel \/ B[j].del
                    \/ \E n \in DOMAIN B : B[n].st = "stored" /\ B[j].id < B[n].id
  BY DEF HoldOK
<1>1. B[j].st = "stored" BY DEF Fresh
<1>2. PICK i \in DOMAIN A : A[i].st = "stored" /\ Alike(A[i], B[j]) BY <1>1 DEF SameStored
<1>3. CASE A[i].recdel \/ A[i].del BY <1>2, <1>3 DEF Alike
<1>4. CASE \E m \in DOMAIN A : A[m].st = "stored" /\ A[i].id < A[m].id
  <2>1. PICK m \in DOMAIN A : A[m].st = "stored" /\ A[i].id < A[m].id BY <1>4
  <2>2. PICK n \in DOMAIN B : B[n].st = "stored" /\ Alike(A[m], B[n]) BY <2>1 DEF SameStored
  <2> QED BY <1>2, <2>1, <2>2 DEF Alike
<1> QED BY <1>2, <1>3, <1>4 DEF HoldOK, Alike

\* What a step must show of rows and entries when it deletes no needed block.
RowsFromHeld ==
    /\ \A t \in Table : \A k \in DOMAIN sktdf'[t] : Held(sktdf'[t][k].id, sktdf'[t][k].ikey)
    /\ \A w \in Worker : /\ \A k \in DOMAIN fl'[w].rows : Held(fl'[w].rows[k].id, fl'[w].rows[k].ikey)
                         /\ fl'[w].todo \cap DOMAIN fl'[w].rows = {}
DeviceFrom ==
    /\ skt' = [t \in Table |-> skt'[t]]
    /\ \A t \in Table : \A k \in DOMAIN skt'[t] :
          LET r == skt'[t][k] IN
          /\ r.id \in DOMAIN hist /\ hist[r.id].key = k /\ TableOf[k] = t
          /\ r.ikey \in DOMAIN blk /\ r.ikey \in kb
          /\ \/ r.id \in blk[r.ikey].bits
             \/ Building(r.id, r.ikey) /\ \E w \in Worker :
                   fl'[w].pc = "build" /\ \E e \in fl'[w].ents : e.id = r.id /\ e.ikey = r.ikey
EntriesFrom ==
    \A w \in Worker : \A e \in fl'[w].ents :
        /\ \E f \in fl[w].ents : f.id = e.id /\ f.ikey = e.ikey /\ f.kind = e.kind
        /\ e.kind = "itr" => Attached(e.id, e.ikey)'

\* A column that was written to its block stays there.
LEMMA WritesStay ==
  ASSUME ColumnInv, HolderInv, KeepInv, SafeDeletes, \A id, b : Submitted(id, b)' => Submitted(id, b),
         \A id \in DOMAIN hist : hist'[id] = hist[id]
  PROVE  KeptWrites'
<1>0. EntriesInv BY DEF HolderInv
<1>1. ASSUME NEW w \in Worker, NEW id \in DOMAIN hist', NEW b, b = wk'[w].ikey, Submitted(id, b)'
      PROVE  b \in DOMAIN blk' /\ (hist'[id].del \/ Held(id, b)')
  <2>1. Submitted(id, b) /\ id \in DOMAIN hist BY <1>0, <1>1, UsersWrite
  <2>2. PICK v \in Worker : wk[v].ikey = b BY <2>1 DEF Submitted
  <2>3. b \in DOMAIN blk /\ (hist[id].del \/ Held(id, b)) BY <2>1, <2>2 DEF KeepInv, KeptWrites
  <2>4. Users(b) # {} BY <1>0, <2>1, UsersHas
  <2>5. b \in DOMAIN blk' BY <2>3, <2>4 DEF SafeDeletes
  <2>6. Held(id, b) => Held(id, b)' BY HeldStays
  <2> QED BY <2>1, <2>3, <2>5, <2>6
<1>2. ASSUME NEW w \in Worker, NEW id \in DOMAIN hist', Submitted(id, wk[w].ikey)'
      PROVE  wk'[w].ikey \in DOMAIN blk' /\ (hist'[id].del \/ Held(id, wk[w].ikey)')
  <2>1. PICK b : b = wk'[w].ikey OBVIOUS
  <2>2. Submitted(id, b)' BY <1>2, <2>1 DEF Submitted
  <2>3. b \in DOMAIN blk' /\ (hist'[id].del \/ Held(id, b)') BY <1>1, <2>1, <2>2
  <2> QED BY <2>1, <2>3 DEF Held
<1> HIDE DEF Submitted, Held
<1> QED BY <1>2 DEF KeptWrites

\* Such a step keeps what can be reached.
LEMMA KeepStays ==
  ASSUME ColumnInv, HolderInv, TallyInv, KeepInv, SafeDeletes, RowsFromHeld, DeviceFrom, EntriesFrom,
         HoldInv', FlagInv', KeptWrites', KeptDels',
         \A k \in Key : \A i \in DOMAIN uk'[k].cols :
            uk'[k].cols[i].st = "stored" => OldColumn(uk'[k].cols[i]),
         DOMAIN hist \subseteq DOMAIN hist', \A id \in DOMAIN hist : hist'[id] = hist[id],
         \A b \in DOMAIN blk : b \in DOMAIN blk' => blk'[b].ref \in Nat /\ blk'[b].ref <= blk[b].ref
  PROVE  KeepInv'
<1>0. EntriesInv BY DEF HolderInv
<1>1. KeptColumns'
  <2>1. ASSUME NEW k \in Key, NEW i \in DOMAIN uk'[k].cols, uk'[k].cols[i].st = "stored"
        PROVE  InBlock(uk[k].cols[i])'
    <3>1. PICK c : c = uk'[k].cols[i] OBVIOUS
    <3>2. InBlock(c)' BY <1>0, <2>1, <3>1, OldColumnStays
    <3> QED BY <3>1, <3>2 DEF InBlock, Held
  <2> QED BY <2>1 DEF KeptColumns
<1>3. KeptRows'
  <2>1. ASSUME NEW t \in Table, NEW k \in DOMAIN sktdf'[t]
        PROVE  Held(sktdf[t][k].id, sktdf[t][k].ikey)'
    <3>1. PICK id, b : id = sktdf'[t][k].id /\ b = sktdf'[t][k].ikey OBVIOUS
    <3>2. Held(id, b)' BY <3>1, HeldStays DEF RowsFromHeld
    <3> QED BY <3>1, <3>2 DEF Held
  <2>2. ASSUME NEW w \in Worker, NEW k \in DOMAIN fl'[w].rows
        PROVE  Held(fl[w].rows[k].id, fl[w].rows[k].ikey)'
    <3>1. PICK id, b : id = fl'[w].rows[k].id /\ b = fl'[w].rows[k].ikey OBVIOUS
    <3>2. Held(id, b)' BY <3>1, HeldStays DEF RowsFromHeld
    <3> QED BY <3>1, <3>2 DEF Held
  <2> HIDE DEF Held
  <2> QED BY <2>1, <2>2 DEF KeptRows, RowsFromHeld
<1>4. KeptDevice'
  <2>1. ASSUME NEW t \in Table, NEW k \in DOMAIN skt'[t]
        PROVE  /\ skt'[t][k].id \in DOMAIN hist' /\ hist'[skt'[t][k].id].key = k /\ TableOf[k] = t
               /\ OnDevice(skt[t][k])'
    <3>1. PICK r : r = skt'[t][k] OBVIOUS
    <3>2. /\ r.id \in DOMAIN hist /\ hist[r.id].key = k /\ TableOf[k] = t
          /\ r.ikey \in DOMAIN blk /\ r.ikey \in kb
          /\ \/ r.id \in blk[r.ikey].bits
             \/ Building(r.id, r.ikey) /\ \E w \in Worker :
                   fl'[w].pc = "build" /\ \E e \in fl'[w].ents : e.id = r.id /\ e.ikey = r.ikey
      BY <3>1 DEF DeviceFrom
    <3>3. /\ Reached(r.ikey) /\ (blk[r.ikey].bits # {} \/ Users(r.ikey) # {})
      <4>1. CASE r.id \in blk[r.ikey].bits BY <4>1 DEF Reached
      <4>2. CASE Building(r.id, r.ikey)
        <5>1. PICK w \in Worker : \E e \in fl[w].ents : e.id = r.id /\ e.ikey = r.ikey BY <4>2 DEF Building
        <5>2. PICK e \in fl[w].ents : e.id = r.id /\ e.ikey = r.ikey BY <5>1
        <5>3. e.id \in Users(r.ikey) BY <1>0, <5>2, EntryUses
        <5> QED BY <4>2, <5>3 DEF Reached
      <4> QED BY <3>2, <4>1, <4>2
    <3>4. r.ikey \in DOMAIN blk' /\ r.ikey \in kb' /\ blk'[r.ikey].bits = blk[r.ikey].bits
      BY <3>2, <3>3 DEF SafeDeletes
    <3>5. OnDevice(r)' BY <3>2, <3>4 DEF OnDevice, Building
    <3> QED BY <3>1, <3>2, <3>5 DEF OnDevice, Building
  <2>2. skt' = [t \in Table |-> skt'[t]] BY DEF DeviceFrom
  <2> HIDE DEF OnDevice
  <2> QED BY <2>1, <2>2 DEF KeptDevice
<1>5. KeptEntries'
  <2>1. ASSUME NEW w \in Worker, NEW e \in fl'[w].ents PROVE EntryKept(e)'
    <3>1. PICK f \in fl[w].ents : f.id = e.id /\ f.ikey = e.ikey /\ f.kind = e.kind
      BY <2>1 DEF EntriesFrom
    <3>2. EntryKept(f) /\ f.id \in Users(f.ikey) BY <1>0, <3>1, EntryUses DEF KeepInv, KeptEntries
    <3>3. e.ikey \in DOMAIN blk' /\ blk'[e.ikey].bits = blk[e.ikey].bits
      BY <3>1, <3>2 DEF SafeDeletes, EntryKept
    <3>4. e.kind = "itr" => Attached(e.id, e.ikey)' BY <2>1 DEF EntriesFrom
    <3>5. e.kind = "del" => blk'[e.ikey].bits = {} /\ blk'[e.ikey].ref <= 1
      <4>1. e.ikey \in DOMAIN blk BY <3>1, <3>2 DEF EntryKept
      <4>2. blk'[e.ikey].ref \in Nat /\ blk[e.ikey].ref \in Nat /\ blk'[e.ikey].ref <= blk[e.ikey].ref
        BY <3>3, <4>1, RefNat
      <4>3. e.kind = "del" => blk[e.ikey].bits = {} /\ blk[e.ikey].ref <= 1 BY <3>1, <3>2 DEF EntryKept
      <4> QED BY <3>3, <4>2, <4>3
    <3> QED BY <3>3, <3>4, <3>5 DEF EntryKept
  <2> HIDE DEF EntryKept
  <2> QED BY <2>1 DEF KeptEntries
<1> QED BY <1>1, <1>3, <1>4, <1>5 DEF KeepInv

-----------------------------------------------------------------------------
(* Steps that leave every column in its block: what can be reached. *)

\* Columns wait, are merged or submitted.
LEMMA MovesKeep ==
  ASSUME ColumnInv, HolderInv, TallyInv, KeepInv, HolderInv', Moves, SafeDeletes, UNCHANGED <<fl, skt>>,
         FlagInv', KeptDels',
         \A b \in DOMAIN blk : b \in DOMAIN blk' => blk'[b].ref \in Nat /\ blk'[b].ref <= blk[b].ref
  PROVE  KeepInv'
<1>1. /\ \A k \in Key : SameStored(uk[k].cols, uk'[k].cols)
      /\ DOMAIN hist \subseteq DOMAIN hist' /\ \A id \in DOMAIN hist : hist'[id] = hist[id]
      /\ \A id, b : Submitted(id, b)' => Submitted(id, b)
      /\ sktdf' = sktdf
  BY DEF Moves
<1>2. HoldInv'
  <2>1. ASSUME NEW k \in Key PROVE HoldOK(uk[k].cols)'
    <3>1. PICK A, B : A = uk[k].cols /\ B = uk'[k].cols OBVIOUS
    <3>2. HoldOK(A) BY <3>1 DEF KeepInv, HoldInv
    <3>3. \A j \in DOMAIN B : Fresh(B[j]) BY <3>1 DEF HolderInv, FreshInv
    <3>4. HoldOK(B) BY <1>1, <3>1, <3>2, <3>3, SameHold
    <3> QED BY <3>1, <3>4 DEF HoldOK
  <2> QED BY <2>1 DEF HoldInv
<1>3. \A k \in Key : \A i \in DOMAIN uk'[k].cols :
         uk'[k].cols[i].st = "stored" => OldColumn(uk'[k].cols[i])
  BY <1>1, SameColumns
<1>4. RowsFromHeld BY <1>1 DEF RowsFromHeld, KeepInv, KeptRows
<1>5. DeviceFrom BY DEF DeviceFrom, KeepInv, KeptDevice, OnDevice, Building
<1>6. EntriesFrom
  <2>1. ASSUME NEW w \in Worker, NEW e \in fl[w].ents, e.kind = "itr" PROVE Attached(e.id, e.ikey)'
    <3>1. Attached(e.id, e.ikey) BY <2>1 DEF KeepInv, KeptEntries, EntryKept
    <3>2. \A k \in Key : HasStored(uk[k].cols, e.id, e.ikey) <=> HasStored(uk'[k].cols, e.id, e.ikey)
      BY <1>1, SameStoredHas
    <3> QED BY <3>1, <3>2 DEF Attached
  <2> QED BY <2>1 DEF EntriesFrom
<1>7. KeptWrites' BY <1>1, WritesStay
<1> QED BY <1>1, <1>2, <1>3, <1>4, <1>5, <1>6, <1>7, KeepStays

\* Blocks stay as they are.
LEMMA SafeStill ==
  ASSUME UNCHANGED <<blk, kb, kbm>>
  PROVE  SafeDeletes
BY DEF SafeDeletes

\* No write is new.
LEMMA MovesFlags ==
  ASSUME ColumnInv, KeepInv, ColumnInv', Moves, hist' = hist
  PROVE  FlagInv'
<1> SUFFICES ASSUME NEW k \in Key, NEW j \in DOMAIN uk'[k].cols, uk'[k].cols[j].st # "stored"
             PROVE  uk'[k].cols[j].del = hist[uk'[k].cols[j].id].del
  BY DEF FlagInv
<1>1. seq + 1 \notin DOMAIN hist BY DEF ColumnInv, UserType
<1>2. uk'[k].cols[j].id \in DOMAIN hist BY DEF ColumnInv, ColumnsInv
<1>3. PICK i \in DOMAIN uk[k].cols :
         /\ uk[k].cols[i].st # "stored" /\ uk'[k].cols[j].id = uk[k].cols[i].id
         /\ uk'[k].cols[j].del = uk[k].cols[i].del
  BY <1>1, <1>2 DEF Moves, OthersFrom
<1> QED BY <1>3 DEF KeepInv, FlagInv

\* A write that is inserted.
LEMMA InsertFlags ==
  ASSUME ColumnInv, TableInv, KeepInv, NEW p \in Writer, Store(p), Insert(p)
  PROVE  FlagInv'
<1> DEFINE k == NextOp(p).key
           s == seq + 1
<1>1. /\ k \in Key /\ Len(uk[k].cols) \in Nat /\ DOMAIN uk[k].cols = 1..Len(uk[k].cols)
      /\ DOMAIN uk'[k].cols = 1..(Len(uk[k].cols) + 1)
      /\ uk'[k].cols[1].id = s /\ uk'[k].cols[1].del = NextOp(p).del
      /\ \A i \in DOMAIN uk[k].cols :
            /\ Alike(uk[k].cols[i], uk'[k].cols[i + 1])
            /\ uk'[k].cols[i + 1].st = "stored" <=> uk[k].cols[i].st = "stored"
      /\ \A j \in Key : j # k => uk'[j] = uk[j]
      /\ hist'[s].del = NextOp(p).del
      /\ \A id \in DOMAIN hist : hist'[id] = hist[id]
  BY InsertIsNew
<1> HIDE DEF k, s
<1>2. \A j \in Key : \A i \in DOMAIN uk[j].cols :
         /\ uk[j].cols[i].id \in DOMAIN hist
         /\ uk[j].cols[i].st # "stored" => uk[j].cols[i].del = hist[uk[j].cols[i].id].del
  BY DEF ColumnInv, ColumnsInv, KeepInv, FlagInv
<1>3. ASSUME NEW j \in Key, NEW i \in DOMAIN uk'[j].cols, uk'[j].cols[i].st # "stored"
      PROVE  uk'[j].cols[i].del = hist'[uk'[j].cols[i].id].del
  <2>1. CASE j # k
    <3>1. i \in DOMAIN uk[j].cols /\ uk'[j].cols[i] = uk[j].cols[i] BY <1>1, <1>3, <2>1
    <3>2. uk[j].cols[i].id \in DOMAIN hist /\ uk[j].cols[i].del = hist[uk[j].cols[i].id].del
      BY <1>2, <1>3, <3>1
    <3>3. hist'[uk[j].cols[i].id] = hist[uk[j].cols[i].id] BY <1>1, <3>2
    <3> QED BY <3>1, <3>2, <3>3
  <2>2. CASE j = k /\ i = 1 BY <1>1, <2>2
  <2>3. CASE j = k /\ i # 1
    <3>1. PICK m : m = i - 1 OBVIOUS
    <3>2. m \in DOMAIN uk[k].cols /\ i = m + 1 BY <1>1, <1>3, <2>3, <3>1
    <3>3. /\ uk'[k].cols[i].id = uk[k].cols[m].id /\ uk'[k].cols[i].del = uk[k].cols[m].del
          /\ uk[k].cols[m].st # "stored"
      BY <1>1, <1>3, <2>3, <3>2 DEF Alike
    <3>4. uk[k].cols[m].id \in DOMAIN hist /\ uk[k].cols[m].del = hist[uk[k].cols[m].id].del
      BY <1>1, <1>2, <3>2, <3>3
    <3>5. hist'[uk[k].cols[m].id] = hist[uk[k].cols[m].id] BY <1>1, <3>4
    <3> QED BY <2>3, <3>3, <3>4, <3>5
  <2> QED BY <2>1, <2>2, <2>3
<1> QED BY <1>3 DEF FlagInv

\* Writers, snapshots, and workers up to the block.
LEMMA WriteKeep ==
  ASSUME ColumnInv, TableInv, HolderInv, TallyInv, KeepInv, ColumnInv',
         \/ \E p \in Writer : Store(p) \/ PutColumnNodeToRequestQueue(p)
         \/ TakeSnapshot \/ (\E s \in DOMAIN snaps : ReleaseSnapshot(s))
         \/ (\E t \in Thread : Publish(t)) \/ UNCHANGED vars
         \/ \E w \in Worker : Pop(w) \/ WakeIdle(w) \/ Merge(w) \/ Decrease(w)
  PROVE  KeepInv'
<1>1. UNCHANGED <<blk, ikeys, kb, kbm, skt, fl, lt>>
  BY DEF Store, Discard, Insert, PutColumnNodeToRequestQueue, TakeSnapshot, ReleaseSnapshot, Publish, vars,
         Pop, WakeIdle, Merge, Decrease, blockVars, devVars
<1>2. HolderInv' /\ Moves BY WriteTally
<1>3. ASSUME NEW p \in Writer, Store(p), Insert(p) PROVE FlagInv' BY <1>3, InsertFlags
<1>4. ASSUME ~\E p \in Writer : Store(p) /\ Insert(p) PROVE FlagInv'
  <2>1. hist' = hist
    BY <1>4 DEF Store, Discard, PutColumnNodeToRequestQueue, TakeSnapshot, ReleaseSnapshot, Publish, vars,
         Pop, WakeIdle, Merge, Decrease, userVars
  <2> QED BY <1>2, <2>1, MovesFlags
<1>5. FlagInv' BY <1>3, <1>4
<1>6. KeptDels'
  <2>1. \A b : Used(b)' <=> Used(b) BY <1>1 DEF Used
  <2> QED BY <1>1, <2>1 DEF KeepInv, KeptDels
<1>7. \A b \in DOMAIN blk : b \in DOMAIN blk' => blk'[b].ref \in Nat /\ blk'[b].ref <= blk[b].ref
  BY <1>1, RefNat
<1> QED BY <1>1, <1>2, <1>5, <1>6, <1>7, SafeStill, MovesKeep

\* The log thread deletes what nothing refers to.
LEMMA LogKeep ==
  ASSUME ColumnInv, HolderInv, TallyInv, KeepInv, ColumnInv', LogNext
  PROVE  KeepInv'
<1>1. UNCHANGED <<hist, fl, skt, ikeys>>
  BY DEF LogNext, LogStart, LogScan, LogRescan, LogMark, LogDelete, LogVars, userVars
<1>2. HolderInv' /\ Moves BY LogTally
<1>3. FlagInv' BY <1>1, <1>2, MovesFlags
<1>4. \A b : Used(b)' <=> Used(b) BY <1>1 DEF Used
<1>5. ASSUME UNCHANGED <<blk, kb, kbm>>, lt'.dels \in {lt.dels, {}} PROVE KeepInv'
  <2>1. KeptDels' BY <1>4, <1>5 DEF KeepInv, KeptDels
  <2>2. \A b \in DOMAIN blk : b \in DOMAIN blk' => blk'[b].ref \in Nat /\ blk'[b].ref <= blk[b].ref
    BY <1>5, RefNat
  <2> QED BY <1>1, <1>2, <1>3, <1>5, <2>1, <2>2, SafeStill, MovesKeep
<1>6. lt \in [pc : {"idle", "scan", "rescan", "mark", "delete"}, w : {lt.w}, batch : Seq(Nat),
              dels : {lt.dels}, n : {lt.n}]
  BY DEF TallyInv, LogType
<1>7. ASSUME NEW w \in Worker, LogScan(w) PROVE KeepInv'
  <2> DEFINE a == logq[w].active
             q == logq[w].q[1 - a]
             batch == lt.batch \o SubSeq(q, 1, Recorded(q))
  <2>1. /\ UNCHANGED <<blk, kb, kbm>>
        /\ lt' = [lt EXCEPT !.pc = "rescan", !.w = w, !.batch = batch] \/ lt' = Onward(w, batch)
    BY <1>7 DEF LogScan
  <2>2. a \in {0, 1} /\ 1 - a \in {0, 1}
    <3>1. logq[w] \in [q : [{0, 1} -> Seq(Nat)], active : {0, 1}] BY DEF TallyInv, LogType
    <3> QED BY <3>1
  <2>3. IsBatch(batch) BY <2>2, BatchTaken
  <2> HIDE DEF batch
  <2>4. Onward(w, batch).dels \in {lt.dels, {}} BY <2>3, OnwardIs
  <2>5. [lt EXCEPT !.pc = "rescan", !.w = w, !.batch = batch].dels = lt.dels BY <1>6
  <2> QED BY <1>5, <2>1, <2>4, <2>5
<1>8. CASE LogStart
  <2>1. MinOf(Worker) \in Worker BY StateAssumption, LeastWorker
  <2> QED BY <1>7, <1>8, <2>1 DEF LogStart
<1>9. CASE lt.pc = "scan" /\ LogScan(lt.w)
  <2>1. lt.w \in Worker BY <1>9 DEF TallyInv, LogType
  <2> QED BY <1>7, <1>9, <2>1
<1>10. CASE LogRescan
  <2> DEFINE w == lt.w
             a == logq[w].active
             q == logq[w].q[a]
             batch == lt.batch \o SubSeq(q, 1, Recorded(q))
  <2>1. UNCHANGED <<blk, kb, kbm>> /\ lt' = Onward(w, batch) /\ lt.pc = "rescan" BY <1>10 DEF LogRescan
  <2>2. w \in Worker BY <2>1 DEF TallyInv, LogType
  <2>3. a \in {0, 1}
    <3>1. logq[w] \in [q : [{0, 1} -> Seq(Nat)], active : {0, 1}] BY <2>2 DEF TallyInv, LogType
    <3> QED BY <3>1
  <2>4. IsBatch(batch) BY <2>2, <2>3, BatchTaken
  <2> HIDE DEF batch, w
  <2>5. Onward(w, batch).dels \in {lt.dels, {}} BY <2>2, <2>4, OnwardIs
  <2> QED BY <1>5, <2>1, <2>5
<1>11. CASE LogDelete
  <2>1. kbm' = kbm \ lt.dels /\ kb' = kb \ lt.dels /\ lt' = Round /\ blk' = blk BY <1>11 DEF LogDelete
  <2>2. KeptDels' BY <2>1, RoundIs DEF KeptDels
  <2>3. \A b \in DOMAIN blk : b \notin lt.dels BY DEF KeepInv, KeptDels
  <2>4. SafeDeletes BY <2>1, <2>3 DEF SafeDeletes
  <2>5. \A b \in DOMAIN blk : b \in DOMAIN blk' => blk'[b].ref \in Nat /\ blk'[b].ref <= blk[b].ref
    BY <2>1, RefNat
  <2> QED BY <1>1, <1>2, <1>3, <2>2, <2>4, <2>5, MovesKeep
<1>12. CASE LogMark
  <2> DEFINE b == Head(lt.batch)
             y == [blk[b] EXCEPT !.inlog = FALSE, !.kbml = FALSE]
             dels == IF Garbage(blk[b]) THEN lt.dels \cup {b} ELSE lt.dels
             to == IF Tail(lt.batch) = <<>> THEN "delete" ELSE lt.pc
  <2>1. /\ lt.pc = "mark" /\ kb' = kb /\ kbm' = kbm
        /\ IF Garbage(blk[b]) THEN blk' = Remove(blk, b) ELSE blk' = [blk EXCEPT ![b] = y]
        /\ lt' = [lt EXCEPT !.batch = Tail(lt.batch), !.dels = dels, !.pc = to]
    BY <1>12 DEF LogMark
  <2>2. lt'.dels = dels
    <3> HIDE DEF dels, to
    <3> QED BY <1>6, <2>1
  <2>3. Used(b)
    <3>1. lt.batch \in Seq(Nat) /\ lt.batch # <<>> BY <1>6, <2>1 DEF TallyInv, LogType
    <3>2. 1 \in DOMAIN lt.batch /\ b = lt.batch[1] BY <3>1
    <3> QED BY <3>2 DEF TallyInv, LogInv
  <2>4. b \in DOMAIN blk => y.bits = blk[b].bits /\ y.ref = blk[b].ref
    <3>1. b \in DOMAIN blk => IsBlock(blk[b]) BY DEF TallyInv, BlockType
    <3> HIDE DEF b
    <3> QED BY <3>1 DEF IsBlock
  <2> HIDE DEF b, y
  <2>5. CASE Garbage(blk[b])
    <3>1. /\ DOMAIN blk' = DOMAIN blk \ {b} /\ \A c \in DOMAIN blk \ {b} : blk'[c] = blk[c]
      BY <2>1, <2>5 DEF Remove
    <3>2. b \in DOMAIN blk => blk[b].bits = {} /\ Users(b) = {} BY <2>5, RefNat DEF Garbage
    <3>3. SafeDeletes BY <2>1, <3>1, <3>2 DEF SafeDeletes
    <3>4. KeptDels' BY <1>4, <2>2, <2>3, <2>5, <3>1 DEF KeepInv, KeptDels
    <3>5. \A c \in DOMAIN blk : c \in DOMAIN blk' => blk'[c].ref \in Nat /\ blk'[c].ref <= blk[c].ref
      BY <3>1, RefNat
    <3> QED BY <1>1, <1>2, <1>3, <3>3, <3>4, <3>5, MovesKeep
  <2>6. CASE ~Garbage(blk[b])
    <3>1. /\ DOMAIN blk' = DOMAIN blk
          /\ \A c \in DOMAIN blk : blk'[c].bits = blk[c].bits /\ blk'[c].ref = blk[c].ref
      BY <2>1, <2>4, <2>6
    <3>2. SafeDeletes BY <2>1, <3>1 DEF SafeDeletes
    <3>3. KeptDels' BY <1>4, <2>2, <2>6, <3>1 DEF KeepInv, KeptDels
    <3>4. \A c \in DOMAIN blk : c \in DOMAIN blk' => blk'[c].ref \in Nat /\ blk'[c].ref <= blk[c].ref
      BY <3>1, RefNat
    <3> QED BY <1>1, <1>2, <1>3, <3>2, <3>3, <3>4, MovesKeep
  <2> QED BY <2>5, <2>6
<1> QED BY <1>8, <1>9, <1>10, <1>11, <1>12 DEF LogNext

\* A worker writes its block.
LEMMA PutKeep ==
  ASSUME ColumnInv, HolderInv, TallyInv, KeepInv, NEW w \in Worker, Put(w)
  PROVE  KeepInv'
<1>1. PICK b, x : b = ikeys.own[w] /\ x = NewBlock(w) OBVIOUS
<1>2. /\ UNCHANGED <<uk, reqs, hist, lt, fl, sktdf, skt>> /\ blk' = With(blk, b, x)
      /\ kbm' = kbm \cup {b} /\ kb' = IF x.bits = {} THEN kb ELSE kb \cup {b}
      /\ ikeys' = [next |-> ikeys.next + 1, own |-> [ikeys.own EXCEPT ![w] = ikeys.next]]
  BY <1>1 DEF Put, userVars
<1>3. x.bits = {id \in Heads(w) : IsPut(id)} BY <1>1 DEF NewBlock
<1>4. ~Used(b) /\ \A c : Used(c) => Used(c)' BY <1>1, <1>2, PutIkeys
<1>5. b \notin DOMAIN blk /\ b \notin lt.dels BY <1>4 DEF TallyInv, BlockType, KeepInv, KeptDels
<1>6. /\ DOMAIN blk' = DOMAIN blk \cup {b} /\ blk'[b] = x
      /\ \A c \in DOMAIN blk : blk'[c] = blk[c]
  BY <1>2, <1>5 DEF With
<1>7. kb \subseteq kb' /\ kbm \subseteq kbm' BY <1>2
<1>8. SafeDeletes BY <1>6, <1>7 DEF SafeDeletes
<1>9. HoldInv' /\ FlagInv' BY <1>2 DEF KeepInv, HoldInv, FlagInv
<1>10. KeptDels'
  <2>1. lt' = lt BY <1>2
  <2> QED BY <1>4, <1>5, <1>6, <2>1 DEF KeepInv, KeptDels
<1>11. \A id, c : Attached(id, c)' <=> Attached(id, c) BY <1>2 DEF Attached
<1>12. \A k \in Key : \A i \in DOMAIN uk'[k].cols :
          uk'[k].cols[i].st = "stored" => OldColumn(uk'[k].cols[i])
  BY <1>2 DEF KeepInv, KeptColumns, OldColumn, Attached, HasStored
<1>13. RowsFromHeld BY <1>2 DEF RowsFromHeld, KeepInv, KeptRows
<1>14. DeviceFrom BY <1>2 DEF DeviceFrom, KeepInv, KeptDevice, OnDevice, Building
<1>15. EntriesFrom BY <1>2, <1>11 DEF EntriesFrom, KeepInv, KeptEntries, EntryKept
<1>16. KeptWrites'
  <2>1. ASSUME NEW id \in DOMAIN hist', NEW c, Submitted(id, c)'
        PROVE  c \in DOMAIN blk' /\ (hist'[id].del \/ Held(id, c)')
    <3>1. CASE c = b
      <4>1. id \in Users(b)' BY <2>1, <3>1 DEF Users
      <4>2. id \in Heads(w) BY <1>1, <4>1, PutUsers
      <4>3. hist'[id].del \/ id \in x.bits BY <1>2, <1>3, <4>2 DEF IsPut
      <4>4. id \in x.bits => b \in kb' /\ b \in kbm' BY <1>2
      <4> QED BY <1>6, <3>1, <4>3, <4>4 DEF Held
    <3>2. CASE c # b
      <4>1. PICK v \in Worker : /\ Writes(v)' /\ wk'[v].ikey = c
                                /\ \E i \in Todo(v)' : reqs'[wk'[v].list[i]].latest = id
        BY <2>1 DEF Submitted
      <4>2. Writes(v) /\ wk'[v] = wk[v] BY <1>1, <3>2, <4>1, PutUsers
      <4>3. Todo(v)' = Todo(v) BY <4>2 DEF Todo, From
      <4>4. \E i \in Todo(v) : reqs[wk[v].list[i]].latest = id BY <1>2, <4>1, <4>2, <4>3
      <4>5. Submitted(id, c) /\ wk[v].ikey = c
        <5> HIDE DEF Writes, Todo
        <5> QED BY <4>1, <4>2, <4>4 DEF Submitted
      <4>6. c \in DOMAIN blk /\ (hist[id].del \/ Held(id, c))
        BY <1>2, <4>5 DEF KeepInv, KeptWrites
      <4>7. Held(id, c) => Held(id, c)' BY <1>8, HeldStays
      <4> QED BY <1>2, <1>6, <4>6, <4>7
    <3> QED BY <3>1, <3>2
  <2>2. ASSUME NEW v \in Worker, NEW id \in DOMAIN hist', Submitted(id, wk[v].ikey)'
        PROVE  wk'[v].ikey \in DOMAIN blk' /\ (hist'[id].del \/ Held(id, wk[v].ikey)')
    <3>1. PICK c : c = wk'[v].ikey OBVIOUS
    <3>2. Submitted(id, c)' BY <2>2, <3>1 DEF Submitted
    <3>3. c \in DOMAIN blk' /\ (hist'[id].del \/ Held(id, c)') BY <2>1, <3>2
    <3> QED BY <3>1, <3>3 DEF Held
  <2> HIDE DEF Submitted, Held
  <2> QED BY <2>2 DEF KeptWrites
<1>17. \A c \in DOMAIN blk : c \in DOMAIN blk' => blk'[c].ref \in Nat /\ blk'[c].ref <= blk[c].ref
  BY <1>6, RefNat
<1>18. DOMAIN hist \subseteq DOMAIN hist' /\ \A id \in DOMAIN hist : hist'[id] = hist[id] BY <1>2
<1> QED BY <1>8, <1>9, <1>10, <1>12, <1>13, <1>14, <1>15, <1>16, <1>17, <1>18, KeepStays

\* A column is put into the block that was written.
LEMMA UpdateKeep ==
  ASSUME ColumnInv, HolderInv, TallyInv, KeepInv, NEW w \in Worker, Update(w)
  PROVE  KeepInv'
<1> USE DEF ColumnInv
<1>1. PICK k \in Key, r \in DOMAIN reqs : \E h \in DOMAIN uk[k].cols : Updates(w, k, r, h) BY UpdateIs
<1>0. PICK h \in DOMAIN uk[k].cols : Updates(w, k, r, h) BY <1>1
<1>2. /\ uk[k].cols[h].id = reqs[r].latest /\ uk[k].cols[h].st \in {"pending", "submitting"}
      /\ Writes(w) /\ (\E i \in Todo(w) : wk[w].list[i] = r)
      /\ DOMAIN uk'[k].cols = DOMAIN uk[k].cols
      /\ \A i \in DOMAIN uk[k].cols : i # h => uk'[k].cols[i] = uk[k].cols[i]
      /\ Alike([uk[k].cols[h] EXCEPT !.ikey = wk[w].ikey], uk'[k].cols[h]) /\ uk'[k].cols[h].st = "stored"
      /\ \A j \in Key : j # k => uk'[j] = uk[j]
      /\ \A y \in DOMAIN reqs : y # r => reqs'[y] = reqs[y]
      /\ \A v \in Worker :
            /\ Writes(v)' => Writes(v) /\ wk'[v].ikey = wk[v].ikey
            /\ Writes(v)' => \A i \in Todo(v)' :
                                i \in Todo(v) /\ wk'[v].list[i] = wk[v].list[i] /\ wk[v].list[i] # r
      /\ UNCHANGED <<hist, fl, sktdf, blk, ikeys, lt>>
  BY <1>0 DEF Updates, blockVars
<1>3. UNCHANGED <<kb, kbm, skt>> BY DEF Update, devVars
<1>4. PICK n, b : n = reqs[r].latest /\ b = wk[w].ikey OBVIOUS
<1>5. /\ uk'[k].cols[h].id = n /\ uk'[k].cols[h].ikey = b /\ ~uk'[k].cols[h].holding
      /\ uk'[k].cols[h].del = hist[n].del
  <2>1. uk[k].cols[h] \in ColumnNode BY ColumnTyped
  <2> DEFINE o == uk[k].cols[h]
             y == [o EXCEPT !.ikey = b]
  <2>2. o \in ColumnNode /\ o.id = n BY <1>2, <1>4, <2>1
  <2>3. ~o.holding /\ o.del = hist[o.id].del
    BY <1>2 DEF HolderInv, FreshInv, Fresh, KeepInv, FlagInv
  <2>4. Alike(y, uk'[k].cols[h]) BY <1>2, <1>4
  <2> HIDE DEF o
  <2>5. y.id = o.id /\ y.ikey = b /\ y.holding = o.holding /\ y.del = o.del BY <2>2 DEF ColumnNode
  <2> HIDE DEF y
  <2> QED BY <2>2, <2>3, <2>4, <2>5 DEF Alike
<1>6. Submitted(n, b)
  <2> HIDE DEF Todo, Writes
  <2> QED BY <1>2, <1>4 DEF Submitted
<1>7. b \in DOMAIN blk /\ (hist[n].del \/ Held(n, b))
  <2>1. EntriesInv BY DEF HolderInv
  <2>2. n \in DOMAIN hist BY <1>6, <2>1, UsersWrite
  <2> QED BY <1>4, <1>6, <2>2 DEF KeepInv, KeptWrites
<1>8. ASSUME NEW j \in Key, NEW i \in DOMAIN uk'[j].cols, ~(j = k /\ i = h)
      PROVE  i \in DOMAIN uk[j].cols /\ uk'[j].cols[i] = uk[j].cols[i]
  BY <1>2, <1>8
<1>9. ASSUME NEW j \in Key, NEW i \in DOMAIN uk[j].cols
      PROVE  /\ i \in DOMAIN uk'[j].cols
             /\ uk[j].cols[i].st = "stored" => uk'[j].cols[i] = uk[j].cols[i]
  BY <1>2
<1>10. \A j \in Key : \A i \in DOMAIN uk'[j].cols :
          uk'[j].cols[i].st = "stored" => OldColumn(uk'[j].cols[i])
  <2> TAKE j \in Key
  <2> TAKE i \in DOMAIN uk'[j].cols
  <2>1. CASE j = k /\ i = h BY <1>5, <1>6, <1>7, <2>1 DEF OldColumn, InBlock, Held
  <2>2. CASE ~(j = k /\ i = h)
    <3>1. i \in DOMAIN uk[j].cols /\ uk'[j].cols[i] = uk[j].cols[i] BY <1>8, <2>2
    <3> QED BY <3>1 DEF KeepInv, KeptColumns, OldColumn, Attached, HasStored
  <2> QED BY <2>1, <2>2
<1>11. HoldInv'
  <2>1. ASSUME NEW j \in Key, NEW i \in DOMAIN uk'[j].cols, uk'[j].cols[i].holding
        PROVE  \/ uk'[j].cols[i].recdel \/ uk'[j].cols[i].del
               \/ \E m \in DOMAIN uk'[j].cols :
                     uk'[j].cols[m].st = "stored" /\ uk'[j].cols[i].id < uk'[j].cols[m].id
    <3>1. ~(j = k /\ i = h) BY <1>5, <2>1
    <3>2. i \in DOMAIN uk[j].cols /\ uk'[j].cols[i] = uk[j].cols[i] BY <1>8, <2>1, <3>1
    <3>3. \/ uk[j].cols[i].recdel \/ uk[j].cols[i].del
          \/ \E m \in DOMAIN uk[j].cols : uk[j].cols[m].st = "stored" /\ uk[j].cols[i].id < uk[j].cols[m].id
      BY <2>1, <3>2 DEF KeepInv, HoldInv, HoldOK
    <3> QED BY <1>9, <3>2, <3>3
  <2> QED BY <2>1 DEF HoldInv, HoldOK
<1>12. FlagInv'
  <2>1. ASSUME NEW j \in Key, NEW i \in DOMAIN uk'[j].cols, uk'[j].cols[i].st # "stored"
        PROVE  uk'[j].cols[i].del = hist[uk'[j].cols[i].id].del
    <3>1. ~(j = k /\ i = h) BY <1>2, <2>1
    <3>2. i \in DOMAIN uk[j].cols /\ uk'[j].cols[i] = uk[j].cols[i] BY <1>8, <2>1, <3>1
    <3> QED BY <2>1, <3>2 DEF KeepInv, FlagInv
  <2>2. hist' = hist BY <1>2
  <2> QED BY <2>1, <2>2 DEF FlagInv
<1>13. KeptDels'
  <2>1. UNCHANGED <<lt, blk, ikeys>> BY <1>2
  <2> QED BY <2>1 DEF KeepInv, KeptDels, Used
<1>14. SafeDeletes BY <1>2, <1>3, SafeStill
<1>15. UNCHANGED <<fl, sktdf, skt, hist>> BY <1>2, <1>3
<1>16. RowsFromHeld BY <1>15 DEF RowsFromHeld, KeepInv, KeptRows
<1>17. DeviceFrom BY <1>15 DEF DeviceFrom, KeepInv, KeptDevice, OnDevice, Building
<1>18. ASSUME NEW id, NEW c, Attached(id, c) PROVE Attached(id, c)'
  <2>1. PICK j \in Key : \E i \in DOMAIN uk[j].cols :
           uk[j].cols[i].id = id /\ uk[j].cols[i].st = "stored" /\ uk[j].cols[i].ikey = c
    BY <1>18 DEF Attached, HasStored
  <2> QED BY <1>9, <2>1 DEF Attached, HasStored
<1>19. EntriesFrom BY <1>15, <1>18 DEF EntriesFrom, KeepInv, KeptEntries, EntryKept
<1>20. \A v \in Worker : \A i \in Todo(v) : wk[v].list[i] \in DOMAIN reqs BY DEF WorkerPlaces
<1>21. ASSUME NEW id, NEW c, Submitted(id, c)' PROVE Submitted(id, c)
  <2>1. PICK v \in Worker : /\ Writes(v)' /\ wk'[v].ikey = c
                            /\ \E i \in Todo(v)' : reqs'[wk'[v].list[i]].latest = id
    BY <1>21 DEF Submitted
  <2>2. PICK i \in Todo(v)' : reqs'[wk'[v].list[i]].latest = id BY <2>1
  <2>3. /\ i \in Todo(v) /\ wk'[v].list[i] = wk[v].list[i] /\ wk[v].list[i] # r
        /\ Writes(v) /\ wk'[v].ikey = wk[v].ikey
    BY <1>2, <2>1, <2>2
  <2>4. reqs[wk[v].list[i]].latest = id BY <1>2, <1>20, <2>2, <2>3
  <2> HIDE DEF Writes, Todo
  <2> QED BY <2>1, <2>3, <2>4 DEF Submitted
<1>22. KeptWrites' BY <1>14, <1>15, <1>21, WritesStay
<1>23. \A c \in DOMAIN blk : c \in DOMAIN blk' => blk'[c].ref \in Nat /\ blk'[c].ref <= blk[c].ref
  BY <1>2, RefNat
<1>24. DOMAIN hist \subseteq DOMAIN hist' /\ \A id \in DOMAIN hist : hist'[id] = hist[id] BY <1>15
<1> HIDE DEF ColumnInv
<1> QED BY <1>10, <1>11, <1>12, <1>13, <1>14, <1>16, <1>17, <1>19, <1>22, <1>23, <1>24, KeepStays

\* A flush that leaves the columns alone.
LEMMA TableKeep ==
  ASSUME ColumnInv, HolderInv, TallyInv, KeepInv, UNCHANGED <<uk, reqs, hist, wk, ikeys, lt>>,
         SafeDeletes, RowsFromHeld, DeviceFrom, DOMAIN blk' = DOMAIN blk,
         \A v \in Worker : \A e \in fl'[v].ents : \E f \in fl[v].ents :
            f.id = e.id /\ f.ikey = e.ikey /\ f.kind = e.kind,
         \A b \in DOMAIN blk : blk'[b].ref \in Nat /\ blk'[b].ref <= blk[b].ref
  PROVE  KeepInv'
<1>1. HoldInv' /\ FlagInv' BY DEF KeepInv, HoldInv, FlagInv
<1>2. KeptDels' BY DEF KeepInv, KeptDels, Used
<1>3. \A k \in Key : \A i \in DOMAIN uk'[k].cols :
         uk'[k].cols[i].st = "stored" => OldColumn(uk'[k].cols[i])
  BY DEF KeepInv, KeptColumns, OldColumn, Attached, HasStored
<1>4. \A id, c : /\ Attached(id, c)' <=> Attached(id, c)
                 /\ Submitted(id, c)' <=> Submitted(id, c)
  BY DEF Attached, Submitted, Writes, Todo, From
<1>5. EntriesFrom
  <2>1. ASSUME NEW v \in Worker, NEW e \in fl'[v].ents
        PROVE  /\ \E f \in fl[v].ents : f.id = e.id /\ f.ikey = e.ikey /\ f.kind = e.kind
               /\ e.kind = "itr" => Attached(e.id, e.ikey)'
    <3>1. PICK f \in fl[v].ents : f.id = e.id /\ f.ikey = e.ikey /\ f.kind = e.kind BY <2>1
    <3>2. EntryKept(f) BY DEF KeepInv, KeptEntries
    <3> QED BY <1>4, <3>1, <3>2 DEF EntryKept
  <2> QED BY <2>1 DEF EntriesFrom
<1>6. KeptWrites' BY <1>4, WritesStay
<1> QED BY <1>1, <1>2, <1>3, <1>5, <1>6, KeepStays

\* Rows on the device whose table is not being written.
LEMMA DeviceStays ==
  ASSUME ColumnInv, HolderInv, KeepInv, NEW w \in Worker, \A v \in Worker : v # w => fl'[v] = fl[v],
         NEW t \in Table, NEW k \in DOMAIN skt[t],
         fl[w].pc # "build" \/ fl[w].t # t
           \/ (fl'[w].pc = "build" /\ fl[w].ents \subseteq fl'[w].ents),
         NEW r, r = skt[t][k]
  PROVE  /\ r.id \in DOMAIN hist /\ hist[r.id].key = k /\ TableOf[k] = t
         /\ r.ikey \in DOMAIN blk /\ r.ikey \in kb
         /\ \/ r.id \in blk[r.ikey].bits
            \/ Building(r.id, r.ikey) /\ \E v \in Worker :
                  fl'[v].pc = "build" /\ \E e \in fl'[v].ents : e.id = r.id /\ e.ikey = r.ikey
<1>1. /\ r.id \in DOMAIN hist /\ hist[r.id].key = k /\ TableOf[k] = t /\ OnDevice(r)
  BY DEF KeepInv, KeptDevice
<1>2. r.ikey \in DOMAIN blk /\ r.ikey \in kb BY <1>1 DEF OnDevice
<1>3. CASE r.id \in blk[r.ikey].bits BY <1>1, <1>2, <1>3
<1>4. CASE Building(r.id, r.ikey)
  <2>1. PICK v \in Worker : fl[v].pc = "build" /\ \E e \in fl[v].ents : e.id = r.id /\ e.ikey = r.ikey
    BY <1>4 DEF Building
  <2>2. PICK e \in fl[v].ents : e.id = r.id /\ e.ikey = r.ikey BY <2>1
  <2>3. k \in fl[v].keys BY <1>1, <2>2 DEF HolderInv, EntriesInv
  <2>4. TableOf[k] = fl[v].t BY <2>3 DEF ColumnInv, FlushesInv
  <2>5. v = w => fl'[w].pc = "build" /\ fl[w].ents \subseteq fl'[w].ents BY <1>1, <2>1, <2>4
  <2>6. fl'[v].pc = "build" /\ e \in fl'[v].ents BY <2>1, <2>2, <2>5
  <2> QED BY <1>1, <1>2, <1>4, <2>2, <2>6
<1> QED BY <1>1, <1>3, <1>4 DEF OnDevice

\* The tables on the device are as they were.
LEMMA SameDevice ==
  ASSUME ColumnInv, HolderInv, KeepInv, NEW w \in Worker, \A v \in Worker : v # w => fl'[v] = fl[v],
         skt' = skt, fl[w].pc # "build" \/ (fl'[w].pc = "build" /\ fl[w].ents \subseteq fl'[w].ents)
  PROVE  DeviceFrom
<1>1. skt = [t \in Table |-> skt[t]] BY DEF KeepInv, KeptDevice
<1> QED BY <1>1, DeviceStays DEF DeviceFrom

\* A flush starts: rows of keys that are not in memory are copied.
LEMMA StartKeep ==
  ASSUME ColumnInv, HolderInv, TallyInv, KeepInv, NEW w \in Worker, NEW t \in Table, FlushStart(w, t)
  PROVE  KeepInv'
<1> DEFINE x == [pc |-> "build", t |-> t, snaps |-> DOMAIN snaps, keys |-> PresentKeys(t),
                 todo |-> PresentKeys(t), ents |-> {}, rows |-> Copied(t)]
<1>1. /\ fl[w].pc = "none" /\ fl' = [fl EXCEPT ![w] = x]
      /\ UNCHANGED <<uk, reqs, hist, wk, ikeys, lt, blk, kb, kbm, skt, sktdf>>
  BY DEF FlushStart, Idle, userVars, blockVars, devVars
<1>2. x.todo = PresentKeys(t) /\ x.ents = {} /\ x.rows = Copied(t) OBVIOUS
<1> HIDE DEF x
<1>3. fl'[w] = x /\ \A v \in Worker : v # w => fl'[v] = fl[v] BY <1>1 DEF ColumnInv, TableType
<1>4. DeviceFrom BY <1>1, <1>3, SameDevice
<1>5. \A k \in DOMAIN Copied(t) :
         Held(Copied(t)[k].id, Copied(t)[k].ikey) /\ k \notin PresentKeys(t)
  <2>1. ASSUME NEW k \in DOMAIN Copied(t)
        PROVE  Held(Copied(t)[k].id, Copied(t)[k].ikey) /\ k \notin PresentKeys(t)
    <3>1. k \in DOMAIN sktdf[t] /\ k \notin PresentKeys(t) /\ Copied(t)[k] = sktdf[TableOf[k]][k]
      BY <2>1 DEF Copied, Rows, Row
    <3>2. k \in Key BY <3>1 DEF ColumnInv, TableType, IsRows
    <3>3. TableOf[k] = t BY <3>1, <3>2 DEF ColumnInv, RowsInv
    <3> QED BY <3>1, <3>3 DEF KeepInv, KeptRows
  <2> QED BY <2>1
<1>6. RowsFromHeld
  <2>1. \A s \in Table : \A k \in DOMAIN sktdf'[s] : Held(sktdf'[s][k].id, sktdf'[s][k].ikey)
    BY <1>1 DEF KeepInv, KeptRows
  <2>2. ASSUME NEW v \in Worker
        PROVE  /\ \A k \in DOMAIN fl'[v].rows : Held(fl'[v].rows[k].id, fl'[v].rows[k].ikey)
               /\ fl'[v].todo \cap DOMAIN fl'[v].rows = {}
    <3>1. CASE v = w BY <1>2, <1>3, <1>5, <3>1
    <3>2. CASE v # w BY <1>3, <3>2 DEF KeepInv, KeptRows
    <3> QED BY <3>1, <3>2
  <2> HIDE DEF Held
  <2> QED BY <2>1, <2>2 DEF RowsFromHeld
<1>7. \A v \in Worker : \A e \in fl'[v].ents : \E f \in fl[v].ents :
         f.id = e.id /\ f.ikey = e.ikey /\ f.kind = e.kind
  BY <1>2, <1>3
<1>8. SafeDeletes BY <1>1, SafeStill
<1>9. \A b \in DOMAIN blk : blk'[b].ref \in Nat /\ blk'[b].ref <= blk[b].ref BY <1>1, RefNat
<1> QED BY <1>1, <1>4, <1>6, <1>7, <1>8, <1>9, TableKeep

\* A flush goes on.
LEMMA MovedIs ==
  ASSUME ColumnInv, NEW w \in Worker, NEW pc, Moved(w, pc)
  PROVE  /\ fl'[w].pc = pc /\ fl'[w].ents = fl[w].ents /\ fl'[w].rows = fl[w].rows
         /\ fl'[w].todo = fl[w].todo /\ \A v \in Worker : v # w => fl'[v] = fl[v]
<1> DEFINE x == [fl[w] EXCEPT !.pc = pc]
<1>1. IsFlush(fl[w]) /\ fl = [v \in Worker |-> fl[v]] BY DEF ColumnInv, TableType
<1>2. fl' = [fl EXCEPT ![w] = x] BY DEF Moved
<1>3. x.pc = pc /\ x.ents = fl[w].ents /\ x.rows = fl[w].rows /\ x.todo = fl[w].todo
  BY <1>1 DEF IsFlush
<1> HIDE DEF x
<1>4. fl'[w] = x /\ \A v \in Worker : v # w => fl'[v] = fl[v] BY <1>1, <1>2
<1> QED BY <1>3, <1>4

\* Its rows and entries are as they were.
LEMMA MovedKeep ==
  ASSUME ColumnInv, HolderInv, TallyInv, KeepInv, NEW w \in Worker, NEW pc, Moved(w, pc),
         UNCHANGED <<uk, reqs, hist, wk, ikeys, lt, sktdf>>,
         SafeDeletes, DeviceFrom, DOMAIN blk' = DOMAIN blk,
         \A b \in DOMAIN blk : blk'[b].ref \in Nat /\ blk'[b].ref <= blk[b].ref
  PROVE  KeepInv'
<1>1. /\ fl'[w].ents = fl[w].ents /\ fl'[w].rows = fl[w].rows
      /\ fl'[w].todo = fl[w].todo /\ \A v \in Worker : v # w => fl'[v] = fl[v]
  BY MovedIs
<1>2. \A v \in Worker : /\ fl'[v].ents = fl[v].ents /\ fl'[v].rows = fl[v].rows
                        /\ fl'[v].todo = fl[v].todo
  BY <1>1
<1>3. RowsFromHeld BY <1>2 DEF RowsFromHeld, KeepInv, KeptRows
<1> QED BY <1>2, <1>3, TableKeep

\* The table is written.
LEMMA FlushWriteKeep ==
  ASSUME ColumnInv, HolderInv, TallyInv, KeepInv, NEW w \in Worker, FlushWrite(w)
  PROVE  KeepInv'
<1>1. PICK pc : Moved(w, pc) BY DEF FlushWrite
<1>2. /\ UNCHANGED <<uk, reqs, hist, wk, ikeys, lt, sktdf, blk, kb, kbm>> /\ fl[w].pc = "build"
      /\ skt' = [skt EXCEPT ![fl[w].t] = fl[w].rows]
  BY DEF FlushWrite, FlushVars, userVars
<1>3. \A v \in Worker : v # w => fl'[v] = fl[v] BY <1>1, MovedIs
<1>4. skt = [t \in Table |-> skt[t]] BY DEF KeepInv, KeptDevice
<1>5. fl[w].t \in Table BY <1>2 DEF ColumnInv, FlushesInv
<1>6. /\ skt'[fl[w].t] = fl[w].rows /\ \A t \in Table : t # fl[w].t => skt'[t] = skt[t]
      /\ skt' = [t \in Table |-> skt'[t]]
  BY <1>2, <1>4, <1>5
<1>7. DeviceFrom
  <2>1. ASSUME NEW t \in Table, NEW k \in DOMAIN skt'[t], NEW r, r = skt'[t][k]
        PROVE  /\ r.id \in DOMAIN hist /\ hist[r.id].key = k /\ TableOf[k] = t
               /\ r.ikey \in DOMAIN blk /\ r.ikey \in kb
               /\ \/ r.id \in blk[r.ikey].bits
                  \/ Building(r.id, r.ikey) /\ \E v \in Worker :
                        fl'[v].pc = "build" /\ \E e \in fl'[v].ents : e.id = r.id /\ e.ikey = r.ikey
    <3>1. CASE t = fl[w].t
      <4>1. k \in DOMAIN fl[w].rows /\ r = fl[w].rows[k] BY <1>6, <2>1, <3>1
      <4>2. k \in Key
        <5>1. IsFlush(fl[w]) BY DEF ColumnInv, TableType
        <5> QED BY <4>1, <5>1 DEF IsFlush, IsRows
      <4>3. r.id \in DOMAIN hist /\ hist[r.id].key = k /\ TableOf[k] = fl[w].t
        BY <4>1, <4>2 DEF ColumnInv, RowsInv
      <4>4. Held(r.id, r.ikey) BY <4>1 DEF KeepInv, KeptRows
      <4> QED BY <3>1, <4>3, <4>4 DEF Held
    <3>2. CASE t # fl[w].t
      <4>1. k \in DOMAIN skt[t] /\ r = skt[t][k] BY <1>6, <2>1, <3>2
      <4> QED BY <1>3, <3>2, <4>1, DeviceStays
    <3> QED BY <3>1, <3>2
  <2> HIDE DEF Building
  <2> QED BY <1>6, <2>1 DEF DeviceFrom
<1>8. SafeDeletes BY <1>2, SafeStill
<1>9. \A b \in DOMAIN blk : blk'[b].ref \in Nat /\ blk'[b].ref <= blk[b].ref BY <1>2, RefNat
<1> QED BY <1>1, <1>2, <1>7, <1>8, <1>9, MovedKeep

\* The mark of a flush on a block.
LEMMA UnmarkedIs ==
  ASSUME TallyInv, NEW S, blk' = Unmarked(S)
  PROVE  /\ DOMAIN blk' = DOMAIN blk
         /\ \A b \in DOMAIN blk : blk'[b].bits = blk[b].bits /\ blk'[b].ref = blk[b].ref
<1>1. DOMAIN blk' = DOMAIN blk BY DEF Unmarked
<1>2. ASSUME NEW b \in DOMAIN blk PROVE blk'[b].bits = blk[b].bits /\ blk'[b].ref = blk[b].ref
  <2>1. IsBlock(blk[b]) BY DEF TallyInv, BlockType
  <2>2. PICK o : o = blk[b] OBVIOUS
  <2>3. [o EXCEPT !.wbits = {}].bits = o.bits /\ [o EXCEPT !.wbits = {}].ref = o.ref
    BY <2>1, <2>2, BlockWith
  <2>4. blk'[b] = [o EXCEPT !.wbits = {}] \/ blk'[b] = o BY <2>2 DEF Unmarked
  <2> QED BY <2>2, <2>3, <2>4
<1> QED BY <1>1, <1>2

\* Meta data are written, blocks deleted that hold nothing.
LEMMA FlushDeleteKeep ==
  ASSUME ColumnInv, HolderInv, TallyInv, KeepInv, NEW w \in Worker, FlushDelete(w) \/ FlushUpdate(w)
  PROVE  KeepInv'
<1>1. PICK pc, S : /\ Moved(w, pc) /\ blk' = Unmarked(S)
                   /\ \/ fl[w].pc = "delete" /\ S = Mine(w, {"del"}) /\ kbm' = kbm \ S /\ kb' = kb \ S
                      \/ fl[w].pc = "update" /\ kbm \subseteq kbm' /\ kb' = kb
  BY DEF FlushDelete, FlushUpdate
<1>2. UNCHANGED <<uk, reqs, hist, wk, ikeys, lt, sktdf, skt>>
  BY DEF FlushDelete, FlushUpdate, FlushVars, userVars
<1>3. /\ DOMAIN blk' = DOMAIN blk
      /\ \A b \in DOMAIN blk : blk'[b].bits = blk[b].bits /\ blk'[b].ref = blk[b].ref
  BY <1>1, UnmarkedIs
<1>4. ASSUME NEW b \in DOMAIN blk, fl[w].pc = "delete", b \in Mine(w, {"del"}) PROVE ~Reached(b)
  <2>0. EntriesInv BY DEF HolderInv
  <2>1. PICK e \in fl[w].ents : e.kind = "del" /\ e.ikey = b BY <1>4 DEF Mine
  <2>2. e.id \in Users(b) /\ Removed(e.id, b) BY <2>0, <2>1, EntryUses
  <2>3. blk[b].bits = {} /\ blk[b].ref <= 1 BY <2>1 DEF KeepInv, KeptEntries, EntryKept
  <2>4. Users(b) = {e.id} BY <2>2, <2>3, RefNat
  <2>5. ASSUME NEW id, Attached(id, b) \/ Submitted(id, b) PROVE FALSE
    <3>1. id = e.id BY <2>0, <2>4, <2>5, UsersHas
    <3> QED BY <2>0, <2>2, <2>5, <3>1, PartsDisjoint
  <2>6. ASSUME NEW id, Building(id, b) PROVE FALSE
    <3>1. PICK v \in Worker : fl[v].pc = "build" /\ \E f \in fl[v].ents : f.id = id /\ f.ikey = b
      BY <2>6 DEF Building
    <3>2. PICK f \in fl[v].ents : f.id = id /\ f.ikey = b BY <3>1
    <3>3. f.id = e.id BY <2>0, <2>4, <3>2, EntryUses
    <3>4. v = w BY <2>0, <3>3, OneEntry DEF ColumnInv
    <3> QED BY <1>4, <3>1, <3>4
  <2> QED BY <2>3, <2>5, <2>6 DEF Reached
<1>5. SafeDeletes
  <2>1. ASSUME NEW b \in DOMAIN blk, Reached(b)
        PROVE  (b \in kb => b \in kb') /\ (b \in kbm => b \in kbm')
    <3> HIDE DEF Reached
    <3> QED BY <1>1, <1>4, <2>1
  <2> HIDE DEF Reached
  <2> QED BY <1>3, <2>1 DEF SafeDeletes
<1>6. \A v \in Worker : v # w => fl'[v] = fl[v] BY <1>1, MovedIs
<1>7. DeviceFrom BY <1>1, <1>2, <1>6, SameDevice
<1>8. \A b \in DOMAIN blk : blk'[b].ref \in Nat /\ blk'[b].ref <= blk[b].ref BY <1>3, RefNat
<1> QED BY <1>1, <1>2, <1>3, <1>5, <1>7, <1>8, MovedKeep

\* A flush gives up an entry.
LEMMA ReleaseKeep ==
  ASSUME ColumnInv, HolderInv, TallyInv, KeepInv, NEW w \in Worker, ReleaseNRS(w) \/ ReleaseRef(w)
  PROVE  KeepInv'
<1>0. EntriesInv BY DEF HolderInv
<1>1. /\ UNCHANGED <<uk, reqs, hist, wk, ikeys, lt, sktdf, skt, kb, kbm>>
      /\ fl[w].ents # {} /\ fl[w].pc = "release"
  <2>1. CASE ReleaseNRS(w) BY <2>1 DEF ReleaseNRS, FlushVars, userVars, devVars
  <2>2. CASE ReleaseRef(w) BY <2>2 DEF ReleaseRef, FlushVars, userVars, devVars
  <2> QED BY <2>1, <2>2
<1>2. PICK e \in fl[w].ents : e = FirstEntry(w) BY <1>0, <1>1, FirstEntryIs
<1>3. /\ IsEntry(e) /\ e.ikey \in DOMAIN blk /\ e.id \in Users(e.ikey)
  BY <1>0, EntryUses DEF EntriesInv
<1>4. PICK f : f = [e EXCEPT !.dec = FALSE] OBVIOUS
<1>5. f.id = e.id /\ f.ikey = e.ikey /\ f.kind = e.kind BY <1>3, <1>4 DEF IsEntry
<1>6. PICK X : X \subseteq fl[w].ents \cup {f} /\ fl' = [fl EXCEPT ![w].ents = X]
  <2>1. CASE ReleaseNRS(w) BY <1>2, <1>4, <2>1 DEF ReleaseNRS
  <2>2. CASE ReleaseRef(w) BY <1>2, <2>2 DEF ReleaseRef
  <2> QED BY <2>1, <2>2
<1>7. /\ fl'[w].ents = X /\ fl'[w].rows = fl[w].rows /\ fl'[w].todo = fl[w].todo
      /\ \A v \in Worker : v # w => fl'[v] = fl[v]
  <2> DEFINE x == [fl[w] EXCEPT !.ents = X]
  <2>1. IsFlush(fl[w]) /\ fl = [v \in Worker |-> fl[v]] BY DEF ColumnInv, TableType
  <2>2. fl' = [fl EXCEPT ![w] = x] BY <1>6
  <2>3. x.ents = X /\ x.rows = fl[w].rows /\ x.todo = fl[w].todo BY <2>1 DEF IsFlush
  <2> HIDE DEF x
  <2>4. fl'[w] = x /\ \A v \in Worker : v # w => fl'[v] = fl[v] BY <2>1, <2>2
  <2> QED BY <2>3, <2>4
<1>8. \A v \in Worker : \A g \in fl'[v].ents : \E d \in fl[v].ents :
         d.id = g.id /\ d.ikey = g.ikey /\ d.kind = g.kind
  BY <1>5, <1>6, <1>7
<1>9. \A b \in DOMAIN blk : blk[b].ref \in Nat /\ (blk[b].ref = 0 => Users(b) = {}) BY RefNat
<1>10. /\ DOMAIN blk' = DOMAIN blk
       /\ \A b \in DOMAIN blk : /\ blk'[b].bits = blk[b].bits
                                /\ blk'[b].ref \in Nat /\ blk'[b].ref <= blk[b].ref
  <2>1. blk = [b \in DOMAIN blk |-> blk[b]] /\ \A b \in DOMAIN blk : IsBlock(blk[b])
    BY DEF TallyInv, BlockType
  <2>2. PICK x, y : /\ x = blk[e.ikey] /\ (blk' = blk \/ blk' = [blk EXCEPT ![e.ikey] = y])
                    /\ y = [x EXCEPT !.nrs = x.nrs - 1] \/ y = [x EXCEPT !.ref = x.ref - 1]
    <3>1. CASE ReleaseNRS(w)
      <4>1. blk' = [blk EXCEPT ![e.ikey] = [blk[e.ikey] EXCEPT !.nrs = blk[e.ikey].nrs - 1]]
        BY <1>2, <3>1 DEF ReleaseNRS
      <4> QED BY <4>1
    <3>2. CASE ReleaseRef(w)
      <4>1. blk' = blk \/ blk' = [blk EXCEPT ![e.ikey] = [blk[e.ikey] EXCEPT !.ref = blk[e.ikey].ref - 1]]
        BY <1>2, <3>2 DEF ReleaseRef
      <4> QED BY <4>1
    <3> QED BY <3>1, <3>2
  <2>3. IsBlock(x) /\ x.ref \in Nat /\ x.ref # 0 BY <1>3, <1>9, <2>1, <2>2
  <2>4. y.bits = x.bits /\ (y.ref = x.ref \/ y.ref = x.ref - 1)
    <3>1. PICK m, n : m = x.nrs - 1 /\ n = x.ref - 1 OBVIOUS
    <3>2. y = [x EXCEPT !.nrs = m] \/ y = [x EXCEPT !.ref = n] BY <2>2, <3>1
    <3>3. CASE y = [x EXCEPT !.nrs = m] BY <2>3, <3>3, BlockWith
    <3>4. CASE y = [x EXCEPT !.ref = n]
      <4>1. y.bits = x.bits /\ y.ref = n BY <2>3, <3>4, BlockWith
      <4> QED BY <3>1, <4>1
    <3> QED BY <3>2, <3>3, <3>4
  <2>5. y.ref \in Nat /\ y.ref <= x.ref BY <2>3, <2>4
  <2>6. /\ DOMAIN blk' = DOMAIN blk
        /\ \A b \in DOMAIN blk : blk'[b] = blk[b] \/ (b = e.ikey /\ blk'[b] = y)
    BY <2>1, <2>2
  <2> QED BY <1>9, <2>2, <2>4, <2>5, <2>6
<1>11. SafeDeletes BY <1>1, <1>10 DEF SafeDeletes
<1>12. DeviceFrom BY <1>1, <1>7, SameDevice
<1>13. RowsFromHeld
  <2>1. \A v \in Worker : fl'[v].rows = fl[v].rows /\ fl'[v].todo = fl[v].todo BY <1>7
  <2> QED BY <1>1, <2>1 DEF RowsFromHeld, KeepInv, KeptRows
<1> QED BY <1>1, <1>8, <1>10, <1>11, <1>12, <1>13, TableKeep

\* A flush ends: the new rows are in place, clean keys leave the memory.
LEMMA EndKeep ==
  ASSUME ColumnInv, HolderInv, TallyInv, EndInv, KeepInv, NEW w \in Worker, FlushEnd(w)
  PROVE  KeepInv'
<1>1. PICK E, t : E = Evicted(w) /\ t = fl[w].t OBVIOUS
<1>2. /\ UNCHANGED <<reqs, hist, wk, ikeys, lt, skt, kb, kbm>>
      /\ fl[w].pc \in {"end", "release"}
      /\ sktdf' = [sktdf EXCEPT ![t] = fl[w].rows]
      /\ uk' = [k \in Key |-> IF k \in E THEN NoUserKey ELSE uk[k]]
      /\ blk' = [b \in DOMAIN blk |-> [blk[b] EXCEPT !.ref = @ - References(b, E)]]
      /\ fl' = [fl EXCEPT ![w] = NoFlush]
  BY <1>1 DEF FlushEnd, devVars
<1>3. \A k \in Key : IF k \in E THEN DOMAIN uk'[k].cols = {} ELSE uk'[k] = uk[k] BY <1>2, NoUserKeyIs
<1>4. /\ fl'[w].ents = {} /\ DOMAIN fl'[w].rows = {}
      /\ \A v \in Worker : v # w => fl'[v] = fl[v]
      /\ sktdf'[t] = fl[w].rows /\ \A u \in Table : u # t => sktdf'[u] = sktdf[u]
  BY <1>1, <1>2 DEF ColumnInv, TableType, FlushesInv, NoFlush, Empty
<1>5. HoldInv' /\ FlagInv'
  <2>1. ASSUME NEW k \in Key, NEW i \in DOMAIN uk'[k].cols PROVE uk'[k] = uk[k] BY <1>3, <2>1
  <2>2. HoldInv' BY <2>1 DEF KeepInv, HoldInv, HoldOK
  <2>3. hist' = hist BY <1>2
  <2>4. FlagInv' BY <2>1, <2>3 DEF KeepInv, FlagInv
  <2> QED BY <2>2, <2>4
<1>6. /\ DOMAIN blk' = DOMAIN blk
      /\ \A b \in DOMAIN blk : /\ blk'[b].bits = blk[b].bits
                               /\ blk'[b].ref \in Nat /\ blk'[b].ref <= blk[b].ref
  <2>1. DOMAIN blk' = DOMAIN blk BY <1>2
  <2>2. ASSUME NEW b \in DOMAIN blk
        PROVE  /\ blk'[b].bits = blk[b].bits /\ blk'[b].ref \in Nat /\ blk'[b].ref <= blk[b].ref
    <3> DEFINE x == blk[b]
               n == x.ref - References(b, E)
    <3>1. blk'[b] = [x EXCEPT !.ref = n] BY <1>2
    <3>2. IsBlock(x) BY DEF TallyInv, BlockType
    <3>3. /\ References(b, E) = Cardinality(Evictees(b, E))
          /\ \A id \in Evictees(b, E) : id \in DOMAIN hist /\ Attached(id, b)
      BY <1>1, EvicteesCount
    <3>4. Evictees(b, E) \subseteq Users(b) BY <3>3 DEF Users
    <3>5. Users(b) \in SUBSET DOMAIN hist BY DEF Users
    <3>6. IsFiniteSet(Users(b)) BY <3>5, WritesFinite DEF ColumnInv
    <3>7. Cardinality(Evictees(b, E)) \in Nat /\ Cardinality(Users(b)) \in Nat
          /\ Cardinality(Evictees(b, E)) <= Cardinality(Users(b))
      BY <3>4, <3>6, FS_Subset, FS_CardinalityType
    <3>8. x.ref = Cardinality(Users(b)) BY DEF TallyInv, RefInv
    <3>9. n \in Nat /\ n <= x.ref BY <3>3, <3>7, <3>8
    <3> HIDE DEF x, n
    <3>10. blk'[b].bits = x.bits /\ blk'[b].ref = n BY <3>1, <3>2, BlockWith
    <3> QED BY <3>9, <3>10 DEF x
  <2> QED BY <2>1, <2>2
<1>7. SafeDeletes BY <1>2, <1>6 DEF SafeDeletes
<1>8. DeviceFrom BY <1>2, <1>4, SameDevice
<1>9. RowsFromHeld
  <2>1. ASSUME NEW u \in Table, NEW k \in DOMAIN sktdf'[u] PROVE Held(sktdf'[u][k].id, sktdf'[u][k].ikey)
    <3>1. CASE u = t BY <1>4, <2>1, <3>1 DEF KeepInv, KeptRows
    <3>2. CASE u # t BY <1>4, <2>1, <3>2 DEF KeepInv, KeptRows
    <3> QED BY <3>1, <3>2
  <2>2. ASSUME NEW v \in Worker
        PROVE  /\ \A k \in DOMAIN fl'[v].rows : Held(fl'[v].rows[k].id, fl'[v].rows[k].ikey)
               /\ fl'[v].todo \cap DOMAIN fl'[v].rows = {}
    <3>1. CASE v = w BY <1>4, <3>1
    <3>2. CASE v # w BY <1>4, <3>2 DEF KeepInv, KeptRows
    <3> QED BY <3>1, <3>2
  <2> HIDE DEF Held
  <2> QED BY <2>1, <2>2 DEF RowsFromHeld
<1>10. EntriesFrom
  <2>1. ASSUME NEW v \in Worker, NEW e \in fl'[v].ents
        PROVE  e \in fl[v].ents /\ (e.kind = "itr" => Attached(e.id, e.ikey)')
    <3>1. v # w /\ fl'[v] = fl[v] /\ e \in fl[v].ents BY <1>4, <2>1
    <3>2. e.kind = "itr" => Attached(e.id, e.ikey) BY <3>1 DEF KeepInv, KeptEntries, EntryKept
    <3>3. ASSUME Attached(e.id, e.ikey) PROVE Attached(e.id, e.ikey)'
      <4>1. PICK k \in Key : HasStored(uk[k].cols, e.id, e.ikey) BY <3>3 DEF Attached
      <4>2. hist[e.id].key = k BY <4>1 DEF HasStored, ColumnInv, ColumnsInv
      <4>3. k \in fl[v].keys BY <3>1, <4>2 DEF HolderInv, EntriesInv
      <4>4. k \notin E
        <5>1. SUFFICES ASSUME k \in E PROVE FALSE OBVIOUS
        <5>2. k \in fl[w].keys BY <1>1, <5>1 DEF Evicted, InKeymap
        <5>3. fl[v].t = fl[w].t BY <4>3, <5>2 DEF ColumnInv, FlushesInv
        <5>4. fl[v].pc # "none"
          <6>1. fl[v].pc = "none" => fl[v].ents = {} BY DEF ColumnInv, FlushesInv, NoFlush
          <6> QED BY <3>1, <6>1
        <5> QED BY <1>2, <3>1, <5>3, <5>4 DEF ColumnInv, FlushesInv
      <4>5. uk'[k] = uk[k] BY <1>3, <4>4
      <4> QED BY <4>1, <4>5 DEF Attached
    <3> QED BY <3>1, <3>2, <3>3
  <2> QED BY <2>1 DEF EntriesFrom
<1>11. \A k \in Key : \A i \in DOMAIN uk'[k].cols :
          uk'[k].cols[i].st = "stored" => OldColumn(uk'[k].cols[i])
  <2> TAKE k \in Key
  <2> TAKE i \in DOMAIN uk'[k].cols
  <2>1. uk'[k] = uk[k] BY <1>3
  <2> QED BY <2>1 DEF KeepInv, KeptColumns, OldColumn, Attached, HasStored
<1>12. KeptDels'
  <2>1. UNCHANGED <<lt, ikeys>> BY <1>2
  <2> QED BY <1>6, <2>1 DEF KeepInv, KeptDels, Used
<1>13. \A id, b : Submitted(id, b)' => Submitted(id, b)
  <2>1. UNCHANGED <<reqs, wk>> BY <1>2
  <2> QED BY <2>1 DEF Submitted, Writes, Todo, From
<1>14. DOMAIN hist \subseteq DOMAIN hist' /\ \A id \in DOMAIN hist : hist'[id] = hist[id] BY <1>2
<1>15. KeptWrites' BY <1>7, <1>13, <1>14, WritesStay
<1> QED BY <1>5, <1>6, <1>7, <1>8, <1>9, <1>10, <1>11, <1>12, <1>14, <1>15, KeepStays

\* What a scan finds of a column: dropped or not, and why it is not valid.
LEMMA VerdictWhy ==
  ASSUME NEW cols \in Seq(ColumnNode), NEW S, NEW i \in DOMAIN cols, cols[i].st = "stored"
  PROVE  /\ Verdict(cols, S, i) = "valid" =>
               ~cols[i].del /\ ~cols[i].recdel /\ \A j \in 1..(i - 1) : cols[j].st # "stored"
         /\ Verdict(cols, S, i) # "valid" =>
               \/ cols[i].del \/ cols[i].recdel
               \/ \E j \in 1..(i - 1) : cols[j].st = "stored"
               \/ \E j \in 1..(i - 1) : Verdict(cols, S, j) = "drop"
<1>1. ~Skipped(cols[i]) BY DEF Skipped
<1> DEFINE drop(j) == cols[j].st = "merged" /\ ~Seen(cols, S, 1, j)
<1>2. \A j \in 1..(i - 1) : drop(j) => Verdict(cols, S, j) = "drop"
  BY DEF Verdict, Skipped, IsFirstStored
<1>3. IsFirstStored(cols, i) <=> \A j \in 1..(i - 1) : cols[j].st # "stored" BY DEF IsFirstStored
<1>4. Verdict(cols, S, i) = "valid" <=>
        /\ IsFirstStored(cols, i) /\ ~cols[i].del /\ ~cols[i].recdel
        /\ \A j \in 1..(i - 1) : ~drop(j)
  BY <1>1 DEF Verdict
<1> HIDE DEF drop
<1> QED BY <1>2, <1>3, <1>4

\* Columns that are held are held for a reason after a scan.
LEMMA HoldScan ==
  ASSUME NEW cols \in Seq(ColumnNode), NEW S, HoldOK(cols),
         \A i, j \in DOMAIN cols : i < j => cols[j].id < cols[i].id
  PROVE  HoldOK(Rest(cols, S))
<1> DEFINE B == Rest(cols, S)
<1>1. PICK f : ScannedList(cols, S, B, f) BY RestFacts
<1> HIDE DEF B
<1>2. /\ \A m \in DOMAIN B : /\ f[m] \in DOMAIN cols /\ B[m] = Scanned(cols, S, f[m])
                             /\ Verdict(cols, S, f[m]) # "drop"
      /\ \A i \in DOMAIN cols : Verdict(cols, S, i) # "drop" => \E m \in DOMAIN B : f[m] = i
  BY <1>1 DEF ScannedList, Thinned
<1>3. ASSUME NEW m \in DOMAIN B, B[m].holding
      PROVE  \/ B[m].recdel \/ B[m].del
             \/ \E n \in DOMAIN B : B[n].st = "stored" /\ B[m].id < B[n].id
  <2>1. PICK i \in DOMAIN cols : i = f[m] /\ B[m] = Scanned(cols, S, i) BY <1>2
  <2>2. /\ B[m].id = cols[i].id /\ B[m].del = cols[i].del
        /\ B[m].recdel <=> cols[i].recdel \/ \E j \in 1..(i - 1) : Verdict(cols, S, j) = "drop"
        /\ B[m].holding =>
              cols[i].holding \/ (cols[i].st = "stored" /\ Verdict(cols, S, i) = "iter")
    BY <2>1, ScannedFields
  <2>3. ASSUME NEW j \in DOMAIN cols, j \in 1..(i - 1), cols[j].st = "stored"
        PROVE  B[m].recdel \/ \E n \in DOMAIN B : B[n].st = "stored" /\ B[m].id < B[n].id
    <3>1. CASE Verdict(cols, S, j) = "drop" BY <2>2, <2>3, <3>1
    <3>2. CASE Verdict(cols, S, j) # "drop"
      <4>1. PICK n \in DOMAIN B : f[n] = j BY <1>2, <3>2
      <4>2. B[n].id = cols[j].id /\ B[n].st = cols[j].st
        <5>1. B[n] = Scanned(cols, S, j) BY <1>2, <4>1
        <5> QED BY <5>1, ScannedFields
      <4>3. j < i BY <2>3
      <4>4. cols[i].id < cols[j].id BY <4>3
      <4> QED BY <2>2, <2>3, <4>2, <4>4
    <3> QED BY <3>1, <3>2
  <2>4. \A j \in 1..(i - 1) : j \in DOMAIN cols
    <3>1. DOMAIN cols = 1..Len(cols) /\ Len(cols) \in Nat OBVIOUS
    <3> QED BY <3>1
  <2>5. CASE cols[i].holding
    <3>1. CASE cols[i].recdel \/ cols[i].del BY <2>2, <3>1
    <3>2. ASSUME NEW j \in DOMAIN cols, cols[j].st = "stored", cols[i].id < cols[j].id
          PROVE  B[m].recdel \/ \E n \in DOMAIN B : B[n].st = "stored" /\ B[m].id < B[n].id
      <4>0. cols[i] \in ColumnNode /\ cols[j] \in ColumnNode OBVIOUS
      <4>1. DOMAIN cols = 1..Len(cols) /\ Len(cols) \in Nat /\ cols[i].id \in Nat /\ cols[j].id \in Nat
        BY <4>0 DEF ColumnNode
      <4>2. ~(i < j) /\ i # j BY <3>2, <4>1
      <4>3. j \in 1..(i - 1) BY <4>1, <4>2
      <4> QED BY <2>3, <3>2, <4>3
    <3> QED BY <2>5, <3>1, <3>2 DEF HoldOK
  <2>6. CASE cols[i].st = "stored" /\ Verdict(cols, S, i) = "iter"
    <3>1. \/ cols[i].del \/ cols[i].recdel
          \/ \E j \in 1..(i - 1) : cols[j].st = "stored"
          \/ \E j \in 1..(i - 1) : Verdict(cols, S, j) = "drop"
      BY <2>6, VerdictWhy
    <3> QED BY <2>2, <2>3, <2>4, <3>1
  <2> QED BY <1>3, <2>2, <2>5, <2>6
<1> QED BY <1>3 DEF HoldOK, B

\* The list a scan leaves, column by column.
LEMMA RestColumns ==
  ASSUME NEW cols \in Seq(ColumnNode), NEW S, NEW m \in DOMAIN Rest(cols, S)
  PROVE  \E i \in DOMAIN cols :
            LET c == Rest(cols, S)[m] IN
            /\ Verdict(cols, S, i) # "drop"
            /\ c.id = cols[i].id /\ c.st = cols[i].st /\ c.ikey = cols[i].ikey /\ c.del = cols[i].del
            /\ c.st = "stored" =>
                  /\ Verdict(cols, S, i) \in {"valid", "iter"}
                  /\ c.holding <=> cols[i].holding \/ Verdict(cols, S, i) = "iter"
<1> DEFINE B == Rest(cols, S)
<1>1. PICK f : ScannedList(cols, S, B, f) BY RestFacts
<1>0. m \in DOMAIN B OBVIOUS
<1> HIDE DEF B
<1>2. f[m] \in DOMAIN cols /\ B[m] = Scanned(cols, S, f[m]) /\ Verdict(cols, S, f[m]) # "drop"
  BY <1>0, <1>1 DEF ScannedList, Thinned
<1>3. PICK i \in DOMAIN cols : i = f[m] BY <1>2
<1>4. cols[i].st = "stored" => Verdict(cols, S, i) \in {"valid", "iter"}
  BY <1>2, <1>3 DEF Verdict, Skipped
<1>5. PICK c : c = B[m] OBVIOUS
<1>6. /\ c.id = cols[i].id /\ c.st = cols[i].st /\ c.ikey = cols[i].ikey /\ c.del = cols[i].del
      /\ cols[i].st = "stored" => (c.holding <=> cols[i].holding \/ Verdict(cols, S, i) = "iter")
  BY <1>2, <1>3, <1>4, <1>5, ScannedFields
<1> QED BY <1>2, <1>3, <1>4, <1>5, <1>6 DEF B

\* What the scan of key k does to blocks: the bits of columns it takes off are cleared; a
\* row it fetches is counted.
ScansBits(k, cols, S) ==
    /\ DOMAIN blk' = DOMAIN blk
    /\ \A b \in DOMAIN blk :
          /\ blk'[b].bits = blk[b].bits \ Cleared(cols, S, b) /\ blk'[b].ref \in Nat
          /\ blk'[b].ref = blk[b].ref \/ (Fetches(k) /\ b = Row(k).ikey)
    /\ UNCHANGED <<kb, kbm, skt, lt>>

\* A bit is cleared of a column that is not valid and was not held.
LEMMA ClearedIs ==
  ASSUME NEW cols, NEW S, NEW b, NEW id \in Cleared(cols, S, b)
  PROVE  \E i \in DOMAIN cols :
            /\ cols[i].id = id /\ cols[i].st = "stored" /\ cols[i].ikey = b /\ ~cols[i].holding
            /\ Verdict(cols, S, i) \in {"iter", "drop"}
BY DEF Cleared, Hit

\* The scan of a key that is dirty or has no row.
LEMMA BuildBits ==
  ASSUME ColumnInv, TallyInv, NEW w \in Worker, FlushBuild(w), NEW k, k = MinOf(fl[w].todo),
         ~(HasRow(k) /\ ~uk[k].dirty), NEW S, S = fl[w].snaps, NEW cols, cols = Columns(k)
  PROVE  ScansBits(k, cols, S)
<1> DEFINE used == {cols[i].ikey : i \in {j \in DOMAIN cols : cols[j].st = "stored"}}
           fetched(b) == Fetches(k) /\ b = Row(k).ikey
<1>1. /\ blk' = [b \in DOMAIN blk |-> IF b \in used THEN ScannedBlock(w, cols, S, b, fetched(b)) ELSE blk[b]]
      /\ UNCHANGED <<kb, kbm, skt, lt>>
  BY DEF FlushBuild, devVars
<1>2. ASSUME NEW b \in DOMAIN blk
      PROVE  /\ blk'[b].bits = blk[b].bits \ Cleared(cols, S, b) /\ blk'[b].ref \in Nat
             /\ blk'[b].ref = blk[b].ref \/ fetched(b)
  <2>0. IsBlock(blk[b]) /\ blk[b].ref \in Nat BY RefNat DEF TallyInv, BlockType
  <2>1. CASE b \in used
    <3> DEFINE r == IF fetched(b) THEN blk[b].ref + 1 ELSE blk[b].ref
    <3>1. blk'[b] = ScannedWith(w, cols, S, b, r)
      <4>1. blk'[b] = ScannedBlock(w, cols, S, b, fetched(b)) BY <1>1, <2>1
      <4> QED BY <4>1 DEF ScannedBlock, ScannedWith, Recording, Cleared
    <3>2. r \in Nat /\ (r = blk[b].ref \/ fetched(b)) BY <2>0
    <3> HIDE DEF r
    <3>3. PICK x : x = ScannedWith(w, cols, S, b, r) OBVIOUS
    <3>4. x.ref = r /\ x.bits = blk[b].bits \ Cleared(cols, S, b) BY <2>0, <3>3, ScannedBlockIs
    <3> QED BY <3>1, <3>2, <3>3, <3>4
  <2>2. CASE b \notin used
    <3>1. blk'[b] = blk[b] BY <1>1, <2>2
    <3>2. Cleared(cols, S, b) = {}
      <4>1. \A id \in Cleared(cols, S, b) : FALSE BY <2>2, ClearedIs
      <4> QED BY <4>1
    <3> QED BY <2>0, <3>1, <3>2
  <2> QED BY <2>1, <2>2
<1> QED BY <1>1, <1>2 DEF ScansBits

\* The columns of a scan are kept before it, the one of a row too.
LEMMA ScansKept ==
  ASSUME ColumnInv, HolderInv, KeepInv, NEW w \in Worker, NEW k, NEW cols, NEW S, NEW B, NEW E,
         ScansKey(w, k, cols, S, B, E)
  PROVE  /\ HoldOK(cols) /\ \A i, j \in DOMAIN cols : i < j => cols[j].id < cols[i].id
         /\ \A i \in DOMAIN cols : cols[i].st = "stored" => InBlock(cols[i])
         /\ \A i \in DOMAIN cols : cols[i].st # "stored" => cols[i].del = hist[cols[i].id].del
         /\ Fetches(k) => Held(Row(k).id, Row(k).ikey)
<1>1. k \in Key /\ cols = Columns(k) BY DEF ScansKey
<1>2. /\ \A i \in DOMAIN uk[k].cols : i \in DOMAIN cols /\ cols[i] = uk[k].cols[i]
      /\ \A i, j \in DOMAIN cols : i < j => cols[j].id < cols[i].id
  BY <1>1, ColumnsFacts DEF ColumnInv
<1>3. Fetches(k) => Held(Row(k).id, Row(k).ikey)
  <2>1. Fetches(k) => TableOf[k] \in Table /\ k \in DOMAIN sktdf[TableOf[k]]
    BY <1>1, StateAssumption DEF Fetches, HasRow
  <2> HIDE DEF Held
  <2> QED BY <2>1 DEF KeepInv, KeptRows, Row
<1>4. \A i \in DOMAIN cols :
         \/ i \in DOMAIN uk[k].cols
         \/ /\ Fetches(k) /\ cols[i].id = Row(k).id /\ cols[i].ikey = Row(k).ikey
            /\ cols[i].st = "stored" /\ ~cols[i].holding
  <2>1. CASE Fetches(k)
    <3>1. PICK n : n = Len(uk[k].cols) + 1 OBVIOUS
    <3>2. /\ DOMAIN cols = DOMAIN uk[k].cols \cup {n} /\ cols[n].id = Row(k).id
          /\ cols[n].ikey = Row(k).ikey /\ cols[n].st = "stored" /\ ~cols[n].holding
      BY <1>1, <2>1, <3>1, RowColumnIs DEF ColumnInv
    <3> QED BY <2>1, <3>2
  <2>2. CASE ~Fetches(k) BY <1>1, <2>2 DEF Columns
  <2> QED BY <2>1, <2>2
<1>5. HoldOK(cols)
  <2>1. HoldOK(uk[k].cols) BY <1>1 DEF KeepInv, HoldInv
  <2>2. ASSUME NEW i \in DOMAIN cols, cols[i].holding
        PROVE  \/ cols[i].recdel \/ cols[i].del
               \/ \E j \in DOMAIN cols : cols[j].st = "stored" /\ cols[i].id < cols[j].id
    <3>1. i \in DOMAIN uk[k].cols BY <1>4, <2>2
    <3>2. \/ uk[k].cols[i].recdel \/ uk[k].cols[i].del
          \/ \E j \in DOMAIN uk[k].cols :
                uk[k].cols[j].st = "stored" /\ uk[k].cols[i].id < uk[k].cols[j].id
      BY <1>2, <2>1, <2>2, <3>1 DEF HoldOK
    <3> QED BY <1>2, <3>1, <3>2
  <2> QED BY <2>2 DEF HoldOK
<1>6. ASSUME NEW i \in DOMAIN cols, cols[i].st = "stored" PROVE InBlock(cols[i])
  <2>1. CASE i \in DOMAIN uk[k].cols
    <3>1. InBlock(uk[k].cols[i]) BY <1>1, <1>2, <1>6, <2>1 DEF KeepInv, KeptColumns
    <3> QED BY <1>2, <2>1, <3>1
  <2>2. CASE i \notin DOMAIN uk[k].cols
    <3>1. Held(cols[i].id, cols[i].ikey) BY <1>3, <1>4, <2>2
    <3> QED BY <3>1 DEF InBlock, Held
  <2> QED BY <2>1, <2>2
<1>7. \A i \in DOMAIN cols : cols[i].st # "stored" => cols[i].del = hist[cols[i].id].del
  BY <1>1, <1>2, <1>4 DEF KeepInv, FlagInv
<1> QED BY <1>2, <1>3, <1>5, <1>6, <1>7

\* A bit that the scan does not clear.
LEMMA ScansHeld ==
  ASSUME NEW k, NEW cols, NEW S, ScansBits(k, cols, S), NEW id, NEW b, Held(id, b),
         \A i \in DOMAIN cols : cols[i].id = id /\ cols[i].st = "stored" /\ cols[i].ikey = b =>
            cols[i].holding \/ Verdict(cols, S, i) \notin {"iter", "drop"}
  PROVE  Held(id, b)'
<1>1. id \notin Cleared(cols, S, b) BY ClearedIs
<1> QED BY <1>1 DEF Held, ScansBits

\* The lists after a scan.
LEMMA ScansLists ==
  ASSUME ColumnInv, HolderInv, KeepInv, NEW w \in Worker, NEW k, NEW cols, NEW S, NEW E,
         ScansKey(w, k, cols, S, Rest(cols, S), E), ScansBits(k, cols, S)
  PROVE  HoldInv' /\ FlagInv' /\ KeptColumns'
<1> DEFINE B == Rest(cols, S)
<1>1. /\ k \in Key /\ uk'[k].cols = B /\ hist' = hist
      /\ \A j \in Key : j # k => uk'[j].cols = uk[j].cols
  BY DEF ScansKey
<1>2. /\ cols \in Seq(ColumnNode)
      /\ \A i \in DOMAIN cols : cols[i].id \in DOMAIN hist /\ hist[cols[i].id].key = k
      /\ \A i, j \in DOMAIN cols : cols[i].id = cols[j].id => i = j
  BY ScansFrom
<1>3. /\ HoldOK(cols) /\ \A i, j \in DOMAIN cols : i < j => cols[j].id < cols[i].id
      /\ \A i \in DOMAIN cols : cols[i].st = "stored" => InBlock(cols[i])
      /\ \A i \in DOMAIN cols : cols[i].st # "stored" => cols[i].del = hist[cols[i].id].del
  BY ScansKept
<1>4. HoldOK(B) BY <1>2, <1>3, HoldScan
<1>5. ASSUME NEW m \in DOMAIN B
      PROVE  \E i \in DOMAIN cols :
                /\ B[m].id = cols[i].id /\ B[m].st = cols[i].st /\ B[m].ikey = cols[i].ikey
                /\ B[m].del = cols[i].del
                /\ B[m].st = "stored" =>
                      /\ Verdict(cols, S, i) \in {"valid", "iter"}
                      /\ B[m].holding <=> cols[i].holding \/ Verdict(cols, S, i) = "iter"
  BY <1>2, RestColumns
<1> HIDE DEF B
<1>6. HoldInv'
  <2>1. ASSUME NEW j \in Key PROVE HoldOK(uk'[j].cols)
    <3>1. CASE j = k BY <1>1, <1>4, <3>1
    <3>2. CASE j # k BY <1>1, <3>2 DEF KeepInv, HoldInv
    <3> QED BY <3>1, <3>2
  <2> QED BY <2>1 DEF HoldInv, HoldOK
<1>7. FlagInv'
  <2>1. ASSUME NEW j \in Key, NEW m \in DOMAIN uk'[j].cols, uk'[j].cols[m].st # "stored"
        PROVE  uk'[j].cols[m].del = hist[uk'[j].cols[m].id].del
    <3>1. CASE j = k
      <4>1. m \in DOMAIN B /\ uk'[j].cols[m] = B[m] BY <1>1, <2>1, <3>1
      <4>2. PICK i \in DOMAIN cols :
               B[m].id = cols[i].id /\ B[m].st = cols[i].st /\ B[m].del = cols[i].del
        BY <1>5, <4>1
      <4> QED BY <1>3, <2>1, <4>1, <4>2
    <3>2. CASE j # k BY <1>1, <2>1, <3>2 DEF KeepInv, FlagInv
    <3> QED BY <3>1, <3>2
  <2> QED BY <1>1, <2>1 DEF FlagInv
<1>8. KeptColumns'
  <2>0. DOMAIN blk' = DOMAIN blk /\ UNCHANGED <<kb, kbm>> BY DEF ScansBits
  <2>1. ASSUME NEW j \in Key, NEW m \in DOMAIN uk'[j].cols, uk'[j].cols[m].st = "stored", NEW c,
               c = uk'[j].cols[m]
        PROVE  InBlock(c)'
    <3>1. CASE j = k
      <4>1. m \in DOMAIN B /\ c = B[m] BY <1>1, <2>1, <3>1
      <4>2. PICK i \in DOMAIN cols :
               /\ c.id = cols[i].id /\ cols[i].st = "stored" /\ c.ikey = cols[i].ikey /\ c.del = cols[i].del
               /\ Verdict(cols, S, i) \in {"valid", "iter"}
               /\ c.holding <=> cols[i].holding \/ Verdict(cols, S, i) = "iter"
        BY <1>5, <2>1, <4>1
      <4>3. InBlock(cols[i]) BY <1>3, <4>2
      <4>4. ~c.holding /\ ~c.del => Held(c.id, c.ikey)'
        <5> HAVE ~c.holding /\ ~c.del
        <5>1. Verdict(cols, S, i) = "valid" /\ Held(c.id, c.ikey) BY <4>2, <4>3 DEF InBlock
        <5> QED BY <1>2, <4>2, <5>1, ScansHeld
      <4> QED BY <2>0, <4>2, <4>3, <4>4 DEF InBlock
    <3>2. CASE j # k
      <4>1. m \in DOMAIN uk[j].cols /\ c = uk[j].cols[m] BY <1>1, <2>1, <3>2
      <4>2. InBlock(c) /\ hist[c.id].key = j BY <2>1, <4>1 DEF KeepInv, KeptColumns, ColumnInv, ColumnsInv
      <4>3. Held(c.id, c.ikey) => Held(c.id, c.ikey)' BY <1>2, <3>2, <4>2, ScansHeld
      <4> QED BY <2>0, <4>2, <4>3 DEF InBlock
    <3> QED BY <3>1, <3>2
  <2> QED BY <2>1 DEF KeptColumns
<1> QED BY <1>6, <1>7, <1>8

\* The valid column of a scan is in its block.
LEMMA ValidHeld ==
  ASSUME NEW cols \in Seq(ColumnNode), NEW S, HoldOK(cols), NEW i \in DOMAIN cols, cols[i].st = "stored",
         \A j, l \in DOMAIN cols : j < l => cols[l].id < cols[j].id, Verdict(cols, S, i) = "valid",
         InBlock(cols[i])
  PROVE  Held(cols[i].id, cols[i].ikey)
<1>1. ~cols[i].del /\ ~cols[i].recdel /\ \A j \in 1..(i - 1) : cols[j].st # "stored" BY VerdictWhy
<1>2. ASSUME cols[i].holding PROVE FALSE
  <2>1. PICK j \in DOMAIN cols : cols[j].st = "stored" /\ cols[i].id < cols[j].id
    BY <1>1, <1>2 DEF HoldOK
  <2>2. cols[i] \in ColumnNode /\ cols[j] \in ColumnNode OBVIOUS
  <2>3. DOMAIN cols = 1..Len(cols) /\ Len(cols) \in Nat /\ cols[i].id \in Nat /\ cols[j].id \in Nat
    BY <2>2 DEF ColumnNode
  <2>4. ~(i < j) /\ i # j BY <2>1, <2>3
  <2>5. j \in 1..(i - 1) BY <2>3, <2>4
  <2> QED BY <1>1, <2>1, <2>5
<1> QED BY <1>1, <1>2 DEF InBlock

\* What is written and not yet in a list, and the tables, after a scan.
LEMMA ScansRecords ==
  ASSUME ColumnInv, HolderInv, KeepInv, NEW w \in Worker, NEW k, NEW cols, NEW S, NEW B, NEW E,
         ScansKey(w, k, cols, S, B, E), ScansRecorded(w, k, cols, S), ScansBits(k, cols, S)
  PROVE  KeptWrites' /\ KeptRows' /\ KeptDevice'
<1>1. /\ k \in Key /\ k \in fl[w].todo /\ fl[w].pc = "build" /\ EntriesOf(cols, S, E)
      /\ fl'[w].ents = fl[w].ents \cup E /\ \A v \in Worker : v # w => fl'[v] = fl[v]
      /\ fl'[w].todo = fl[w].todo \ {k} /\ UNCHANGED <<reqs, hist, wk>>
  BY DEF ScansKey
<1>2. /\ cols \in Seq(ColumnNode)
      /\ \A i \in DOMAIN uk[k].cols : i \in DOMAIN cols /\ cols[i] = uk[k].cols[i]
      /\ \A i \in DOMAIN cols : cols[i].id \in DOMAIN hist /\ hist[cols[i].id].key = k
      /\ \A i, j \in DOMAIN cols : cols[i].id = cols[j].id => i = j
      /\ \A i \in DOMAIN cols : i \in DOMAIN uk[k].cols \/ (Fetches(k) /\ cols[i].id = Row(k).id)
      /\ Fetches(k) => \A b : Row(k).id \notin Users(b)
  BY ScansFrom
<1>3. /\ HoldOK(cols) /\ \A i, j \in DOMAIN cols : i < j => cols[j].id < cols[i].id
      /\ \A i \in DOMAIN cols : cols[i].st = "stored" => InBlock(cols[i])
  BY ScansKept
<1>4. /\ DOMAIN blk' = DOMAIN blk /\ UNCHANGED <<kb, kbm, skt>>
      /\ \A b \in DOMAIN blk : blk'[b].bits = blk[b].bits \ Cleared(cols, S, b)
  BY DEF ScansBits
<1>5. KeptWrites'
  <2>1. \A v \in Worker : \A id : Submitted(id, wk[v].ikey)' <=> Submitted(id, wk[v].ikey)
    BY <1>1 DEF Submitted, Writes, Todo, From
  <2>2. ASSUME NEW v \in Worker, NEW id \in DOMAIN hist, NEW b, b = wk[v].ikey, Submitted(id, b)
        PROVE  b \in DOMAIN blk' /\ (hist[id].del \/ Held(id, b)')
    <3>1. b \in DOMAIN blk /\ (hist[id].del \/ Held(id, b))
      <4> HIDE DEF Submitted, Held
      <4> QED BY <2>2 DEF KeepInv, KeptWrites
    <3>2. ASSUME NEW i \in DOMAIN cols, cols[i].id = id, cols[i].st = "stored", cols[i].ikey = b
          PROVE  FALSE
      <4>1. CASE i \in DOMAIN uk[k].cols
        <5>1. HasStored(uk[k].cols, id, b) BY <1>2, <3>2, <4>1 DEF HasStored
        <5>2. Attached(id, b) BY <1>1, <5>1 DEF Attached
        <5> QED BY <2>2, <5>2, PartsDisjoint DEF HolderInv
      <4>2. CASE i \notin DOMAIN uk[k].cols
        <5>1. id \in Users(b) BY <2>2, UsersHas DEF HolderInv
        <5> QED BY <1>2, <3>2, <4>2, <5>1
      <4> QED BY <4>1, <4>2
    <3>3. Held(id, b) => Held(id, b)' BY <3>2, ScansHeld
    <3> QED BY <1>4, <3>1, <3>3
  <2>3. hist' = hist /\ wk' = wk BY <1>1
  <2> HIDE DEF Submitted, Held
  <2> QED BY <2>1, <2>2, <2>3 DEF KeptWrites
<1>6. ASSUME NEW id, NEW b, Held(id, b), hist[id].key # k PROVE Held(id, b)'
  BY <1>2, <1>6, ScansHeld
<1>7. KeptRows'
  <2>1. ASSUME NEW t \in Table, NEW j \in DOMAIN sktdf'[t], NEW r, r = sktdf'[t][j]
        PROVE  Held(r.id, r.ikey)'
    <3>1. j # k /\ j \in DOMAIN sktdf[t] /\ r = sktdf[t][j] BY <2>1 DEF ScansRecorded
    <3>2. j \in Key BY <3>1 DEF ColumnInv, TableType, IsRows
    <3>3. hist[r.id].key = j BY <3>1, <3>2 DEF ColumnInv, RowsInv
    <3>4. Held(r.id, r.ikey) BY <3>1 DEF KeepInv, KeptRows
    <3> QED BY <1>6, <3>1, <3>3, <3>4
  <2>2. ASSUME NEW v \in Worker, NEW j \in DOMAIN fl[v].rows, NEW r, r = fl[v].rows[j]
        PROVE  Held(r.id, r.ikey)'
    <3>1. IsRows(fl[v].rows) BY DEF ColumnInv, TableType, IsFlush
    <3>2. j \in Key BY <3>1 DEF IsRows
    <3>3. hist[r.id].key = j /\ TableOf[j] = fl[v].t BY <2>2, <3>2 DEF ColumnInv, RowsInv
    <3>4. Held(r.id, r.ikey) BY <2>2 DEF KeepInv, KeptRows
    <3>5. ASSUME j = k PROVE FALSE
      <4>1. fl[v].pc # "none" BY DEF ColumnInv, FlushesInv, NoFlush, Empty
      <4>2. fl[w].pc # "none" /\ fl[w].t = fl[v].t BY <1>1, <3>3, <3>5 DEF ColumnInv, FlushesInv
      <4>3. v = w BY <4>1, <4>2 DEF ColumnInv, FlushesInv
      <4>4. fl[v].todo \cap DOMAIN fl[v].rows = {} BY DEF KeepInv, KeptRows
      <4> QED BY <1>1, <3>5, <4>3, <4>4
    <3> QED BY <1>6, <3>3, <3>4, <3>5
  <2>3. ASSUME NEW j \in DOMAIN fl'[w].rows, NEW r, r = fl'[w].rows[j]
        PROVE  Held(r.id, r.ikey)'
    <3>1. CASE j \in DOMAIN fl[w].rows /\ fl'[w].rows[j] = fl[w].rows[j] BY <2>2, <2>3, <3>1
    <3>2. ASSUME NEW i \in DOMAIN cols, cols[i].st = "stored", Verdict(cols, S, i) = "valid",
                 r.id = cols[i].id, r.ikey = cols[i].ikey
          PROVE  Held(r.id, r.ikey)'
      <4>1. Held(cols[i].id, cols[i].ikey) BY <1>2, <1>3, <3>2, ValidHeld
      <4>2. Held(r.id, r.ikey) BY <3>2, <4>1
      <4> QED BY <1>2, <3>2, <4>2, ScansHeld
    <3> HIDE DEF Held
    <3> QED BY <2>3, <3>1, <3>2 DEF ScansRecorded
  <2>4. ASSUME NEW v \in Worker PROVE fl'[v].todo \cap DOMAIN fl'[v].rows = {}
    <3>1. fl[v].todo \cap DOMAIN fl[v].rows = {} BY DEF KeepInv, KeptRows
    <3>2. CASE v = w
      <4>1. DOMAIN fl'[w].rows \subseteq DOMAIN fl[w].rows \cup {k} BY DEF ScansRecorded
      <4> QED BY <1>1, <3>1, <3>2, <4>1
    <3>3. CASE v # w BY <1>1, <3>1, <3>3
    <3> QED BY <3>2, <3>3
  <2>5. ASSUME NEW v \in Worker, NEW j \in DOMAIN fl'[v].rows, NEW r, r = fl'[v].rows[j]
        PROVE  Held(r.id, r.ikey)'
    <3>1. CASE v = w BY <2>3, <2>5, <3>1
    <3>2. CASE v # w
      <4>1. j \in DOMAIN fl[v].rows /\ r = fl[v].rows[j] BY <1>1, <2>5, <3>2
      <4> QED BY <2>2, <4>1
    <3> QED BY <3>1, <3>2
  <2> HIDE DEF Held
  <2> QED BY <2>1, <2>4, <2>5 DEF KeptRows
<1>8. KeptDevice'
  <2>1. ASSUME NEW id, NEW b,
               \E v \in Worker : fl'[v].pc = "build" /\ \E e \in fl'[v].ents : e.id = id /\ e.ikey = b
        PROVE  Building(id, b)'
    BY <2>1 DEF Building
  <2>2. fl'[w].pc = "build" BY DEF ScansRecorded
  <2>3. ASSUME NEW id, NEW b, Building(id, b) PROVE Building(id, b)'
    <3>1. PICK v \in Worker : fl[v].pc = "build" /\ \E e \in fl[v].ents : e.id = id /\ e.ikey = b
      BY <2>3 DEF Building
    <3>2. fl'[v].pc = "build" /\ fl[v].ents \subseteq fl'[v].ents BY <1>1, <2>2, <3>1
    <3> QED BY <2>1, <3>1, <3>2
  <2>4. ASSUME NEW t \in Table, NEW j \in DOMAIN skt[t], NEW r, r = skt[t][j]
        PROVE  /\ r.id \in DOMAIN hist /\ hist[r.id].key = j /\ TableOf[j] = t
               /\ OnDevice(r)'
    <3>1. r.id \in DOMAIN hist /\ hist[r.id].key = j /\ TableOf[j] = t /\ OnDevice(r)
      BY <2>4 DEF KeepInv, KeptDevice
    <3>2. r.ikey \in DOMAIN blk' /\ r.ikey \in kb' BY <1>4, <3>1 DEF OnDevice
    <3>3. CASE r.id \in Cleared(cols, S, r.ikey)
      <4>1. PICK i \in DOMAIN cols : /\ cols[i].id = r.id /\ cols[i].st = "stored" /\ cols[i].ikey = r.ikey
                                     /\ Verdict(cols, S, i) \in {"iter", "drop"}
        BY <3>3, ClearedIs
      <4>2. PICK e \in E : e.id = r.id /\ e.ikey = r.ikey BY <1>1, <4>1 DEF EntriesOf
      <4>3. e \in fl'[w].ents BY <1>1
      <4>4. Building(r.id, r.ikey)' BY <2>1, <2>2, <4>2, <4>3
      <4> QED BY <3>1, <3>2, <4>4 DEF OnDevice
    <3>4. CASE r.id \notin Cleared(cols, S, r.ikey) /\ r.id \in blk[r.ikey].bits
      <4>1. r.id \in blk'[r.ikey].bits BY <1>4, <3>2, <3>4
      <4> QED BY <3>1, <3>2, <4>1 DEF OnDevice
    <3>5. CASE Building(r.id, r.ikey)
      <4>1. Building(r.id, r.ikey)' BY <2>3, <3>5
      <4> QED BY <3>1, <3>2, <4>1 DEF OnDevice
    <3> QED BY <3>1, <3>3, <3>4, <3>5 DEF OnDevice
  <2>5. skt' = skt /\ hist' = hist /\ skt = [t \in Table |-> skt[t]] BY <1>1, <1>4 DEF KeepInv, KeptDevice
  <2> HIDE DEF OnDevice
  <2> QED BY <2>4, <2>5 DEF KeptDevice
<1> QED BY <1>5, <1>7, <1>8

\* The entries of flushes after a scan.
LEMMA ScansEntries ==
  ASSUME ColumnInv, HolderInv, KeepInv, NEW w \in Worker, NEW k, NEW cols, NEW S, NEW B, NEW E,
         ScansKey(w, k, cols, S, B, E), E = NewEntries(cols, S, blk'), ScansBits(k, cols, S)
  PROVE  KeptEntries' /\ KeptDels'
<1>1. /\ k \in Key /\ Leaves(cols, S, B) /\ uk'[k].cols = B
      /\ \A j \in Key : j # k => uk'[j] = uk[j]
      /\ fl'[w].ents = fl[w].ents \cup E /\ \A v \in Worker : v # w => fl'[v] = fl[v]
      /\ ikeys' = ikeys
  BY DEF ScansKey
<1>2. \A v \in Worker : \A e \in fl[v].ents : hist[e.id].key # k BY ScansFrom
<1>3. /\ \A i \in DOMAIN cols : cols[i].st = "stored" => cols[i].ikey \in DOMAIN blk
      /\ Fetches(k) => Held(Row(k).id, Row(k).ikey)
  BY ScansKept DEF InBlock
<1>4. /\ DOMAIN blk' = DOMAIN blk /\ lt' = lt
      /\ \A b \in DOMAIN blk :
            /\ blk'[b].bits \subseteq blk[b].bits /\ blk'[b].ref \in Nat
            /\ blk'[b].ref = blk[b].ref \/ (Fetches(k) /\ b = Row(k).ikey)
  BY DEF ScansBits
<1>5. ASSUME NEW v \in Worker, NEW e \in fl[v].ents PROVE EntryKept(e)'
  <2>1. EntryKept(e) BY DEF KeepInv, KeptEntries
  <2>2. ASSUME Attached(e.id, e.ikey) PROVE Attached(e.id, e.ikey)'
    <3>1. PICK j \in Key : HasStored(uk[j].cols, e.id, e.ikey) BY <2>2 DEF Attached
    <3>2. hist[e.id].key = j BY <3>1 DEF HasStored, ColumnInv, ColumnsInv
    <3>3. uk'[j] = uk[j] BY <1>1, <1>2, <3>2
    <3> QED BY <3>1, <3>3 DEF Attached, HasStored
  <2>3. ASSUME e.kind = "del" PROVE blk'[e.ikey].bits = {} /\ blk'[e.ikey].ref <= 1
    <3>1. e.ikey \in DOMAIN blk /\ blk[e.ikey].bits = {} /\ blk[e.ikey].ref <= 1 BY <2>1, <2>3 DEF EntryKept
    <3>2. ~(Fetches(k) /\ e.ikey = Row(k).ikey) BY <1>3, <3>1 DEF Held
    <3> QED BY <1>4, <3>1, <3>2
  <2> QED BY <1>4, <2>1, <2>2, <2>3 DEF EntryKept
<1>6. ASSUME NEW e \in E PROVE EntryKept(e)'
  <2> DEFINE kind(i) == EntryKind(cols[i], blk'[cols[i].ikey])
  <2>1. PICK i \in DOMAIN cols :
           /\ cols[i].st = "stored"
           /\ \/ e = Entry(cols[i], "itr") /\ Verdict(cols, S, i) = "iter"
              \/ e = Entry(cols[i], kind(i))
    BY <1>6 DEF NewEntries
  <2>2. e.id = cols[i].id /\ e.ikey = cols[i].ikey BY <2>1 DEF Entry
  <2>3. e.ikey \in DOMAIN blk' BY <1>3, <1>4, <2>1, <2>2
  <2>4. CASE e = Entry(cols[i], "itr") /\ Verdict(cols, S, i) = "iter"
    <3>1. e.kind = "itr" BY <2>4 DEF Entry
    <3>2. HasStored(B, e.id, e.ikey) BY <1>1, <2>1, <2>2, <2>4 DEF Leaves, HasStored
    <3>3. Attached(e.id, e.ikey)' BY <1>1, <3>2 DEF Attached, HasStored
    <3> QED BY <2>3, <3>1, <3>3 DEF EntryKept
  <2>5. CASE e = Entry(cols[i], kind(i))
    <3>1. e.kind = EntryKind(cols[i], blk'[e.ikey]) BY <2>2, <2>5 DEF Entry
    <3>2. blk'[e.ikey].ref \in Nat BY <1>4, <2>3
    <3>3. e.kind # "itr" /\ (e.kind = "del" => blk'[e.ikey].bits = {} /\ ~(blk'[e.ikey].ref > 1))
      BY <3>1 DEF EntryKind
    <3> QED BY <2>3, <3>2, <3>3 DEF EntryKept
  <2> QED BY <2>1, <2>4, <2>5
<1>7. KeptEntries'
  <2>1. ASSUME NEW v \in Worker, NEW e \in fl'[v].ents PROVE EntryKept(e)'
    <3>1. CASE e \in fl[v].ents BY <1>5, <3>1
    <3>2. CASE e \notin fl[v].ents
      <4>1. e \in E BY <1>1, <2>1, <3>2
      <4> QED BY <1>6, <4>1
    <3> QED BY <3>1, <3>2
  <2> HIDE DEF EntryKept
  <2> QED BY <2>1 DEF KeptEntries
<1>8. KeptDels'
  <2>1. \A b : Used(b)' <=> Used(b) BY <1>1 DEF Used
  <2> HIDE DEF Used
  <2> QED BY <1>4, <2>1 DEF KeepInv, KeptDels
<1> QED BY <1>7, <1>8

\* A flush scans a key.
LEMMA BuildKeep ==
  ASSUME ColumnInv, HolderInv, TallyInv, KeepInv, NEW w \in Worker, FlushBuild(w)
  PROVE  KeepInv'
<1>1. PICK k : k = MinOf(fl[w].todo) OBVIOUS
<1>2. /\ fl[w].pc = "build" /\ fl[w].todo # {} /\ UNCHANGED <<reqs, hist, wk, ikeys, lt, kb, kbm, skt>>
  BY DEF FlushBuild, devVars
<1>3. k \in fl[w].todo /\ k \in Key /\ TableOf[k] \in Table
  BY <1>1, <1>2, NextKey DEF ColumnInv
<1>4. CASE HasRow(k) /\ ~uk[k].dirty
  <2>1. /\ fl' = [fl EXCEPT ![w].todo = fl[w].todo \ {k}, ![w].rows = With(fl[w].rows, k, Row(k))]
        /\ UNCHANGED <<uk, blk, sktdf>>
    BY <1>1, <1>4 DEF FlushBuild
  <2> DEFINE rows == With(fl[w].rows, k, Row(k))
             y == [fl[w] EXCEPT !.todo = fl[w].todo \ {k}]
             x == [y EXCEPT !.rows = rows]
  <2>2. /\ \A j \in DOMAIN rows : Held(rows[j].id, rows[j].ikey)
        /\ (fl[w].todo \ {k}) \cap DOMAIN rows = {}
    <3>1. Held(Row(k).id, Row(k).ikey)
      <4> HIDE DEF Held
      <4> QED BY <1>3, <1>4 DEF KeepInv, KeptRows, HasRow, Row
    <3>2. /\ \A j \in DOMAIN fl[w].rows : Held(fl[w].rows[j].id, fl[w].rows[j].ikey)
          /\ fl[w].todo \cap DOMAIN fl[w].rows = {}
      BY DEF KeepInv, KeptRows
    <3>3. /\ DOMAIN rows = DOMAIN fl[w].rows \cup {k}
          /\ \A j \in DOMAIN rows : rows[j] = Row(k) \/ (j \in DOMAIN fl[w].rows /\ rows[j] = fl[w].rows[j])
      BY DEF With
    <3> HIDE DEF rows, Held
    <3> QED BY <3>1, <3>2, <3>3
  <2>3. fl' = [fl EXCEPT ![w] = x]
    <3>1. fl = [v \in Worker |-> fl[v]] BY DEF ColumnInv, TableType
    <3>2. fl' = [fl EXCEPT ![w].todo = fl[w].todo \ {k}, ![w].rows = rows] BY <2>1
    <3> HIDE DEF rows
    <3> QED BY <3>1, <3>2
  <2> HIDE DEF rows
  <2>4. x.rows = rows /\ x.todo = fl[w].todo \ {k} /\ x.ents = fl[w].ents /\ x.pc = fl[w].pc
    <3>1. IsFlush(fl[w]) BY DEF ColumnInv, TableType
    <3>2. fl[w].todo \ {k} \in SUBSET Key BY <3>1 DEF IsFlush
    <3>3. y \in [pc : {"none", "build", "delete", "update", "release", "end"}, t : {y.t},
                 snaps : {y.snaps}, todo : SUBSET Key, rows : {y.rows}, ents : {y.ents}, keys : SUBSET Key]
          /\ y.todo = fl[w].todo \ {k} /\ y.ents = fl[w].ents /\ y.pc = fl[w].pc
      BY <3>1, <3>2 DEF IsFlush
    <3> HIDE DEF y
    <3> QED BY <3>3
  <2> HIDE DEF x
  <2>5. fl'[w] = x /\ \A v \in Worker : v # w => fl'[v] = fl[v] BY <2>3 DEF ColumnInv, TableType
  <2>6. /\ fl'[w].rows = rows /\ fl'[w].todo = fl[w].todo \ {k} /\ fl'[w].ents = fl[w].ents
        /\ fl'[w].pc = "build"
    BY <1>2, <2>4, <2>5
  <2>7. RowsFromHeld
    <3>1. \A t \in Table : \A j \in DOMAIN sktdf'[t] : Held(sktdf'[t][j].id, sktdf'[t][j].ikey)
      BY <2>1 DEF KeepInv, KeptRows
    <3>2. ASSUME NEW v \in Worker
          PROVE  /\ \A j \in DOMAIN fl'[v].rows : Held(fl'[v].rows[j].id, fl'[v].rows[j].ikey)
                 /\ fl'[v].todo \cap DOMAIN fl'[v].rows = {}
      <4> HIDE DEF Held
      <4>1. CASE v = w BY <2>2, <2>6, <4>1
      <4>2. CASE v # w BY <2>5, <4>2 DEF KeepInv, KeptRows
      <4> QED BY <4>1, <4>2
    <3> HIDE DEF Held
    <3> QED BY <3>1, <3>2 DEF RowsFromHeld
  <2>8. DeviceFrom BY <1>2, <2>5, <2>6, SameDevice
  <2>9. \A v \in Worker : \A e \in fl'[v].ents : \E f \in fl[v].ents :
           f.id = e.id /\ f.ikey = e.ikey /\ f.kind = e.kind
    BY <2>5, <2>6
  <2>10. SafeDeletes BY <1>2, <2>1, SafeStill
  <2>11. \A b \in DOMAIN blk : blk'[b].ref \in Nat /\ blk'[b].ref <= blk[b].ref BY <2>1, RefNat
  <2> QED BY <1>2, <2>1, <2>7, <2>8, <2>9, <2>10, <2>11, TableKeep
<1>5. CASE ~(HasRow(k) /\ ~uk[k].dirty)
  <2>1. PICK S, cols : S = fl[w].snaps /\ cols = Columns(k) OBVIOUS
  <2>2. /\ ScansKey(w, k, cols, S, Rest(cols, S), NewEntries(cols, S, blk')) /\ ScansRecorded(w, k, cols, S)
        /\ ScansBits(k, cols, S)
    BY <1>1, <1>5, <2>1, BuildIs, BuildBits
  <2>3. PICK E : E = NewEntries(cols, S, blk') /\ ScansKey(w, k, cols, S, Rest(cols, S), E) BY <2>2
  <2>4. PICK B : ScansKey(w, k, cols, S, B, E) BY <2>3
  <2>5. HoldInv' /\ FlagInv' /\ KeptColumns' BY <2>2, <2>3, ScansLists
  <2>6. KeptWrites' /\ KeptRows' /\ KeptDevice' BY <2>2, <2>4, ScansRecords
  <2>7. KeptEntries' /\ KeptDels' BY <2>2, <2>3, <2>4, ScansEntries
  <2> QED BY <2>5, <2>6, <2>7 DEF KeepInv
<1> QED BY <1>4, <1>5

-----------------------------------------------------------------------------
(* What is kept: all steps. *)

\* The database as it is opened: its rows are in one block.
LEMMA InitKeep ==
  ASSUME Init
  PROVE  KeepInv
<1>1. PICK load \in Workloads :
         Opened(load.stored) /\ lt = [IdleLog EXCEPT !.n = load.rounds]
  BY DEF Init, InitState
<1>2. PICK S : S = load.stored /\ Opened(S) BY <1>1
<1>3. /\ \A k \in Key : uk[k] = NoUserKey
      /\ \A w \in Worker : wk[w] = IdleWorker /\ fl[w] = NoFlush
  BY DEF Init, InitState
<1>4. /\ \A k \in Key : DOMAIN uk[k].cols = {}
      /\ \A w \in Worker : /\ ~Writes(w) /\ fl[w].ents = {} /\ DOMAIN fl[w].rows = {} /\ fl[w].todo = {}
  BY <1>3, NoUserKeyIs DEF Writes, IdleWorker, NoFlush, Empty
<1>5. \A t \in Table : \A k \in DOMAIN sktdf[t] :
         k \in S /\ TableOf[k] = t /\ sktdf[t][k].ikey = FirstBlock /\ sktdf[t][k].id = k
  BY <1>2 DEF Opened, OpenedTables
<1>6. /\ sktdf = skt /\ skt = [t \in Table |-> skt[t]] BY <1>2 DEF Opened, OpenedTables
<1>7. \A k \in S : /\ k \in DOMAIN hist /\ hist[k].key = k
                   /\ FirstBlock \in DOMAIN blk /\ blk[FirstBlock].bits = S
                   /\ FirstBlock \in kb \cap kbm
  <2> TAKE k \in S
  <2>1. kb = {FirstBlock} /\ kbm = kb /\ blk = [b \in kb |-> OpenedBlock(S)] BY <1>2 DEF Opened
  <2>2. k \in DOMAIN hist /\ hist[k].key = k BY <1>2 DEF Opened
  <2>3. blk[FirstBlock] = OpenedBlock(S) /\ OpenedBlock(S).bits = S BY <2>1 DEF OpenedBlock
  <2> QED BY <2>1, <2>2, <2>3
<1>8. HoldInv /\ FlagInv /\ KeptColumns BY <1>4 DEF HoldInv, HoldOK, FlagInv, KeptColumns
<1>9. KeptWrites
  <2>1. \A id, b : ~Submitted(id, b) BY <1>4 DEF Submitted
  <2> HIDE DEF Submitted
  <2> QED BY <2>1 DEF KeptWrites
<1>10. KeptRows
  <2>1. \A t \in Table : \A k \in DOMAIN sktdf[t] : Held(sktdf[t][k].id, sktdf[t][k].ikey)
    BY <1>5, <1>7 DEF Held
  <2> HIDE DEF Held
  <2> QED BY <1>4, <2>1 DEF KeptRows
<1>11. KeptDevice BY <1>5, <1>6, <1>7 DEF KeptDevice, OnDevice
<1>12. KeptEntries BY <1>4 DEF KeptEntries
<1>13. KeptDels
  <2>1. lt.dels = {} BY <1>1 DEF IdleLog
  <2> QED BY <2>1 DEF KeptDels
<1> QED BY <1>8, <1>9, <1>10, <1>11, <1>12, <1>13 DEF KeepInv

\* Every step keeps what is in blocks.
LEMMA NextKeep ==
  ASSUME ColumnInv, TrxnInv, HolderInv, TallyInv, EndInv, KeepInv, ColumnInv', [Next]_vars
  PROVE  KeepInv'
<1>0. TableInv BY DEF TrxnInv
<1>1. ASSUME NEW w \in Worker, WorkerNext(w) PROVE KeepInv'
  BY <1>0, <1>1, WriteKeep, PutKeep, UpdateKeep DEF WorkerNext
<1>2. ASSUME NEW w \in Worker, FlushNext(w) PROVE KeepInv'
  BY <1>2, StartKeep, BuildKeep, FlushWriteKeep, FlushDeleteKeep, ReleaseKeep, EndKeep DEF FlushNext
<1>3. CASE LogNext BY <1>3, LogKeep
<1>4. CASE \/ \E p \in Writer : Store(p) \/ PutColumnNodeToRequestQueue(p)
           \/ TakeSnapshot \/ (\E s \in DOMAIN snaps : ReleaseSnapshot(s))
           \/ (\E t \in Thread : Publish(t)) \/ UNCHANGED vars
  BY <1>0, <1>4, WriteKeep
<1> QED BY <1>1, <1>2, <1>3, <1>4 DEF Next

\* What rows and columns name is there.
LEMMA KeepsBlocks ==
  ASSUME KeepInv
  PROVE  BlockKept
<1>1. \A t \in Table : \A k \in DOMAIN sktdf[t] : sktdf[t][k].ikey \in kb \cap kbm \cap DOMAIN blk
  BY DEF KeepInv, KeptRows, Held
<1>2. \A t \in Table : \A k \in DOMAIN skt[t] : skt[t][k].ikey \in kb
  BY DEF KeepInv, KeptDevice, OnDevice
<1>3. ASSUME NEW k \in Key, NEW i \in DOMAIN uk[k].cols, uk[k].cols[i].st = "stored"
      PROVE  uk[k].cols[i].ikey \in DOMAIN blk /\ (uk[k].cols[i].del \/ uk[k].cols[i].ikey \in kb)
  <2>1. InBlock(uk[k].cols[i]) BY <1>3 DEF KeepInv, KeptColumns
  <2> QED BY <2>1 DEF InBlock
<1> QED BY <1>1, <1>2, <1>3 DEF BlockKept

\* No block is deleted too early: the block of every row, in memory or on the device, and
\* of every put in memory is on the device, and the rows and columns in memory have its
\* meta (BlockKept; blocks are deleted by the flushes of the tables they have columns of,
\* by evictions and by the log thread, each from the counts it sees).
THEOREM BlockKeptAlways == Spec => []BlockKept
<1>1. Init => ColumnInv /\ HolderInv /\ TallyInv /\ EndInv /\ KeepInv BY InitColumns, InitTally, InitKeep
<1>2. ColumnInv /\ HolderInv /\ TallyInv /\ EndInv /\ KeepInv /\ TrxnInv /\ [Next]_vars
        => (ColumnInv /\ HolderInv /\ TallyInv /\ EndInv /\ KeepInv)'
  BY NextColumns, NextTally, EndKept, NextKeep
<1>3. KeepInv => BlockKept BY KeepsBlocks
<1> QED BY <1>1, <1>2, <1>3, TrxnInvAlways, PTL DEF Spec
=============================================================================
