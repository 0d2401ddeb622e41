--------------------------- MODULE KVPendingProofs ---------------------------
(***************************************************************************)
(* Proofs that the counters of KVIosched are right and that the device     *)
(* never has two asynchronous commands of one key.                         *)
(*                                                                         *)
(* nr_rq of every memory queue (QueueCount) and in_flight_rq               *)
(* (InflightCount): the second one depends on a request being in one place *)
(* at a time, from the memory queue it is inserted into to the completion  *)
(* daemon; PlaceInv states it.                                             *)
(*                                                                         *)
(* OneInFlight, and nr_pending counting the blocked requests of a queue    *)
(* (PendingCount): PendInv says where the requests of the hash are, that   *)
(* what is pending is behind exactly the request that is marked as         *)
(* blocking, and that no request is added to a queue under submission.     *)
(***************************************************************************)
EXTENDS KVIoschedProofs, FiniteSetTheorems

-----------------------------------------------------------------------------
(* Sequences and cardinalities. *)

\* A request is put at the head of a queue.
LEMMA ConsFacts ==
  ASSUME NEW S, NEW q \in Seq(S), NEW n \in S
  PROVE  /\ SeqRange(<<n>> \o q) = {n} \cup SeqRange(q)
         /\ n \notin SeqRange(q) /\ IsInjective(q) => IsInjective(<<n>> \o q)
         /\ Len(<<n>> \o q) = Len(q) + 1
<1> DEFINE c == <<n>> \o q
<1>1. /\ c \in Seq(S) /\ Len(c) = Len(q) + 1 /\ Len(q) \in Nat
      /\ DOMAIN c = 1..(Len(q) + 1) /\ DOMAIN q = 1..Len(q)
      /\ c[1] = n
      /\ \A i \in 1..Len(q) : c[i + 1] = q[i]
  OBVIOUS
<1> HIDE DEF c
<1>2. \A i \in DOMAIN c : i = 1 \/ (i - 1 \in DOMAIN q /\ c[i] = q[i - 1])
  BY <1>1
<1>3. SeqRange(c) = {n} \cup SeqRange(q)
  <2>1. ASSUME NEW i \in DOMAIN c PROVE c[i] \in {n} \cup SeqRange(q)
    BY <1>1, <1>2 DEF SeqRange
  <2>2. 1 \in DOMAIN c /\ \A i \in DOMAIN q : i + 1 \in DOMAIN c BY <1>1
  <2>3. n \in SeqRange(c) BY <1>1, <2>2 DEF SeqRange
  <2>4. \A i \in DOMAIN q : q[i] \in SeqRange(c) BY <1>1, <2>2 DEF SeqRange
  <2> QED BY <2>1, <2>3, <2>4 DEF SeqRange
<1>4. ASSUME n \notin SeqRange(q), IsInjective(q) PROVE IsInjective(c)
  <2> SUFFICES ASSUME NEW i \in DOMAIN c, NEW j \in DOMAIN c, c[i] = c[j] PROVE i = j
    BY DEF IsInjective
  <2>1. \A k \in DOMAIN q : q[k] # n BY <1>4 DEF SeqRange
  <2>2. CASE i = 1 \/ j = 1 BY <1>1, <1>2, <2>1, <2>2
  <2>3. CASE i # 1 /\ j # 1
    <3>1. i - 1 = j - 1 BY <1>2, <1>4, <2>3 DEF IsInjective
    <3> QED BY <1>1, <3>1
  <2> QED BY <2>2, <2>3
<1> QED BY <1>1, <1>3, <1>4 DEF c

\* The head of a queue is taken.
LEMMA TailFacts ==
  ASSUME NEW S, NEW q \in Seq(S), q # <<>>
  PROVE  /\ Head(q) \in SeqRange(q)
         /\ SeqRange(Tail(q)) \subseteq SeqRange(q)
         /\ SeqRange(q) \subseteq SeqRange(Tail(q)) \cup {Head(q)}
         /\ IsInjective(q) => IsInjective(Tail(q)) /\ Head(q) \notin SeqRange(Tail(q))
         /\ Len(Tail(q)) = Len(q) - 1
<1> DEFINE c == Tail(q)
<1>1. /\ c \in Seq(S) /\ Len(c) = Len(q) - 1 /\ Len(q) \in Nat /\ Len(q) >= 1
      /\ DOMAIN c = 1..(Len(q) - 1) /\ DOMAIN q = 1..Len(q)
      /\ Head(q) = q[1]
      /\ \A i \in DOMAIN c : c[i] = q[i + 1]
  OBVIOUS
<1> HIDE DEF c
<1>2. /\ 1 \in DOMAIN q
      /\ \A i \in DOMAIN c : i + 1 \in DOMAIN q /\ i + 1 # 1
      /\ \A i \in DOMAIN q : i # 1 => i - 1 \in DOMAIN c /\ c[i - 1] = q[i]
  BY <1>1
<1>3. Head(q) \in SeqRange(q) BY <1>1, <1>2 DEF SeqRange
<1>4. SeqRange(c) \subseteq SeqRange(q) BY <1>1, <1>2 DEF SeqRange
<1>5. SeqRange(q) \subseteq SeqRange(c) \cup {Head(q)} BY <1>1, <1>2 DEF SeqRange
<1>6. ASSUME IsInjective(q) PROVE IsInjective(c) /\ Head(q) \notin SeqRange(c)
  <2>1. \A i \in DOMAIN c : c[i] # q[1] BY <1>1, <1>2, <1>6 DEF IsInjective
  <2>2. ASSUME NEW i \in DOMAIN c, NEW j \in DOMAIN c, c[i] = c[j] PROVE i = j
    <3>1. i + 1 = j + 1 BY <1>1, <1>2, <1>6, <2>2 DEF IsInjective
    <3> QED BY <1>1, <3>1
  <2> QED BY <1>1, <2>1, <2>2 DEF SeqRange, IsInjective
<1> QED BY <1>1, <1>3, <1>4, <1>5, <1>6 DEF c

\* A request is put at the end of the fifo.
LEMMA AppendFacts ==
  ASSUME NEW S, NEW q \in Seq(S), NEW n \in S
  PROVE  /\ SeqRange(Append(q, n)) = SeqRange(q) \cup {n}
         /\ n \notin SeqRange(q) /\ IsInjective(q) => IsInjective(Append(q, n))
         /\ Len(Append(q, n)) = Len(q) + 1
<1> DEFINE c == Append(q, n)
<1>1. /\ c \in Seq(S) /\ Len(c) = Len(q) + 1 /\ Len(q) \in Nat
      /\ DOMAIN c = 1..(Len(q) + 1) /\ DOMAIN q = 1..Len(q)
      /\ c[Len(q) + 1] = n
      /\ \A i \in 1..Len(q) : c[i] = q[i]
  OBVIOUS
<1> HIDE DEF c
<1>2. /\ \A i \in DOMAIN q : i \in DOMAIN c /\ c[i] = q[i]
      /\ \A i \in DOMAIN c : i = Len(q) + 1 \/ i \in DOMAIN q
      /\ Len(q) + 1 \in DOMAIN c
  BY <1>1
<1>3. SeqRange(c) = SeqRange(q) \cup {n} BY <1>1, <1>2 DEF SeqRange
<1>4. ASSUME n \notin SeqRange(q), IsInjective(q) PROVE IsInjective(c)
  <2>1. \A k \in DOMAIN q : q[k] # n BY <1>4 DEF SeqRange
  <2> QED BY <1>1, <1>2, <1>4, <2>1 DEF IsInjective
<1> QED BY <1>1, <1>3, <1>4 DEF c

\* Two finite sets that differ in one element.
LEMMA CardChange ==
  ASSUME NEW S, NEW T, NEW x, IsFiniteSet(S), S \ {x} = T \ {x}
  PROVE  /\ IsFiniteSet(T)
         /\ Cardinality(S) \in Nat /\ Cardinality(T) \in Nat
         /\ (x \in S <=> x \in T) => Cardinality(T) = Cardinality(S)
         /\ x \notin S /\ x \in T => Cardinality(T) = Cardinality(S) + 1
         /\ x \in S /\ x \notin T => Cardinality(T) = Cardinality(S) - 1
<1>1. Cardinality(S) \in Nat BY FS_CardinalityType
<1>2. CASE x \in S <=> x \in T
  <2>1. S = T BY <1>2
  <2> QED BY <1>1, <1>2, <2>1
<1>3. CASE x \notin S /\ x \in T
  <2>1. T = S \cup {x} BY <1>3
  <2> QED BY <1>1, <1>3, <2>1, FS_AddElement
<1>4. CASE x \in S /\ x \notin T
  <2>1. T = S \ {x} BY <1>4
  <2>2. IsFiniteSet(T) /\ Cardinality(T) = Cardinality(S) - 1
    BY <1>4, <2>1, FS_RemoveElement
  <2>3. Cardinality(T) \in Nat BY <2>2, FS_CardinalityType
  <2> QED BY <1>1, <1>4, <2>2, <2>3
<1> QED BY <1>2, <1>3, <1>4

-----------------------------------------------------------------------------
(* The steps of the threads. *)

\* What a thread leaves alone unless it inserts or invalidates a request.
steadyVars == <<blk, memq, rqHash, memqVars, subPc, subCur, subRq, fifo, inflight,
                compPc, compCur, compBuf, devQ>>

\* A step of a thread that at most asks a request for a wake-up.
Steady ==
    /\ UNCHANGED steadyVars
    /\ \A r \in OpId : bits'[r] \ {"flush_wakeup"} = bits[r] \ {"flush_wakeup"}
    /\ \A r \in Inserted : key'[r] = key[r]

\* Entering an ioctl.
LEMMA InvokeSteady ==
  ASSUME TypeInv, NEW t \in Thread, Invoke(t)
  PROVE  Steady
<1> USE DEF Steady, steadyVars, hashVars, memqVars, subVars, compVars, devVars
<1>1. ASSUME NEW kind, NEW k, NEW o, NewCmd(t, kind, k, o)
      PROVE  \A r \in Inserted : key'[r] = key[r]
  <2>1. nops \in Int /\ \A r \in Inserted : r \in OpId /\ r \in Int /\ r <= nops
    BY Facts DEF TypeInv, HistOK, Inserted
  <2>2. \A r \in Inserted : r # nops + 1 BY <2>1
  <2> QED BY <1>1, <2>1, <2>2 DEF NewCmd, TypeInv, ReqOK
<1>2. ASSUME NEW k \in Key, NEW o \in AsyncOps, AsyncWriteCmd(t, k, o) PROVE Steady
  BY <1>1, <1>2 DEF AsyncWriteCmd
<1>3. ASSUME NEW k \in Key, AsyncGetCmd(t, k) PROVE Steady
  BY <1>1, <1>3 DEF AsyncGetCmd
<1>4. ASSUME NEW k \in Key, NEW o \in SyncOps, SyncCmd(t, k, o) PROVE Steady
  BY <1>1, <1>4 DEF SyncCmd
<1>5. ASSUME NEW k \in Key, NEW o \in FlushOps, FlushKeyCmd(t, k, o) PROVE Steady
  BY <1>1, <1>5 DEF FlushKeyCmd
<1>6. ASSUME NEW o \in FlushAllOps, FlushAllCmd(t, o) PROVE Steady
  BY <1>1, <1>6 DEF FlushAllCmd
<1> QED BY <1>2, <1>3, <1>4, <1>5, <1>6 DEF Invoke

\* The steps of the asynchronous commands but the insertion.
LEMMA AsyncSteady ==
  ASSUME TypeInv, NEW t \in Thread,
         AsyncRaMiss(t) \/ AsyncRaFound(t) \/ AsyncRaHit(t) \/ AsyncInsertFound(t)
           \/ AsyncRaDel(t) \/ AsyncRaPut(t) \/ AsyncWake(t) \/ AsyncFullSet(t)
           \/ AsyncFullWait(t)
  PROVE  Steady
<1> USE DEF Steady, steadyVars, reqVars, hashVars, memqVars, subVars, compVars, devVars
<1>1. CASE AsyncRaMiss(t) BY <1>1 DEF AsyncRaMiss
<1>2. CASE AsyncRaFound(t) BY <1>2 DEF AsyncRaFound
<1>3. CASE AsyncRaHit(t) BY <1>3 DEF AsyncRaHit
<1>4. CASE AsyncRaDel(t) BY <1>4 DEF AsyncRaDel
<1>5. CASE AsyncRaPut(t) BY <1>5 DEF AsyncRaPut
<1>6. CASE AsyncWake(t) BY <1>6 DEF AsyncWake
<1>7. CASE AsyncFullSet(t) BY <1>7 DEF AsyncFullSet
<1>8. CASE AsyncFullWait(t) BY <1>8 DEF AsyncFullWait
<1>9. CASE AsyncInsertFound(t) BY <1>9 DEF AsyncInsertFound
<1> QED BY <1>1, <1>2, <1>3, <1>4, <1>5, <1>6, <1>7, <1>8, <1>9

\* The steps of the synchronous commands but the end of the lookup.
LEMMA SyncSteady ==
  ASSUME TypeInv, NEW t \in Thread,
         SyncReadahead(t) \/ SyncReadaheadPut(t) \/ SyncFindNone(t) \/ SyncFind(t)
           \/ SyncWait(t) \/ SyncReadBlocking(t) \/ SyncWaitBlocking(t) \/ SyncIssue(t)
  PROVE  Steady
<1> USE DEF Steady, steadyVars, reqVars, hashVars, memqVars, subVars, compVars, devVars
<1>1. CASE SyncReadahead(t) BY <1>1 DEF SyncReadahead
<1>2. CASE SyncReadaheadPut(t) BY <1>2 DEF SyncReadaheadPut
<1>3. CASE SyncFindNone(t) BY <1>3 DEF SyncFindNone
<1>4. CASE SyncFind(t) BY <1>4 DEF SyncFind
<1>5. CASE SyncWait(t) BY <1>5 DEF SyncWait
<1>6. CASE SyncReadBlocking(t) BY <1>6 DEF SyncReadBlocking
<1>7. CASE SyncWaitBlocking(t) BY <1>7 DEF SyncWaitBlocking
<1>8. CASE SyncIssue(t) BY <1>8 DEF SyncIssue
<1> QED BY <1>1, <1>2, <1>3, <1>4, <1>5, <1>6, <1>7, <1>8

\* The steps of the flush commands.
LEMMA FlushSteady ==
  ASSUME TypeInv, NEW t \in Thread, FlushStep(t)
  PROVE  Steady
<1> USE DEF Steady, steadyVars, reqVars, hashVars, memqVars, subVars, compVars, devVars
<1>0. ASSUME NEW b, AskWakeup(t, b)
      PROVE  \A r \in OpId : bits'[r] \ {"flush_wakeup"} = bits[r] \ {"flush_wakeup"}
  BY <1>0 DEF AskWakeup, TypeInv, ReqOK
<1>1. CASE FlushNone(t) BY <1>1 DEF FlushNone
<1>2. CASE FlushFind(t) BY <1>2 DEF FlushFind
<1>3. CASE FlushMark(t) BY <1>0, <1>3 DEF FlushMark
<1>4. CASE FlushCompleted(t) BY <1>4 DEF FlushCompleted
<1>5. CASE FlushPush(t) BY <1>5 DEF FlushPush
<1>6. CASE FlushDrain(t) BY <1>6 DEF FlushDrain
<1>7. CASE FlushDone(t) BY <1>7 DEF FlushDone
<1>8. CASE FlushAllEmpty(t) BY <1>8 DEF FlushAllEmpty
<1>9. CASE FlushAllPick(t) BY <1>0, <1>9 DEF FlushAllPick
<1>10. CASE FlushAllDone(t) BY <1>10 DEF FlushAllDone
<1> QED BY <1>1, <1>2, <1>3, <1>4, <1>5, <1>6, <1>7, <1>8, <1>9, <1>10 DEF FlushStep

\* A thread enqueues its own request, new to everyone else; it is pending when the
\* request found in the hash is in flight.
Joins(t) ==
    /\ AsyncInsertNew(t) \/ (AsyncInsertLocked(t) /\ InsertBehind(t, buf[t]))
    /\ me[t] \in OpId /\ me[t] \notin Inserted
    /\ \E pending \in BOOLEAN : Enqueue(me[t], pending)
    /\ UNCHANGED <<key, subPc, subCur, subRq, fifo, inflight, compPc, compCur, compBuf,
                   devQ>>

\* A synchronous command invalidates the buffered request it found.
Cancels(t) ==
    /\ pc[t] = "s_lock"
    /\ "inFlight" \notin bits[buf[t]] /\ blk[buf[t]] = NULL
    /\ FindBuffered(t, buf[t])
    /\ UNCHANGED <<key, blk, memq, memqVars, subPc, subCur, subRq, fifo, inflight,
                   compPc, compCur, compBuf, devQ>>

\* The steps of the threads, as the queues and the daemons see them.
LEMMA ThreadClasses ==
  ASSUME TypeInv, HashInv, NEW t \in Thread, Invoke(t) \/ ThreadStep(t)
  PROVE  Steady \/ Joins(t) \/ Cancels(t)
<1> USE DEF reqVars, hashVars, memqVars, subVars, compVars, devVars
<1>1. CASE Invoke(t) BY <1>1, InvokeSteady
<1>2. CASE FlushStep(t) BY <1>2, FlushSteady
<1>3. CASE AsyncInsertNew(t)
  <2>1. me[t] \in OpId /\ me[t] \notin Inserted
    BY <1>3 DEF AsyncInsertNew, TypeInv, ThrInv, Inserted, Early
  <2> QED BY <1>3, <2>1 DEF AsyncInsertNew, Joins
<1>4. CASE AsyncInsertLocked(t)
  <2>1. me[t] \in OpId /\ me[t] \notin Inserted
    BY <1>4 DEF AsyncInsertLocked, TypeInv, ThrInv, Inserted, Early
  <2>2. ~Unusable(buf[t])
    BY <1>4 DEF AsyncInsertLocked, HashInv, BucketHeld, HashUsable
  <2>3. CASE InsertBehind(t, buf[t])
    BY <1>4, <2>1, <2>3 DEF AsyncInsertLocked, InsertBehind, Joins
  <2>4. CASE InsertMerge(t, buf[t])
    BY <1>4, <2>4 DEF AsyncInsertLocked, InsertMerge, Steady, steadyVars
  <2> QED BY <1>4, <2>2, <2>3, <2>4 DEF AsyncInsertLocked
<1>5. CASE SyncFindLocked(t)
  <2>1. ~Unusable(buf[t])
    BY <1>5 DEF SyncFindLocked, HashInv, BucketHeld, HashUsable
  <2>2. ASSUME NEW label, FindBusy(t, buf[t], label) PROVE Steady
    BY <1>5, <2>2 DEF SyncFindLocked, FindBusy, Steady, steadyVars
  <2> QED BY <1>5, <2>1, <2>2 DEF SyncFindLocked, Cancels
<1> QED BY <1>1, <1>2, <1>3, <1>4, <1>5, AsyncSteady, SyncSteady
        DEF ThreadStep, AsyncStep, SyncStep

-----------------------------------------------------------------------------
(* One place at a time. *)

\* A request waits in a memory queue, or in a congested submission daemon.
Queued(r) == \E m \in Memq : r \in SeqRange(mrq[m])
Held(r) == \E y \in Type : subRq[y] = r

\* No queue holds a request twice, and none holds one of another.
QueuesApart ==
    /\ \A m \in Memq : IsInjective(mrq[m])
    /\ \A m, l \in Memq, r \in OpId :
          r \in SeqRange(mrq[m]) /\ r \in SeqRange(mrq[l]) => m = l

\* A request is in one place: a queue, a submission daemon, the device, the fifo
\* or the completion daemon.
OnePlace ==
    /\ IsInjective(fifo)
    /\ \A y, z \in Type : subRq[y] # NULL /\ subRq[y] = subRq[z] => y = z
    /\ \A r \in OpId :
          /\ Queued(r) => ~Held(r) /\ r \notin devQ /\ r \notin SeqRange(fifo) /\ r # compCur
          /\ Held(r) => r \notin devQ /\ r \notin SeqRange(fifo) /\ r # compCur
          /\ r \in devQ => r \notin SeqRange(fifo) /\ r # compCur
          /\ r \in SeqRange(fifo) => r # compCur

\* A daemon has a request only while it works on it.
DaemonsEmpty ==
    /\ \A y \in Type : subPc[y] \notin {"cong_set", "cong_wait"} => subRq[y] = NULL
    /\ compPc \in {"idle", "drain", "wake"} => compCur = NULL

\* The inductive invariant behind the counters.
PlaceInv == QueuesApart /\ OnePlace /\ DaemonsEmpty

\* The head of a memory queue is taken.
LEMMA Dequeued ==
  ASSUME TypeInv, QueuesApart, NEW m \in Memq, mrq[m] # <<>>,
         mrq' = [mrq EXCEPT ![m] = Tail(@)], NEW r, r = Head(mrq[m])
  PROVE  /\ r \in OpId /\ r \in SeqRange(mrq[m])
         /\ Queued(r) /\ ~Queued(r)'
         /\ \A x : x # r => (Queued(x)' <=> Queued(x))
         /\ \A l \in Memq : SeqRange(mrq[l])' = SeqRange(mrq[l]) \ {r}
         /\ \A l \in Memq : IF l = m
               THEN Len(mrq'[l]) = Len(mrq[l]) - 1 ELSE mrq'[l] = mrq[l]
         /\ QueuesApart'
<1>1. PICK q : q = mrq[m] OBVIOUS
<1>2. q \in Seq(OpId) /\ mrq \in [Memq -> Seq(OpId)] /\ IsInjective(q)
  BY <1>1 DEF TypeInv, MemqOK, QueuesApart
<1>3. /\ r \in OpId /\ r \in SeqRange(q)
      /\ SeqRange(Tail(q)) = SeqRange(q) \ {r}
      /\ IsInjective(Tail(q)) /\ Len(Tail(q)) = Len(q) - 1
  <2>1. r \in OpId BY <1>1, <1>2, SeqFacts
  <2>2. /\ r \in SeqRange(q)
        /\ SeqRange(Tail(q)) \subseteq SeqRange(q)
        /\ SeqRange(q) \subseteq SeqRange(Tail(q)) \cup {r}
        /\ IsInjective(Tail(q)) /\ r \notin SeqRange(Tail(q))
        /\ Len(Tail(q)) = Len(q) - 1
    BY <1>1, <1>2, TailFacts
  <2> QED BY <2>1, <2>2
<1>4. mrq'[m] = Tail(q) /\ \A l \in Memq : l # m => mrq'[l] = mrq[l] BY <1>1, <1>2
<1>5. ASSUME NEW l \in Memq PROVE SeqRange(mrq[l])' = SeqRange(mrq[l]) \ {r}
  <2>1. SeqRange(mrq[l])' = SeqRange(mrq'[l]) BY DEF SeqRange
  <2>2. CASE l = m BY <1>1, <1>3, <1>4, <2>1, <2>2
  <2>3. CASE l # m
    <3>1. r \notin SeqRange(mrq[l]) BY <1>1, <1>3, <2>3 DEF QueuesApart
    <3> QED BY <1>4, <2>1, <2>3, <3>1
  <2> QED BY <2>2, <2>3
<1>6. ~Queued(r)' BY <1>5 DEF Queued
<1>7. \A x : x # r => (Queued(x)' <=> Queued(x)) BY <1>5 DEF Queued
<1>8. Queued(r) BY <1>1, <1>3 DEF Queued
<1>9. QueuesApart'
  <2>1. \A l \in Memq : IsInjective(mrq'[l]) BY <1>3, <1>4 DEF QueuesApart
  <2> QED BY <1>5, <2>1 DEF QueuesApart, IsInjective
<1>10. ASSUME NEW l \in Memq
       PROVE  IF l = m THEN Len(mrq'[l]) = Len(mrq[l]) - 1 ELSE mrq'[l] = mrq[l]
  BY <1>1, <1>3, <1>4
<1> QED BY <1>1, <1>3, <1>5, <1>6, <1>7, <1>8, <1>9, <1>10

\* A request that is in no place yet is put into a memory queue.
LEMMA Enqueued ==
  ASSUME TypeInv, QueuesApart, NEW n \in OpId, NEW pending \in BOOLEAN,
         Enqueue(n, pending), ~Queued(n)
  PROVE  /\ Queued(n)'
         /\ \A x : x # n => (Queued(x)' <=> Queued(x))
         /\ \A l \in Memq : SeqRange(mrq[l])' =
               SeqRange(mrq[l]) \cup (IF l = active[TypeOf(opc[n])] THEN {n} ELSE {})
         /\ active[TypeOf(opc[n])] \in Memq
         /\ \A l \in Memq : IF l = active[TypeOf(opc[n])]
               THEN Len(mrq'[l]) = Len(mrq[l]) + 1 ELSE mrq'[l] = mrq[l]
         /\ QueuesApart'
<1> DEFINE m == active[TypeOf(opc[n])]  q == mrq[m]
<1>1. m \in Memq BY DEF TypeInv, MemqOK, TypeOf, Type
<1>2. q \in Seq(OpId) /\ mrq \in [Memq -> Seq(OpId)] BY <1>1 DEF TypeInv, MemqOK
<1>3. mrq' = [mrq EXCEPT ![m] = <<n>> \o @] BY DEF Enqueue
<1>4. /\ mrq'[m] = <<n>> \o q
      /\ \A l \in Memq : l # m => mrq'[l] = mrq[l]
  BY <1>1, <1>2, <1>3
<1>5. n \notin SeqRange(q) /\ IsInjective(q) BY <1>1 DEF Queued, QueuesApart
<1>6. /\ SeqRange(mrq'[m]) = {n} \cup SeqRange(q)
      /\ IsInjective(mrq'[m]) /\ Len(mrq'[m]) = Len(q) + 1
  BY <1>2, <1>4, <1>5, ConsFacts
<1> HIDE DEF m, q
<1>8. \A l \in Memq : SeqRange(mrq[l])' = SeqRange(mrq[l]) \cup (IF l = m THEN {n} ELSE {})
  <2> SUFFICES ASSUME NEW l \in Memq
               PROVE SeqRange(mrq[l])' = SeqRange(mrq[l]) \cup (IF l = m THEN {n} ELSE {})
    OBVIOUS
  <2>1. SeqRange(mrq[l])' = SeqRange(mrq'[l]) BY DEF SeqRange
  <2>2. CASE l = m BY <1>6, <2>1, <2>2 DEF q
  <2>3. CASE l # m BY <1>4, <2>1, <2>3
  <2> QED BY <2>2, <2>3
<1>9. Queued(n)' BY <1>1, <1>8 DEF Queued
<1>10. \A x : x # n => (Queued(x)' <=> Queued(x)) BY <1>8 DEF Queued
<1>11. QueuesApart'
  <2>1. \A l \in Memq : IsInjective(mrq'[l]) BY <1>4, <1>6 DEF QueuesApart
  <2>2. \A l \in Memq : n \notin SeqRange(mrq[l]) BY DEF Queued
  <2>3. ASSUME NEW k \in Memq, NEW l \in Memq, NEW r \in OpId,
               r \in SeqRange(mrq[k])', r \in SeqRange(mrq[l])'
        PROVE  k = l
    <3>1. CASE r = n BY <1>8, <2>2, <2>3, <3>1
    <3>2. CASE r # n BY <1>8, <2>3, <3>2 DEF QueuesApart
    <3> QED BY <3>1, <3>2
  <2> QED BY <2>1, <2>3 DEF QueuesApart, IsInjective
<1>12. ASSUME NEW l \in Memq
       PROVE  IF l = m THEN Len(mrq'[l]) = Len(mrq[l]) + 1 ELSE mrq'[l] = mrq[l]
  BY <1>4, <1>6 DEF q
<1> QED BY <1>1, <1>8, <1>9, <1>10, <1>11, <1>12 DEF m

-----------------------------------------------------------------------------
(* The steps that move no request. *)

Congestion == {"cong_set", "cong_wait"}
\* The submission daemons that hold a request of queue m back.
Holding(m) == {y \in Type : subCur[y] = m /\ subPc[y] \in Congestion}

\* Nothing moves, nothing is counted, and no daemon starts or stops holding a request.
Stays ==
    /\ UNCHANGED <<mrq, nrrq, subRq, devQ, fifo, inflight, compCur>>
    /\ \A y \in Type : /\ subPc'[y] \in Congestion <=> subPc[y] \in Congestion
                       /\ subPc[y] \in Congestion => subCur'[y] = subCur[y]
    /\ compPc' \in {"idle", "drain", "wake"} => compPc \in {"idle", "drain", "wake"}

\* The invariant of this module: places and counters.
CountInv == PlaceInv /\ QueueCount /\ InflightCount

\* Such a step preserves the places and the counters.
LEMMA StaysKeep ==
  ASSUME TypeInv, CountInv, Stays
  PROVE  CountInv'
<1> USE DEF CountInv, PlaceInv
<1>1. QueuesApart' BY DEF Stays, QueuesApart, IsInjective, SeqRange
<1>2. OnePlace' BY DEF Stays, OnePlace, IsInjective, SeqRange, Queued, Held
<1>3. DaemonsEmpty' BY DEF Stays, DaemonsEmpty, Congestion
<1>4. QueueCount'
  <2>1. ASSUME NEW m \in Memq PROVE Holding(m)' = Holding(m)
    BY DEF Stays, Holding
  <2>2. \A m \in Memq : nrrq[m] = Len(mrq[m]) + Cardinality(Holding(m))
    BY DEF QueueCount, Holding, Congestion
  <2>3. \A m \in Memq : nrrq'[m] = Len(mrq'[m]) + Cardinality(Holding(m)')
    BY <2>1, <2>2 DEF Stays
  <2> QED BY <2>3 DEF QueueCount, Holding, Congestion
<1>5. InflightCount' BY DEF Stays, InflightCount
<1> QED BY <1>1, <1>2, <1>3, <1>4, <1>5

\* The steps of the threads that do not enqueue a request.
LEMMA ThreadStays ==
  ASSUME NEW t \in Thread, Steady \/ Cancels(t)
  PROVE  Stays
  BY DEF Steady, steadyVars, Cancels, memqVars, Stays

\* The steps of the submission daemons between two requests.
LEMMA SubmitStays ==
  ASSUME TypeInv, NEW y \in Type,
         Schedule(y) \/ SubmitStart(y) \/ SubmitEnd(y) \/ SubmitPark(y) \/ SubmitKick(y)
           \/ SubmitSleep(y) \/ SubmitTake(y) \/ SubmitCongested(y) \/ SubmitDone(y)
  PROVE  Stays
<1> USE DEF Stays, Congestion, memqVars, subVars, compVars, devVars
<1>0. subPc \in [Type -> SubmitPc] /\ subCur \in [Type -> Memq \cup {NULL}]
  BY DEF TypeInv, SubInv, SubOK
<1>1. CASE Schedule(y) BY <1>1 DEF Schedule
<1>2. CASE SubmitStart(y) BY <1>0, <1>2 DEF SubmitStart
<1>3. CASE SubmitEnd(y) BY <1>0, <1>3 DEF SubmitEnd
<1>4. CASE SubmitPark(y) BY <1>0, <1>4 DEF SubmitPark
<1>5. CASE SubmitKick(y) BY <1>0, <1>5 DEF SubmitKick
<1>6. CASE SubmitSleep(y) BY <1>0, <1>6 DEF SubmitSleep
<1>7. CASE SubmitTake(y) BY <1>0, <1>7 DEF SubmitTake
<1>8. CASE SubmitCongested(y) BY <1>0, <1>8 DEF SubmitCongested
<1>9. CASE SubmitDone(y) BY <1>0, <1>9 DEF SubmitDone
<1> QED BY <1>1, <1>2, <1>3, <1>4, <1>5, <1>6, <1>7, <1>8, <1>9

\* The steps of the completion daemon with the request it has, and the interrupt.
LEMMA CompleteStays ==
  ASSUME \/ InterruptWake \/ CompleteStart \/ CompleteUnhash \/ CompleteLowWatermark
         \/ CompleteLock \/ CompleteDuplicate \/ CompleteFindPending \/ CompleteUnblock
         \/ \E y \in Type : CompleteWake(y)
  PROVE  Stays
<1> USE DEF Stays, Congestion, memqVars, subVars, compVars, devVars
<1>1. CASE InterruptWake BY <1>1 DEF InterruptWake
<1>2. CASE CompleteStart BY <1>2 DEF CompleteStart
<1>3. CASE CompleteUnhash BY <1>3 DEF CompleteUnhash
<1>4. CASE CompleteLowWatermark BY <1>4 DEF CompleteLowWatermark
<1>5. CASE CompleteLock BY <1>5 DEF CompleteLock, AfterSignal
<1>6. CASE CompleteDuplicate BY <1>6 DEF CompleteDuplicate, AfterSignal
<1>7. CASE CompleteFindPending BY <1>7 DEF CompleteFindPending
<1>8. CASE CompleteUnblock BY <1>8 DEF CompleteUnblock
<1>9. CASE \E y \in Type : CompleteWake(y) BY <1>9 DEF CompleteWake
<1> QED BY <1>1, <1>2, <1>3, <1>4, <1>5, <1>6, <1>7, <1>8, <1>9

-----------------------------------------------------------------------------
(* The steps that move a request. *)

\* The requests of a finite set of commands, of the types: what is counted is finite.
LEMMA FiniteFacts ==
  /\ IsFiniteSet(OpId) /\ IsFiniteSet(Type)
  /\ TypeInv => IsFiniteSet(devQ)
<1>1. IsFiniteSet(OpId) BY FS_Interval, ConstantsAssumption DEF OpId
<1>2. IsFiniteSet(Type)
  <2>1. Type = {"READ"} \cup {"WRITE"} BY DEF Type
  <2>2. IsFiniteSet({"READ"}) BY FS_Singleton
  <2> QED BY <2>1, <2>2, FS_AddElement
<1>3. TypeInv => IsFiniteSet(devQ) BY <1>1, FS_Subset DEF TypeInv, DevOK
<1> QED BY <1>1, <1>2, <1>3

\* The counters are over finite sets.
LEMMA HoldingFacts ==
  /\ \A m : IsFiniteSet(Holding(m)) /\ Cardinality(Holding(m)) \in Nat
  /\ IsFiniteSet({y \in Type : subRq[y] # NULL})
<1>1. ASSUME NEW m PROVE IsFiniteSet(Holding(m)) /\ Cardinality(Holding(m)) \in Nat
  <2>1. Holding(m) \in SUBSET Type BY DEF Holding
  <2> QED BY <2>1, FiniteFacts, FS_Subset, FS_CardinalityType
<1>2. {y \in Type : subRq[y] # NULL} \in SUBSET Type OBVIOUS
<1> QED BY <1>1, <1>2, FiniteFacts, FS_Subset

\* A thread enqueues its request.
LEMMA JoinsCount ==
  ASSUME TypeInv, HashInv, CountInv, NEW t \in Thread, Joins(t)
  PROVE  CountInv'
<1> USE DEF CountInv, PlaceInv
<1>1. PICK n \in OpId, pending \in BOOLEAN : n = me[t] /\ Enqueue(n, pending)
  BY DEF Joins
<1>2. UNCHANGED <<subPc, subCur, subRq, fifo, inflight, compPc, compCur, devQ>>
  BY DEF Joins
<1>3. /\ ~Queued(n) /\ ~Held(n) /\ n \notin devQ /\ n \notin SeqRange(fifo) /\ n # compCur
  <2>1. n \notin Inserted BY <1>1 DEF Joins
  <2>2. \A S, q : q \in Seq(S) /\ n \notin S => n \notin SeqRange(q) BY DEF SeqRange
  <2>3. ~Queued(n) BY <2>1, <2>2 DEF HashInv, InsertedFirst, Queued
  <2>4. ~Held(n) BY <2>1, Facts DEF HashInv, InsertedFirst, Held
  <2>5. n \notin SeqRange(fifo) BY <2>1, <2>2 DEF HashInv, InsertedFirst
  <2> QED BY <2>1, <2>3, <2>4, <2>5, Facts DEF HashInv, InsertedFirst
<1>4. PICK m \in Memq : m = active[TypeOf(opc[n])] BY <1>1, <1>3, Enqueued
<1>5. /\ \A x : x # n => (Queued(x)' <=> Queued(x))
      /\ \A l \in Memq : IF l = m
            THEN Len(mrq'[l]) = Len(mrq[l]) + 1 ELSE mrq'[l] = mrq[l]
      /\ QueuesApart'
  BY <1>1, <1>3, <1>4, Enqueued
<1>6. \A x : Held(x)' <=> Held(x) BY <1>2 DEF Held
<1>7. OnePlace'
  <2>1. \A r \in OpId : Queued(r)' =>
          ~Held(r) /\ r \notin devQ /\ r \notin SeqRange(fifo) /\ r # compCur
    BY <1>3, <1>5 DEF OnePlace
  <2> QED BY <1>2, <1>6, <2>1 DEF OnePlace, IsInjective, SeqRange
<1>8. DaemonsEmpty' BY <1>2 DEF DaemonsEmpty
<1>9. QueueCount'
  <2>1. \A l \in Memq : Holding(l)' = Holding(l) BY <1>2 DEF Holding
  <2>2. nrrq' = [nrrq EXCEPT ![m] = @ + 1] /\ nrrq \in [Memq -> Int]
    BY <1>1, <1>4 DEF Enqueue, TypeInv, MemqOK
  <2>3. ASSUME NEW l \in Memq PROVE nrrq'[l] = Len(mrq'[l]) + Cardinality(Holding(l)')
    <3>1. nrrq[l] = Len(mrq[l]) + Cardinality(Holding(l))
      BY DEF QueueCount, Holding, Congestion
    <3>2. Cardinality(Holding(l)) \in Nat /\ Len(mrq[l]) \in Nat
      BY HoldingFacts DEF TypeInv, MemqOK
    <3>3. Cardinality(Holding(l)') = Cardinality(Holding(l)) BY <2>1
    <3>4. CASE l = m
      <4>1. Len(mrq'[l]) = Len(mrq[l]) + 1 BY <1>5, <3>4
      <4>2. nrrq'[l] = nrrq[l] + 1 BY <2>2, <3>4
      <4> QED BY <3>1, <3>2, <3>3, <4>1, <4>2
    <3>5. CASE l # m
      <4>1. mrq'[l] = mrq[l] BY <1>5, <3>5
      <4>2. nrrq'[l] = nrrq[l] BY <2>2, <3>5
      <4> QED BY <3>1, <3>3, <4>1, <4>2
    <3> QED BY <3>4, <3>5
  <2> QED BY <2>3 DEF QueueCount, Holding, Congestion
<1>10. InflightCount' BY <1>2 DEF InflightCount
<1> QED BY <1>5, <1>7, <1>8, <1>9, <1>10

\* A request leaves its memory queue and nr_rq falls.
LEMMA DequeueCounted ==
  ASSUME TypeInv, QueueCount, NEW m \in Memq,
         \A l \in Memq : IF l = m THEN Len(mrq'[l]) = Len(mrq[l]) - 1 ELSE mrq'[l] = mrq[l],
         nrrq' = [nrrq EXCEPT ![m] = @ - 1],
         \A l \in Memq : Holding(l)' = Holding(l)
  PROVE  QueueCount'
<1>1. ASSUME NEW l \in Memq PROVE nrrq'[l] = Len(mrq'[l]) + Cardinality(Holding(l)')
  <2>1. nrrq[l] = Len(mrq[l]) + Cardinality(Holding(l))
    BY DEF QueueCount, Holding, Congestion
  <2>2. Cardinality(Holding(l)) \in Nat /\ Len(mrq[l]) \in Nat /\ nrrq \in [Memq -> Int]
    BY HoldingFacts DEF TypeInv, MemqOK
  <2>3. Cardinality(Holding(l)') = Cardinality(Holding(l)) OBVIOUS
  <2>4. CASE l = m
    <3>1. Len(mrq'[l]) = Len(mrq[l]) - 1 BY <2>4
    <3>2. nrrq'[l] = nrrq[l] - 1 BY <2>2, <2>4
    <3> QED BY <2>1, <2>2, <2>3, <3>1, <3>2
  <2>5. CASE l # m
    <3>1. mrq'[l] = mrq[l] BY <2>5
    <3>2. nrrq'[l] = nrrq[l] BY <2>2, <2>5
    <3> QED BY <2>1, <2>3, <3>1, <3>2
  <2> QED BY <2>4, <2>5
<1> QED BY <1>1 DEF QueueCount, Holding, Congestion

\* The submission daemon drops an invalid request of its queue.
LEMMA SubmitInvalidCount ==
  ASSUME TypeInv, CountInv, NEW y \in Type, SubmitInvalid(y)
  PROVE  CountInv'
<1> USE DEF CountInv, PlaceInv
<1>1. PICK m \in Memq, r \in OpId : m = subCur[y] /\ r = Head(mrq[m])
  BY SubmitHead DEF SubmitInvalid, TypeInv, SubInv
<1>2. /\ mrq[m] # <<>> /\ mrq' = [mrq EXCEPT ![m] = Tail(@)]
      /\ nrrq' = [nrrq EXCEPT ![m] = @ - 1]
      /\ UNCHANGED <<subPc, subCur, subRq, fifo, inflight, compPc, compCur, devQ>>
  BY <1>1 DEF SubmitInvalid, subVars, compVars, devVars
<1>3. /\ ~Queued(r)' /\ \A x : x # r => (Queued(x)' <=> Queued(x))
      /\ \A l \in Memq : IF l = m
            THEN Len(mrq'[l]) = Len(mrq[l]) - 1 ELSE mrq'[l] = mrq[l]
      /\ QueuesApart'
  BY <1>1, <1>2, Dequeued
<1>4. \A x : (Queued(x)' => Queued(x)) /\ (Held(x)' <=> Held(x)) BY <1>2, <1>3 DEF Held
<1>5. OnePlace' BY <1>2, <1>4 DEF OnePlace, IsInjective, SeqRange
<1>6. DaemonsEmpty' BY <1>2 DEF DaemonsEmpty
<1>7. QueueCount'
  <2>1. \A l \in Memq : Holding(l)' = Holding(l) BY <1>2 DEF Holding
  <2> QED BY <1>2, <1>3, <2>1, DequeueCounted
<1>8. InflightCount' BY <1>2 DEF InflightCount
<1> QED BY <1>3, <1>5, <1>6, <1>7, <1>8

\* A request is counted in flight and goes to the device.
LEMMA SubmitDeviceCount ==
  ASSUME TypeInv, CountInv, NEW y \in Type, SubmitRq(y), ~(inflight + 1 > MaxInflight)
  PROVE  CountInv'
<1> USE DEF CountInv, PlaceInv
<1>1. PICK m \in Memq, r \in OpId : m = subCur[y] /\ r = Head(mrq[m])
  BY SubmitHead DEF SubmitRq, TypeInv, SubInv
<1>2. /\ mrq[m] # <<>> /\ mrq' = [mrq EXCEPT ![m] = Tail(@)]
      /\ nrrq' = [nrrq EXCEPT ![m] = @ - 1]
      /\ devQ' = devQ \cup {r} /\ inflight' = inflight + 1
      /\ UNCHANGED <<subPc, subCur, subRq, fifo, compPc, compCur>>
  BY <1>1 DEF SubmitRq
<1>3. /\ r \in OpId /\ Queued(r) /\ ~Queued(r)'
      /\ \A x : x # r => (Queued(x)' <=> Queued(x))
      /\ \A l \in Memq : IF l = m
            THEN Len(mrq'[l]) = Len(mrq[l]) - 1 ELSE mrq'[l] = mrq[l]
      /\ QueuesApart'
  BY <1>1, <1>2, Dequeued
<1>4. \A x : (Queued(x)' => Queued(x) /\ x # r) /\ (Held(x)' <=> Held(x))
  BY <1>2, <1>3 DEF Held
<1>5. ~Held(r) /\ r \notin devQ /\ r \notin SeqRange(fifo) /\ r # compCur
  BY <1>3 DEF OnePlace
<1>6. OnePlace'
  <2>1. SeqRange(fifo)' = SeqRange(fifo) BY <1>2 DEF SeqRange
  <2> QED BY <1>2, <1>4, <1>5, <2>1 DEF OnePlace, IsInjective
<1>7. DaemonsEmpty' BY <1>2 DEF DaemonsEmpty
<1>8. QueueCount'
  <2>1. \A l \in Memq : Holding(l)' = Holding(l) BY <1>2 DEF Holding
  <2> QED BY <1>2, <1>3, <2>1, DequeueCounted
<1>9. InflightCount'
  <2>1. IsFiniteSet(devQ) /\ Cardinality(devQ) \in Nat BY FiniteFacts, FS_CardinalityType
  <2>2. Cardinality(devQ') = Cardinality(devQ) + 1 BY <1>2, <1>5, <2>1, FS_AddElement
  <2>3. Len(fifo) \in Nat /\ Cardinality({z \in Type : subRq[z] # NULL}) \in Nat
    BY HoldingFacts, FS_CardinalityType DEF TypeInv, CompInv, CompOK
  <2>4. PICK h : h = Cardinality({z \in Type : subRq[z] # NULL}) OBVIOUS
  <2>5. h \in Nat /\ inflight = Cardinality(devQ) + Len(fifo) + h
    BY <2>3, <2>4 DEF InflightCount
  <2>6. inflight' = Cardinality(devQ') + Len(fifo) + h
    BY <1>2, <2>1, <2>2, <2>3, <2>5
  <2> QED BY <1>2, <2>4, <2>6 DEF InflightCount
<1> QED BY <1>3, <1>6, <1>7, <1>8, <1>9

\* A request is counted in flight and held back: the limit is exceeded.
LEMMA SubmitHoldCount ==
  ASSUME TypeInv, CountInv, NEW y \in Type, SubmitRq(y), inflight + 1 > MaxInflight
  PROVE  CountInv'
<1> USE DEF CountInv, PlaceInv
<1>1. PICK m \in Memq, r \in OpId : m = subCur[y] /\ r = Head(mrq[m])
  BY SubmitHead DEF SubmitRq, TypeInv, SubInv
<1>2. /\ mrq[m] # <<>> /\ mrq' = [mrq EXCEPT ![m] = Tail(@)]
      /\ subRq' = [subRq EXCEPT ![y] = r]
      /\ subPc' = [subPc EXCEPT ![y] = "cong_set"] /\ subPc[y] = "submit"
      /\ inflight' = inflight + 1
      /\ UNCHANGED <<nrrq, devQ, subCur, fifo, compPc, compCur>>
  BY <1>1 DEF SubmitRq
<1>3. /\ r \in OpId /\ Queued(r) /\ ~Queued(r)'
      /\ \A x : x # r => (Queued(x)' <=> Queued(x))
      /\ \A l \in Memq : IF l = m
            THEN Len(mrq'[l]) = Len(mrq[l]) - 1 ELSE mrq'[l] = mrq[l]
      /\ QueuesApart'
  BY <1>1, <1>2, Dequeued
<1>4. subRq \in [Type -> Ptr] /\ subPc \in [Type -> SubmitPc] /\ subRq[y] = NULL
  BY <1>2 DEF TypeInv, SubInv, SubOK, DaemonsEmpty
<1>5. ~Held(r) /\ r \notin devQ /\ r \notin SeqRange(fifo) /\ r # compCur /\ r # NULL
  BY <1>3, Facts DEF OnePlace
<1>6. \A x \in OpId : (Queued(x)' => Queued(x) /\ x # r) /\ (Held(x)' <=> Held(x) \/ x = r)
  <2>1. \A x : Queued(x)' => Queued(x) /\ x # r BY <1>3
  <2>2. \A x \in OpId : Held(x)' <=> Held(x) \/ x = r BY <1>2, <1>4, Facts DEF Held
  <2> QED BY <2>1, <2>2
<1>7. OnePlace'
  <2>1. SeqRange(fifo)' = SeqRange(fifo) BY <1>2 DEF SeqRange
  <2>2. \A z \in Type : z # y => subRq'[z] = subRq[z] /\ subRq[z] # r
    BY <1>2, <1>4, <1>5 DEF Held
  <2>3. \A w, z \in Type : subRq'[w] # NULL /\ subRq'[w] = subRq'[z] => w = z
    BY <1>2, <1>4, <2>2 DEF OnePlace
  <2> QED BY <1>2, <1>5, <1>6, <2>1, <2>3 DEF OnePlace, IsInjective
<1>8. DaemonsEmpty' BY <1>2, <1>4 DEF DaemonsEmpty
<1>9. QueueCount'
  <2>1. ASSUME NEW l \in Memq PROVE nrrq'[l] = Len(mrq'[l]) + Cardinality(Holding(l)')
    <3>1. nrrq[l] = Len(mrq[l]) + Cardinality(Holding(l))
      BY DEF QueueCount, Holding, Congestion
    <3>2. Cardinality(Holding(l)) \in Nat /\ Len(mrq[l]) \in Nat /\ IsFiniteSet(Holding(l))
      BY HoldingFacts DEF TypeInv, MemqOK
    <3>3. Holding(l)' \ {y} = Holding(l) \ {y} /\ y \notin Holding(l)
          /\ (y \in Holding(l)' <=> l = m)
      BY <1>1, <1>2, <1>4 DEF Holding, Congestion
    <3>4. CASE l = m
      <4>1. Len(mrq'[l]) = Len(mrq[l]) - 1 BY <1>3, <3>4
      <4>2. Cardinality(Holding(l)') = Cardinality(Holding(l)) + 1
        BY <3>2, <3>3, <3>4, CardChange
      <4> QED BY <1>2, <3>1, <3>2, <4>1, <4>2
    <3>5. CASE l # m
      <4>1. mrq'[l] = mrq[l] BY <1>3, <3>5
      <4>2. Cardinality(Holding(l)') = Cardinality(Holding(l))
        BY <3>2, <3>3, <3>5, CardChange
      <4> QED BY <1>2, <3>1, <4>1, <4>2
    <3> QED BY <3>4, <3>5
  <2> QED BY <2>1 DEF QueueCount, Holding, Congestion
<1>10. InflightCount'
  <2>1. PICK S : S = {z \in Type : subRq[z] # NULL} OBVIOUS
  <2>2. PICK T : T = {z \in Type : subRq'[z] # NULL} OBVIOUS
  <2>3. IsFiniteSet(S) BY <2>1, HoldingFacts
  <2>4. S \ {y} = T \ {y} /\ y \notin S /\ y \in T BY <1>2, <1>4, <1>5, <2>1, <2>2
  <2>5. Cardinality(T) = Cardinality(S) + 1 /\ Cardinality(S) \in Nat
    BY <2>3, <2>4, CardChange
  <2>6. Cardinality(devQ) \in Nat /\ Len(fifo) \in Nat
    BY FiniteFacts, FS_CardinalityType DEF TypeInv, CompInv, CompOK
  <2>7. inflight = Cardinality(devQ) + Len(fifo) + Cardinality(S)
    BY <2>1 DEF InflightCount
  <2>8. inflight' = Cardinality(devQ) + Len(fifo) + Cardinality(T)
    BY <1>2, <2>5, <2>6, <2>7
  <2> QED BY <1>2, <2>2, <2>8 DEF InflightCount
<1> QED BY <1>3, <1>7, <1>8, <1>9, <1>10

\* The daemon hands over the request it held back.
LEMMA SubmitResumeCount ==
  ASSUME TypeInv, CountInv, NEW y \in Type, SubmitResume(y)
  PROVE  CountInv'
<1> USE DEF CountInv, PlaceInv
<1>1. PICK m \in Memq, r \in OpId : m = subCur[y] /\ r = subRq[y]
  BY DEF SubmitResume, TypeInv, SubInv
<1>2. /\ subPc[y] = "cong_wait" /\ devQ' = devQ \cup {r}
      /\ nrrq' = [nrrq EXCEPT ![m] = @ - 1]
      /\ subRq' = [subRq EXCEPT ![y] = NULL]
      /\ subPc' = [subPc EXCEPT ![y] = "submit"]
      /\ UNCHANGED <<mrq, subCur, fifo, inflight, compPc, compCur>>
  BY <1>1 DEF SubmitResume, compVars
<1>3. /\ subRq \in [Type -> Ptr] /\ subPc \in [Type -> SubmitPc] /\ nrrq \in [Memq -> Int]
      /\ r # NULL
  BY Facts DEF TypeInv, SubInv, SubOK, MemqOK
<1>4. Held(r) BY <1>1 DEF Held
<1>5. ~Queued(r) /\ r \notin devQ /\ r \notin SeqRange(fifo) /\ r # compCur
  BY <1>4 DEF OnePlace
<1>6. /\ \A z \in Type : z # y => subRq'[z] = subRq[z] /\ subRq[z] # r
      /\ subRq'[y] = NULL
  BY <1>1, <1>2, <1>3 DEF OnePlace
<1>7. \A x \in OpId : (Queued(x)' <=> Queued(x)) /\ (Held(x)' <=> Held(x) /\ x # r)
  <2>1. \A x : Queued(x)' <=> Queued(x) BY <1>2 DEF Queued, SeqRange
  <2>2. \A x \in OpId : Held(x)' <=> Held(x) /\ x # r BY <1>1, <1>6, Facts DEF Held
  <2> QED BY <2>1, <2>2
<1>8. QueuesApart' BY <1>2 DEF QueuesApart, SeqRange, IsInjective
<1>9. OnePlace'
  <2>1. SeqRange(fifo)' = SeqRange(fifo) BY <1>2 DEF SeqRange
  <2>2. \A w, z \in Type : subRq'[w] # NULL /\ subRq'[w] = subRq'[z] => w = z
    BY <1>6 DEF OnePlace
  <2> QED BY <1>2, <1>5, <1>7, <2>1, <2>2 DEF OnePlace, IsInjective
<1>10. DaemonsEmpty' BY <1>2, <1>3, <1>6 DEF DaemonsEmpty
<1>11. QueueCount'
  <2>1. ASSUME NEW l \in Memq PROVE nrrq'[l] = Len(mrq'[l]) + Cardinality(Holding(l)')
    <3>1. nrrq[l] = Len(mrq[l]) + Cardinality(Holding(l))
      BY DEF QueueCount, Holding, Congestion
    <3>2. Cardinality(Holding(l)) \in Nat /\ Len(mrq[l]) \in Nat /\ IsFiniteSet(Holding(l))
      BY HoldingFacts DEF TypeInv, MemqOK
    <3>3. Holding(l)' \ {y} = Holding(l) \ {y} /\ y \notin Holding(l)'
          /\ (y \in Holding(l) <=> l = m)
      BY <1>1, <1>2, <1>3 DEF Holding, Congestion
    <3>4. CASE l = m
      <4>1. nrrq'[l] = nrrq[l] - 1 BY <1>2, <1>3, <3>4
      <4>2. Cardinality(Holding(l)') = Cardinality(Holding(l)) - 1
        BY <3>2, <3>3, <3>4, CardChange
      <4> QED BY <1>2, <3>1, <3>2, <4>1, <4>2
    <3>5. CASE l # m
      <4>1. nrrq'[l] = nrrq[l] BY <1>2, <1>3, <3>5
      <4>2. Cardinality(Holding(l)') = Cardinality(Holding(l))
        BY <3>2, <3>3, <3>5, CardChange
      <4> QED BY <1>2, <3>1, <4>1, <4>2
    <3> QED BY <3>4, <3>5
  <2> QED BY <2>1 DEF QueueCount, Holding, Congestion
<1>12. InflightCount'
  <2>1. PICK S : S = {z \in Type : subRq[z] # NULL} OBVIOUS
  <2>2. PICK T : T = {z \in Type : subRq'[z] # NULL} OBVIOUS
  <2>3. IsFiniteSet(S) BY <2>1, HoldingFacts
  <2>4. S \ {y} = T \ {y} /\ y \in S /\ y \notin T BY <1>1, <1>3, <1>6, <2>1, <2>2
  <2>5. Cardinality(T) = Cardinality(S) - 1 /\ Cardinality(S) \in Nat
    BY <2>3, <2>4, CardChange
  <2>6. IsFiniteSet(devQ) /\ Cardinality(devQ) \in Nat /\ Len(fifo) \in Nat
    BY FiniteFacts, FS_CardinalityType DEF TypeInv, CompInv, CompOK
  <2>7. Cardinality(devQ') = Cardinality(devQ) + 1 BY <1>2, <1>5, <2>6, FS_AddElement
  <2>8. inflight = Cardinality(devQ) + Len(fifo) + Cardinality(S)
    BY <2>1 DEF InflightCount
  <2>9. inflight' = Cardinality(devQ') + Len(fifo) + Cardinality(T)
    BY <1>2, <2>5, <2>6, <2>7, <2>8
  <2> QED BY <1>2, <2>2, <2>9 DEF InflightCount
<1> QED BY <1>8, <1>9, <1>10, <1>11, <1>12

\* The queue and daemon parts, when neither changes.
LEMMA QueuesKept ==
  ASSUME CountInv, UNCHANGED <<mrq, nrrq, subPc, subCur, subRq>>
  PROVE  /\ QueuesApart' /\ QueueCount'
         /\ \A x : (Queued(x)' <=> Queued(x)) /\ (Held(x)' <=> Held(x))
<1>1. QueuesApart' BY DEF CountInv, PlaceInv, QueuesApart, SeqRange, IsInjective
<1>2. QueueCount' BY DEF CountInv, QueueCount
<1>3. \A x : (Queued(x)' <=> Queued(x)) /\ (Held(x)' <=> Held(x))
  BY DEF Queued, Held, SeqRange
<1> QED BY <1>1, <1>2, <1>3

\* The device executes a request, which its interrupt puts into the fifo.
LEMMA DeviceExecCount ==
  ASSUME TypeInv, CountInv, NEW r \in OpId, DeviceExec(r)
  PROVE  CountInv'
<1> USE DEF CountInv, PlaceInv
<1>1. /\ r \in devQ /\ devQ' = devQ \ {r} /\ fifo' = Append(fifo, r)
      /\ UNCHANGED <<mrq, nrrq, subPc, subCur, subRq, inflight, compPc, compCur>>
  BY DEF DeviceExec, memqVars, subVars
<1>2. /\ QueuesApart' /\ QueueCount'
      /\ \A x : (Queued(x)' <=> Queued(x)) /\ (Held(x)' <=> Held(x))
  BY <1>1, QueuesKept
<1>3. ~Queued(r) /\ ~Held(r) /\ r \notin SeqRange(fifo) /\ r # compCur
  BY <1>1 DEF OnePlace
<1>4. fifo \in Seq(OpId) /\ IsInjective(fifo) BY DEF TypeInv, CompInv, CompOK, OnePlace
<1>5. /\ SeqRange(fifo') = SeqRange(fifo) \cup {r} /\ IsInjective(fifo')
      /\ Len(fifo') = Len(fifo) + 1
  BY <1>1, <1>3, <1>4, AppendFacts
<1>6. OnePlace'
  <2>1. SeqRange(fifo)' = SeqRange(fifo) \cup {r} BY <1>5 DEF SeqRange
  <2>2. IsInjective(fifo)' BY <1>5 DEF IsInjective
  <2> QED BY <1>1, <1>2, <1>3, <2>1, <2>2 DEF OnePlace
<1>7. DaemonsEmpty' BY <1>1 DEF DaemonsEmpty
<1>8. InflightCount'
  <2>1. PICK h : h = Cardinality({z \in Type : subRq[z] # NULL}) OBVIOUS
  <2>2. h \in Nat BY <2>1, HoldingFacts, FS_CardinalityType
  <2>3. IsFiniteSet(devQ) /\ Cardinality(devQ) \in Nat /\ Len(fifo) \in Nat
    BY <1>4, FiniteFacts, FS_CardinalityType
  <2>4. Cardinality(devQ') = Cardinality(devQ) - 1 BY <1>1, <2>3, FS_RemoveElement
  <2>5. inflight = Cardinality(devQ) + Len(fifo) + h BY <2>1 DEF InflightCount
  <2>6. inflight = Cardinality(devQ') + Len(fifo') + h
    BY <1>5, <2>2, <2>3, <2>4, <2>5
  <2> QED BY <1>1, <2>1, <2>6 DEF InflightCount
<1> QED BY <1>2, <1>6, <1>7, <1>8

\* The completion daemon takes the first request of the fifo.
LEMMA CompleteDequeueCount ==
  ASSUME TypeInv, CountInv, CompleteDequeue
  PROVE  CountInv'
<1> USE DEF CountInv, PlaceInv
<1>1. /\ fifo # <<>> /\ compCur' = Head(fifo) /\ fifo' = Tail(fifo)
      /\ compPc = "drain" /\ compPc' = "unhash" /\ inflight' = inflight - 1
      /\ UNCHANGED <<mrq, nrrq, subPc, subCur, subRq, devQ>>
  BY DEF CompleteDequeue, memqVars, subVars, devVars
<1>2. /\ QueuesApart' /\ QueueCount'
      /\ \A x : (Queued(x)' <=> Queued(x)) /\ (Held(x)' <=> Held(x))
  BY <1>1, QueuesKept
<1>3. fifo \in Seq(OpId) /\ IsInjective(fifo) BY DEF TypeInv, CompInv, CompOK, OnePlace
<1>4. PICK r : r = Head(fifo) OBVIOUS
<1>5. /\ r \in SeqRange(fifo) /\ SeqRange(fifo') \subseteq SeqRange(fifo)
      /\ r \notin SeqRange(fifo') /\ IsInjective(fifo') /\ Len(fifo') = Len(fifo) - 1
  BY <1>1, <1>3, <1>4, TailFacts
<1>6. r \in OpId BY <1>1, <1>3, <1>4, SeqFacts
<1>7. ~Queued(r) /\ ~Held(r) /\ r \notin devQ BY <1>5, <1>6 DEF OnePlace
<1>8. OnePlace'
  <2>1. SeqRange(fifo)' \subseteq SeqRange(fifo) \ {r} BY <1>5 DEF SeqRange
  <2>2. IsInjective(fifo)' BY <1>5 DEF IsInjective
  <2> QED BY <1>1, <1>2, <1>4, <1>7, <2>1, <2>2 DEF OnePlace
<1>9. DaemonsEmpty' BY <1>1 DEF DaemonsEmpty
<1>10. InflightCount'
  <2>1. PICK h : h = Cardinality({z \in Type : subRq[z] # NULL}) OBVIOUS
  <2>2. h \in Nat BY <2>1, HoldingFacts, FS_CardinalityType
  <2>3. Cardinality(devQ) \in Nat /\ Len(fifo) \in Nat
    BY <1>3, FiniteFacts, FS_CardinalityType
  <2>4. inflight = Cardinality(devQ) + Len(fifo) + h BY <2>1 DEF InflightCount
  <2>5. inflight' = Cardinality(devQ) + Len(fifo') + h BY <1>1, <1>5, <2>2, <2>3, <2>4
  <2> QED BY <1>1, <2>1, <2>5 DEF InflightCount
<1> QED BY <1>2, <1>8, <1>9, <1>10

\* The completion daemon is done with its request.
LEMMA CompleteFiniCount ==
  ASSUME TypeInv, CountInv, CompleteFini
  PROVE  CountInv'
<1> USE DEF CountInv, PlaceInv
<1>1. /\ compCur' = NULL /\ compPc' = "drain"
      /\ UNCHANGED <<mrq, nrrq, subPc, subCur, subRq, devQ, fifo, inflight>>
  BY DEF CompleteFini, memqVars, subVars, devVars
<1>2. /\ QueuesApart' /\ QueueCount'
      /\ \A x : (Queued(x)' <=> Queued(x)) /\ (Held(x)' <=> Held(x))
  BY <1>1, QueuesKept
<1>3. OnePlace'
  <2>1. SeqRange(fifo)' = SeqRange(fifo) BY <1>1 DEF SeqRange
  <2> QED BY <1>1, <1>2, <2>1, Facts DEF OnePlace, IsInjective
<1>4. DaemonsEmpty' BY <1>1 DEF DaemonsEmpty
<1>5. InflightCount' BY <1>1 DEF InflightCount
<1> QED BY <1>2, <1>3, <1>4, <1>5

-----------------------------------------------------------------------------
\* Initially all places are empty.
LEMMA CountInit == Init => CountInv
<1> SUFFICES ASSUME Init PROVE CountInv OBVIOUS
<1>1. \A m \in Memq : mrq[m] = <<>> /\ SeqRange(mrq[m]) = {} /\ IsInjective(mrq[m])
  BY DEF Init, SeqRange, IsInjective
<1>2. \A x : ~Queued(x) BY <1>1 DEF Queued
<1>3. \A x \in OpId : ~Held(x) BY Facts DEF Init, Held
<1>4. IsInjective(fifo) /\ SeqRange(fifo) = {} BY DEF Init, IsInjective, SeqRange
<1>5. QueuesApart BY <1>1 DEF QueuesApart
<1>6. OnePlace BY <1>2, <1>3, <1>4 DEF Init, OnePlace
<1>7. DaemonsEmpty BY DEF Init, DaemonsEmpty
<1>8. QueueCount
  <2>1. ASSUME NEW m \in Memq PROVE nrrq[m] = Len(mrq[m]) + Cardinality(Holding(m))
    <3>1. Holding(m) = {} BY DEF Init, Holding, Congestion
    <3>2. Len(mrq[m]) = 0 /\ nrrq[m] = 0 BY <1>1 DEF Init
    <3> QED BY <3>1, <3>2, FS_EmptySet
  <2> QED BY <2>1 DEF QueueCount, Holding, Congestion
<1>9. InflightCount
  <2>1. {y \in Type : subRq[y] # NULL} = {} BY DEF Init
  <2>2. devQ = {} /\ Len(fifo) = 0 /\ inflight = 0 BY DEF Init
  <2> QED BY <2>1, <2>2, FS_EmptySet DEF InflightCount
<1> QED BY <1>5, <1>6, <1>7, <1>8, <1>9 DEF CountInv, PlaceInv

\* Every step preserves the places and the counters.
LEMMA CountStep == TypeInv /\ HashInv /\ CountInv /\ [Next]_vars => CountInv'
<1> SUFFICES ASSUME TypeInv, HashInv, CountInv, [Next]_vars
             PROVE  CountInv'
  OBVIOUS
<1>1. ASSUME UNCHANGED vars PROVE CountInv'
  <2>1. Stays BY <1>1 DEF Stays, vars, memqVars, subVars, compVars, devVars
  <2> QED BY <2>1, StaysKeep
<1>2. ASSUME NEW t \in Thread, Invoke(t) \/ ThreadStep(t) PROVE CountInv'
  BY <1>2, ThreadClasses, ThreadStays, StaysKeep, JoinsCount
<1>3. ASSUME NEW y \in Type, Schedule(y) \/ SubmitStep(y) PROVE CountInv'
  BY <1>3, SubmitStays, StaysKeep, SubmitInvalidCount, SubmitDeviceCount,
     SubmitHoldCount, SubmitResumeCount DEF SubmitStep
<1>4. ASSUME Device PROVE CountInv'
  BY <1>4, DeviceExecCount, CompleteStays, StaysKeep DEF Device
<1>5. ASSUME CompleteStep PROVE CountInv'
  BY <1>5, CompleteStays, StaysKeep, CompleteDequeueCount, CompleteFiniCount
     DEF CompleteStep
<1>6. ASSUME Quiescent PROVE CountInv' BY <1>6, <1>1 DEF Quiescent
<1> QED BY <1>1, <1>2, <1>3, <1>4, <1>5, <1>6 DEF Next

\* The places and the counters are right in every behaviour.
LEMMA CountInvariant == Spec => [](TypeInv /\ HashInv /\ CountInv)
<1>1. Init => CountInv BY CountInit
<1>2. TypeInv /\ HashInv /\ CountInv /\ [Next]_vars => CountInv' BY CountStep
<1> QED BY <1>1, <1>2, HashInvariant, PTL DEF Spec

\* nr_rq of a memory queue counts its requests and the one a congested submission
\* daemon holds back, for any limit on the requests in flight: a queue is freed by
\* the submission daemon only when it is empty, and is never queued again empty.
THEOREM QueueCountAlways == Spec => []QueueCount
<1>1. TypeInv /\ HashInv /\ CountInv => QueueCount BY DEF CountInv
<1> QED BY <1>1, CountInvariant, PTL

\* in_flight_rq counts the requests the daemons hold back, the device has or the
\* fifo holds: every request is counted once and uncounted once.
THEOREM InflightCountAlways == Spec => []InflightCount
<1>1. TypeInv /\ HashInv /\ CountInv => InflightCount BY DEF CountInv
<1> QED BY <1>1, CountInvariant, PTL

-----------------------------------------------------------------------------
(* Commands of one key. *)

\* Positions of the completion daemon at which its request is still in flight.
Completing == {"unhash", "low", "lock", "ra_dup"}

\* A request that was submitted and is not yet taken from the hash for completion.
Submitted(r) ==
    Held(r) \/ r \in devQ \/ r \in SeqRange(fifo) \/ (r = compCur /\ compPc = "unhash")

\* A request that was submitted and whose completion was not announced.
Flying(r) ==
    \/ Held(r) \/ r \in devQ \/ r \in SeqRange(fifo)
    \/ r = compCur /\ compPc \in Completing

\* A request's bits and the hash fit its place.  KV_async_inFlight_rq is set from the
\* submission to the completion; the hash holds what is queued or submitted, but for
\* the invalid requests and those that another request was put behind; only a request
\* in flight blocks another one, and it is not invalid.
RequestOK(r) ==
    /\ "inFlight" \in bits[r] <=> Flying(r)
    /\ r \in rqHash => Queued(r) \/ Submitted(r)
    /\ Queued(r) => r \in rqHash \/ "invalid" \in bits[r]
    /\ Submitted(r) => r \in rqHash \/ "blocking" \in bits[r]
    /\ "invalid" \in bits[r] => "inFlight" \notin bits[r]
    /\ "blocking" \in bits[r] => "inFlight" \in bits[r]
RequestInv == \A r \in OpId : RequestOK(r)

\* PendingPair without the reference count, and what the completion daemon finds
\* when it looks for the request that its own one blocks.
Behind ==
    /\ \A r \in OpId : blk[r] # NULL =>
        /\ r \in rqHash /\ "inFlight" \notin bits[r]
        /\ key[blk[r]] = key[r]
        /\ "blocking" \in bits[blk[r]] \/ Unblocking(blk[r])
    /\ \A b \in OpId : "blocking" \in bits[b] => \E r \in OpId : blk[r] = b
    /\ compPc = "pend_find" => \E r \in OpId : blk[r] = compCur
    /\ compPc = "pend_lock" => blk[compBuf] = compCur

\* Every request of a queue names the queue.
QueueNamed == \A m \in Memq : \A r \in SeqRange(mrq[m]) : memq[r] = m

\* A queue that a submission daemon has, or that waits for it, is not active and is
\* never made active again.
Away(m) == \E y \in Type : m \in SeqRange(mlist[y]) \/ subCur[y] = m
ActiveApart ==
    /\ active["READ"] # active["WRITE"]
    /\ \A y \in Type : active[y] <= nmemq
    /\ \A m \in Memq : Away(m) => m <= nmemq /\ \A y \in Type : active[y] # m

\* nr_pending of a queue counts its blocked requests, ...
Blocked(m) == {r \in OpId : blk[r] # NULL /\ memq[r] = m}
BlockedCount == \A m \in Memq : npend[m] = Cardinality(Blocked(m))
\* ... and there is none while the queue is submitted.
Submitting == {"submit", "cong_set", "cong_wait"}
NoneBlocked ==
    \A y \in Type : subPc[y] \in Submitting =>
        \A r \in SeqRange(mrq[subCur[y]]) : blk[r] = NULL

\* The queues and their counts of blocked requests.
QueueInv == QueueNamed /\ ActiveApart /\ BlockedCount /\ NoneBlocked

\* The inductive invariant of this module.
PendInv == RequestInv /\ Behind /\ QueueInv

-----------------------------------------------------------------------------
(* Steps that leave the requests where they are. *)

\* The completion daemon stays in one of the stages that matter here.
SameStage ==
    /\ compPc' \in Completing <=> compPc \in Completing
    /\ \A label \in {"unhash", "pend_find", "pend_lock"} : compPc' = label <=> compPc = label

\* The bits of the requests, but for the wake-up.
LEMMA BitsKept ==
  ASSUME NEW r, bits'[r] \ {"flush_wakeup"} = bits[r] \ {"flush_wakeup"}
  PROVE  /\ "inFlight" \in bits'[r] <=> "inFlight" \in bits[r]
         /\ "blocking" \in bits'[r] <=> "blocking" \in bits[r]
         /\ "invalid" \in bits'[r] <=> "invalid" \in bits[r]
         /\ "completed" \in bits'[r] <=> "completed" \in bits[r]
         /\ "in_readahead" \in bits'[r] <=> "in_readahead" \in bits[r]
<1>1. \A x : x # "flush_wakeup" => (x \in bits'[r] <=> x \in bits[r]) OBVIOUS
<1> QED BY <1>1

\* What a request is pending on is inserted.
LEMMA BlockerFacts ==
  ASSUME TypeInv, HashInv, Behind, NEW r \in OpId, blk[r] # NULL
  PROVE  blk[r] \in OpId /\ blk[r] \in Inserted /\ r \in Inserted /\ r \in rqHash
<1>1. blk[r] \in OpId BY DEF TypeInv, ReqOK, Ptr, OpId, NULL
<1>2. r \in rqHash /\ r \in Inserted BY DEF Behind, HashInv, InsertedFirst
<1>3. CASE "blocking" \in bits[blk[r]]
  BY <1>1, <1>2, <1>3 DEF HashInv, InsertedFirst, Unusable
<1>4. CASE Unblocking(blk[r])
  BY <1>1, <1>2, <1>4, Facts DEF HashInv, InsertedFirst, Unblocking
<1> QED BY <1>3, <1>4 DEF Behind

\* Two requests are not pending on the same one.
LEMMA BehindUnique ==
  ASSUME TypeInv, HashInv, Behind, NEW r \in OpId, NEW s \in OpId,
         blk[r] # NULL, blk[s] = blk[r]
  PROVE  s = r
  BY DEF Behind, HashInv, HashUnique

\* A request that a step leaves as it is.
SameRq(x) ==
    /\ \A s \in {"inFlight", "blocking", "invalid"} : s \in bits'[x] <=> s \in bits[x]
    /\ x \in rqHash' <=> x \in rqHash
    /\ Queued(x)' <=> Queued(x)
    /\ Submitted(x)' <=> Submitted(x)
    /\ Flying(x)' <=> Flying(x)

\* A step that moves one request only.
LEMMA OneMoves ==
  ASSUME RequestInv, NEW r \in OpId, RequestOK(r)',
         \A x \in OpId : x # r => SameRq(x)
  PROVE  RequestInv'
<1>1. ASSUME NEW x \in OpId, x # r PROVE RequestOK(x)'
  BY <1>1 DEF RequestInv, RequestOK, SameRq
<1> QED BY <1>1 DEF RequestInv

\* A step that leaves what is pending pending, and on the same requests.
PendingKept ==
    /\ UNCHANGED blk
    /\ \A r \in OpId : blk[r] # NULL => r \in rqHash' /\ "inFlight" \notin bits'[r]
    /\ \A r \in OpId : "blocking" \in bits'[r] <=> "blocking" \in bits[r]
    /\ \A r \in Inserted : key'[r] = key[r]
    /\ compPc \in {"pend_find", "pend_lock"} <=> compPc' \in {"pend_find", "pend_lock"}
    /\ compPc' \in {"pend_find", "pend_lock"} =>
          UNCHANGED <<compPc, compCur, compBuf>>

\* Such a step preserves what is known of the pending requests.
LEMMA BehindKeep ==
  ASSUME TypeInv, HashInv, Behind, PendingKept
  PROVE  Behind'
<1>1. ASSUME NEW r \in OpId, blk[r] # NULL
      PROVE  /\ r \in rqHash' /\ "inFlight" \notin bits'[r]
             /\ key'[blk[r]] = key'[r]
             /\ "blocking" \in bits'[blk[r]] \/ Unblocking(blk[r])'
  <2>1. blk[r] \in OpId /\ blk[r] \in Inserted /\ r \in Inserted BY <1>1, BlockerFacts
  <2>2. r \in rqHash' /\ "inFlight" \notin bits'[r] BY <1>1 DEF PendingKept
  <2>3. key'[blk[r]] = key'[r] BY <1>1, <2>1 DEF Behind, PendingKept
  <2>4. blk'[r] = blk[r] BY DEF PendingKept
  <2>5. "blocking" \in bits'[blk[r]] \/ Unblocking(blk[r])'
    <3>1. CASE "blocking" \in bits[blk[r]] BY <2>1, <3>1 DEF PendingKept
    <3>2. CASE Unblocking(blk[r]) BY <2>4, <3>2 DEF Unblocking, PendingKept
    <3> QED BY <1>1, <3>1, <3>2 DEF Behind
  <2> QED BY <2>2, <2>3, <2>5
<1>2. \A b \in OpId : "blocking" \in bits'[b] => \E r \in OpId : blk[r] = b
  BY DEF Behind, PendingKept
<1>3. compPc' = "pend_find" => \E r \in OpId : blk[r] = compCur'
  BY DEF Behind, PendingKept
<1>4. compPc' = "pend_lock" => blk[compBuf'] = compCur' BY DEF Behind, PendingKept
<1> QED BY <1>1, <1>2, <1>3, <1>4 DEF Behind, PendingKept

\* No request moves or changes its state, except that it may be asked for a wake-up.
Calm ==
    /\ UNCHANGED <<blk, rqHash, mrq, subRq, devQ, fifo, compCur, compBuf>>
    /\ SameStage
    /\ \A r \in OpId : bits'[r] \ {"flush_wakeup"} = bits[r] \ {"flush_wakeup"}
    /\ \A r \in Inserted : key'[r] = key[r]

\* A calm step preserves what is known of the requests.
LEMMA CalmKeep ==
  ASSUME TypeInv, HashInv, RequestInv, Behind, Calm
  PROVE  RequestInv' /\ Behind'
<1>1. \A r \in OpId : \A s \in {"inFlight", "blocking", "invalid"} :
          s \in bits'[r] <=> s \in bits[r]
  BY BitsKept DEF Calm
<1>2. \A r : (Queued(r)' <=> Queued(r)) /\ (Held(r)' <=> Held(r))
  BY DEF Calm, Queued, Held, SeqRange
<1>3. SeqRange(fifo)' = SeqRange(fifo) BY DEF Calm, SeqRange
<1>4. \A r : (Submitted(r)' <=> Submitted(r)) /\ (Flying(r)' <=> Flying(r))
  BY <1>2, <1>3 DEF Calm, SameStage, Submitted, Flying
<1>5. \A r \in OpId : SameRq(r) BY <1>1, <1>2, <1>4 DEF SameRq, Calm
<1>6. \A r \in OpId : RequestOK(r)' BY <1>5 DEF RequestInv, RequestOK, SameRq
<1>7. RequestInv' BY <1>6 DEF RequestInv
<1>8. PendingKept BY <1>1 DEF Calm, SameStage, PendingKept, Behind
<1> QED BY <1>7, <1>8, BehindKeep

\* The threads' steps that neither insert nor invalidate are calm.
LEMMA SteadyCalm ==
  ASSUME Steady
  PROVE  Calm
  BY DEF Steady, steadyVars, memqVars, Calm, SameStage

\* So are the steps of the daemons between two requests.
LEMMA DaemonCalm ==
  ASSUME \/ InterruptWake \/ CompleteStart \/ CompleteLowWatermark
         \/ \E y \in Type : CompleteWake(y)
         \/ \E y \in Type : \/ Schedule(y) \/ SubmitStart(y) \/ SubmitEnd(y)
                            \/ SubmitPark(y) \/ SubmitKick(y) \/ SubmitSleep(y)
                            \/ SubmitTake(y) \/ SubmitCongested(y) \/ SubmitDone(y)
  PROVE  Calm
<1> USE DEF Calm, SameStage, Completing, reqVars, hashVars, memqVars, subVars, compVars,
            devVars
<1>1. CASE InterruptWake BY <1>1 DEF InterruptWake
<1>2. CASE CompleteStart BY <1>2 DEF CompleteStart
<1>3. CASE CompleteLowWatermark BY <1>3 DEF CompleteLowWatermark
<1>4. ASSUME NEW y \in Type, CompleteWake(y) PROVE Calm BY <1>4 DEF CompleteWake
<1>5. ASSUME NEW y \in Type, Schedule(y) PROVE Calm BY <1>5 DEF Schedule
<1>6. ASSUME NEW y \in Type, SubmitStart(y) PROVE Calm BY <1>6 DEF SubmitStart
<1>7. ASSUME NEW y \in Type, SubmitEnd(y) PROVE Calm BY <1>7 DEF SubmitEnd
<1>8. ASSUME NEW y \in Type, SubmitPark(y) PROVE Calm BY <1>8 DEF SubmitPark
<1>9. ASSUME NEW y \in Type, SubmitKick(y) PROVE Calm BY <1>9 DEF SubmitKick
<1>10. ASSUME NEW y \in Type, SubmitSleep(y) PROVE Calm BY <1>10 DEF SubmitSleep
<1>11. ASSUME NEW y \in Type, SubmitTake(y) PROVE Calm BY <1>11 DEF SubmitTake
<1>12. ASSUME NEW y \in Type, SubmitCongested(y) PROVE Calm BY <1>12 DEF SubmitCongested
<1>13. ASSUME NEW y \in Type, SubmitDone(y) PROVE Calm BY <1>13 DEF SubmitDone
<1> QED BY <1>1, <1>2, <1>3, <1>4, <1>5, <1>6, <1>7, <1>8, <1>9, <1>10, <1>11, <1>12,
           <1>13

-----------------------------------------------------------------------------
(* The steps of the threads that touch the hash. *)

\* A request that is not inserted yet is nowhere.
LEMMA NewRq ==
  ASSUME TypeInv, HashInv, NEW n \in OpId, n \notin Inserted
  PROVE  /\ ~Queued(n) /\ ~Submitted(n) /\ ~Flying(n) /\ n \notin rqHash
         /\ "invalid" \notin bits[n] /\ "blocking" \notin bits[n]
         /\ Behind => blk[n] = NULL
<1>1. \A S, q : q \in Seq(S) /\ n \notin S => n \notin SeqRange(q) BY DEF SeqRange
<1>2. ~Queued(n) BY <1>1 DEF HashInv, InsertedFirst, Queued
<1>3. ~Held(n) BY Facts DEF HashInv, InsertedFirst, Held
<1>4. n \notin SeqRange(fifo) BY <1>1 DEF HashInv, InsertedFirst
<1>5. n \notin devQ /\ n # compCur /\ n \notin rqHash
  BY Facts DEF HashInv, InsertedFirst
<1>6. ~Submitted(n) /\ ~Flying(n) BY <1>3, <1>4, <1>5 DEF Submitted, Flying
<1>7. ~Unusable(n) BY DEF HashInv, InsertedFirst
<1>8. Behind => blk[n] = NULL BY <1>5 DEF Behind
<1> QED BY <1>2, <1>5, <1>6, <1>7, <1>8 DEF Unusable

\* The parts of a request's place that depend on neither the queues nor the hash.
LEMMA PlacesKept ==
  ASSUME UNCHANGED <<subRq, devQ, fifo, compPc, compCur>>
  PROVE  \A r : (Submitted(r)' <=> Submitted(r)) /\ (Flying(r)' <=> Flying(r))
<1>1. \A r : Held(r)' <=> Held(r) BY DEF Held
<1>2. SeqRange(fifo)' = SeqRange(fifo) BY DEF SeqRange
<1> QED BY <1>1, <1>2 DEF Submitted, Flying

\* A request of the hash that is in flight is submitted, one that is not is queued.
LEMMA HashedPlace ==
  ASSUME CountInv, RequestInv, NEW r \in OpId, r \in rqHash
  PROVE  /\ "inFlight" \in bits[r] => Submitted(r) /\ ~Queued(r)
         /\ "inFlight" \notin bits[r] => Queued(r) /\ ~Submitted(r)
<1>1. RequestOK(r) BY DEF RequestInv
<1>2. Submitted(r) => Flying(r) BY DEF Submitted, Flying, Completing
<1>3. Queued(r) => ~Flying(r) BY DEF CountInv, PlaceInv, OnePlace, Flying
<1> QED BY <1>1, <1>2, <1>3 DEF RequestOK

\* A thread inserts its request, with or without another one before it.
LEMMA JoinsRequest ==
  ASSUME TypeInv, HashInv, CountInv, RequestInv, Behind, NEW t \in Thread, Joins(t)
  PROVE  RequestInv' /\ Behind'
<1>1. PICK n \in OpId, pending \in BOOLEAN : n = me[t] /\ Enqueue(n, pending)
  BY DEF Joins
<1>2. n \notin Inserted BY <1>1 DEF Joins
<1>3. /\ ~Queued(n) /\ ~Submitted(n) /\ ~Flying(n) /\ n \notin rqHash
      /\ "invalid" \notin bits[n] /\ "blocking" \notin bits[n] /\ blk[n] = NULL
  BY <1>2, NewRq
<1>4. "inFlight" \notin bits[n] BY <1>3 DEF RequestInv, RequestOK
<1>5. Queued(n)' /\ \A x : x # n => (Queued(x)' <=> Queued(x))
  BY <1>1, <1>3, Enqueued DEF CountInv, PlaceInv
<1>6. \A r : (Submitted(r)' <=> Submitted(r)) /\ (Flying(r)' <=> Flying(r))
  BY PlacesKept DEF Joins
<1>7. UNCHANGED <<key, compPc, compCur, compBuf>> BY DEF Joins
<1>8. CASE AsyncInsertNew(t)
  <2>1. UNCHANGED <<bits, blk>> /\ rqHash' = rqHash \cup {n}
    BY <1>1, <1>8 DEF AsyncInsertNew
  <2>2. \A x \in OpId : x # n => SameRq(x) BY <1>5, <1>6, <2>1 DEF SameRq
  <2>3. RequestOK(n)' BY <1>3, <1>4, <1>5, <1>6, <2>1 DEF RequestOK
  <2>4. RequestInv' BY <2>2, <2>3, OneMoves
  <2>5. PendingKept BY <1>7, <2>1 DEF PendingKept, Behind
  <2> QED BY <2>4, <2>5, BehindKeep
<1>9. CASE AsyncInsertLocked(t) /\ InsertBehind(t, buf[t])
  <2>1. PICK b : b = buf[t] OBVIOUS
  <2>2. b \in rqHash /\ b \in OpId /\ key[b] = key[n] /\ ~Unusable(b)
    BY <1>1, <1>9, <2>1
       DEF AsyncInsertLocked, HashInv, BucketHeld, HashUsable, TypeInv, HashOK
  <2>3. "inFlight" \in bits[b]
    <3>1. blk' # blk \/ "inFlight" \in bits[b]
      <4>1. blk' = [blk EXCEPT ![n] = b] BY <1>1, <1>9, <2>1 DEF InsertBehind
      <4>2. blk'[n] = b BY <4>1 DEF TypeInv, ReqOK
      <4> QED BY <1>3, <2>2, <4>2, Facts
    <3>2. CASE InsertMerge(t, b) /\ "inFlight" \notin bits[b]
      <4>1. UNCHANGED blk BY <3>2 DEF InsertMerge
      <4> QED BY <3>1, <4>1
    <3> QED BY <1>9, <2>1, <2>2, <3>2 DEF AsyncInsertLocked
  <2>4. /\ rqHash' = (rqHash \ {b}) \cup {n} /\ blk' = [blk EXCEPT ![n] = b]
        /\ bits' = [bits EXCEPT ![b] = @ \cup {"blocking"}]
    BY <1>1, <1>9, <2>1 DEF InsertBehind, Displace, MarkBlocking
  <2>5. n # b BY <1>3, <2>2
  <2>6. /\ bits'[b] = bits[b] \cup {"blocking"} /\ \A x \in OpId : x # b => bits'[x] = bits[x]
        /\ blk'[n] = b /\ \A x \in OpId : x # n => blk'[x] = blk[x]
    BY <2>2, <2>4 DEF TypeInv, ReqOK
  <2>7. Submitted(b) /\ ~Queued(b) BY <2>2, <2>3, HashedPlace
  <2>8. RequestOK(n)' BY <1>3, <1>4, <1>5, <1>6, <2>4, <2>5, <2>6 DEF RequestOK
  <2>9. RequestOK(b)'
    BY <1>5, <1>6, <2>2, <2>3, <2>4, <2>5, <2>6, <2>7 DEF RequestOK, RequestInv
  <2>10. \A x \in OpId : x # n /\ x # b => RequestOK(x)'
    BY <1>5, <1>6, <2>4, <2>6 DEF RequestOK, RequestInv
  <2>11. RequestInv' BY <2>8, <2>9, <2>10 DEF RequestInv
  <2>12. ASSUME NEW r \in OpId, blk'[r] # NULL
         PROVE  /\ r \in rqHash' /\ "inFlight" \notin bits'[r]
                /\ key[blk'[r]] = key[r]
                /\ "blocking" \in bits'[blk'[r]] \/ Unblocking(blk[r])'
    <3>1. CASE r = n BY <1>4, <2>2, <2>4, <2>5, <2>6, <3>1
    <3>2. CASE r # n
      <4>1. blk'[r] = blk[r] /\ blk[r] # NULL BY <2>6, <2>12, <3>2
      <4>2. r \in rqHash /\ "inFlight" \notin bits[r] /\ key[blk[r]] = key[r]
            /\ ("blocking" \in bits[blk[r]] \/ Unblocking(blk[r]))
        BY <4>1 DEF Behind
      <4>3. r # b BY <2>3, <4>2
      <4>4. blk[r] \in OpId BY <4>1, BlockerFacts
      <4>5. "blocking" \in bits[blk[r]] => "blocking" \in bits'[blk[r]] BY <2>6, <4>4
      <4>6. Unblocking(blk[r]) => Unblocking(blk[r])' BY <1>7, <4>1 DEF Unblocking
      <4> QED BY <2>4, <2>6, <4>1, <4>2, <4>3, <4>5, <4>6
    <3> QED BY <3>1, <3>2
  <2>13. ASSUME NEW x \in OpId, "blocking" \in bits'[x] PROVE \E r \in OpId : blk'[r] = x
    <3>1. CASE x = b BY <2>6, <3>1
    <3>2. CASE x # b
      <4>1. PICK r \in OpId : blk[r] = x BY <2>6, <2>13, <3>2 DEF Behind
      <4> QED BY <1>3, <2>6, <4>1, Facts
    <3> QED BY <3>1, <3>2
  <2>14. compPc \in {"pend_find", "pend_lock"} => compCur \in OpId
    BY DEF TypeInv, CompInv
  <2>15. compPc = "pend_find" => \E r \in OpId : blk'[r] = compCur
    BY <1>3, <2>6, <2>14, Facts DEF Behind
  <2>16. compPc = "pend_lock" => blk'[compBuf] = compCur
    <3>1. compPc = "pend_lock" => compBuf \in OpId BY DEF TypeInv, CompInv
    <3>2. compPc = "pend_lock" => blk[compBuf] = compCur /\ compCur # NULL
      BY <2>14, Facts DEF Behind
    <3>3. compPc = "pend_lock" => compBuf # n BY <1>3, <3>2
    <3> QED BY <2>6, <3>1, <3>2, <3>3
  <2>17. Behind'
    <3>1. \A r \in OpId : blk'[r] # NULL =>
            /\ r \in rqHash' /\ "inFlight" \notin bits'[r]
            /\ key'[blk'[r]] = key'[r]
            /\ "blocking" \in bits'[blk'[r]] \/ Unblocking(blk[r])'
      BY <1>7, <2>12
    <3>2. compPc' = "pend_find" => \E r \in OpId : blk'[r] = compCur' BY <1>7, <2>15
    <3>3. compPc' = "pend_lock" => blk'[compBuf'] = compCur' BY <1>7, <2>16
    <3>4. \A x \in OpId : "blocking" \in bits'[x] => \E r \in OpId : blk'[r] = x BY <2>13
    <3> QED BY <3>1, <3>2, <3>3, <3>4 DEF Behind
  <2> QED BY <2>11, <2>17
<1> QED BY <1>8, <1>9 DEF Joins

\* A synchronous command invalidates a request that is neither in flight nor pending.
LEMMA CancelsRequest ==
  ASSUME TypeInv, HashInv, CountInv, RequestInv, Behind, NEW t \in Thread, Cancels(t)
  PROVE  RequestInv' /\ Behind'
<1>1. PICK b : b = buf[t] OBVIOUS
<1>2. /\ b \in rqHash /\ b \in OpId /\ "inFlight" \notin bits[b] /\ blk[b] = NULL
  BY <1>1 DEF Cancels, HashInv, BucketHeld, TypeInv, HashOK
<1>3. /\ rqHash' = rqHash \ {b}
      /\ bits' = [bits EXCEPT ![b] = @ \cup {"invalid"}]
      /\ UNCHANGED <<key, blk, mrq, subRq, devQ, fifo, compPc, compCur, compBuf>>
  BY <1>1 DEF Cancels, FindBuffered, Invalidate, memqVars
<1>4. bits'[b] = bits[b] \cup {"invalid"} /\ \A x \in OpId : x # b => bits'[x] = bits[x]
  BY <1>2, <1>3 DEF TypeInv, ReqOK
<1>5. \A r : Queued(r)' <=> Queued(r) BY <1>3 DEF Queued, SeqRange
<1>6. \A r : (Submitted(r)' <=> Submitted(r)) /\ (Flying(r)' <=> Flying(r))
  BY <1>3, PlacesKept
<1>7. Queued(b) /\ ~Submitted(b) BY <1>2, HashedPlace
<1>8. RequestOK(b)'
  BY <1>2, <1>3, <1>4, <1>5, <1>6, <1>7 DEF RequestOK, RequestInv
<1>9. \A x \in OpId : x # b => SameRq(x) BY <1>3, <1>4, <1>5, <1>6 DEF SameRq
<1>10. RequestInv' BY <1>2, <1>8, <1>9, OneMoves
<1>11. PendingKept BY <1>2, <1>3, <1>4 DEF PendingKept, Behind
<1> QED BY <1>10, <1>11, BehindKeep

-----------------------------------------------------------------------------
(* The steps of the submission daemons and of the device that move a request. *)

\* The daemon drops an invalid request.
LEMMA SubmitInvalidRequest ==
  ASSUME TypeInv, HashInv, CountInv, RequestInv, Behind, NEW y \in Type, SubmitInvalid(y)
  PROVE  RequestInv' /\ Behind'
<1>1. PICK m \in Memq, r \in OpId : m = subCur[y] /\ r = Head(mrq[m])
  BY SubmitHead DEF SubmitInvalid, TypeInv, SubInv
<1>2. /\ mrq[m] # <<>> /\ mrq' = [mrq EXCEPT ![m] = Tail(@)] /\ "invalid" \in bits[r]
      /\ bits' = [bits EXCEPT ![r] = @ \ {"flush_wakeup"}]
      /\ UNCHANGED <<key, blk, rqHash, subRq, fifo, compPc, compCur, compBuf, devQ>>
  BY <1>1 DEF SubmitInvalid, subVars, compVars, devVars, hashVars
<1>3. /\ r \in OpId /\ Queued(r) /\ ~Queued(r)' /\ \A x : x # r => (Queued(x)' <=> Queued(x))
  BY <1>1, <1>2, Dequeued DEF CountInv, PlaceInv
<1>4. \A x \in OpId : bits'[x] \ {"flush_wakeup"} = bits[x] \ {"flush_wakeup"}
  BY <1>2, <1>3 DEF TypeInv, ReqOK
<1>5. \A x \in OpId : \A s \in {"inFlight", "blocking", "invalid"} :
          s \in bits'[x] <=> s \in bits[x]
  BY <1>4, BitsKept
<1>6. \A x : (Submitted(x)' <=> Submitted(x)) /\ (Flying(x)' <=> Flying(x))
  BY <1>2, PlacesKept
<1>7. r \notin rqHash BY <1>2 DEF HashInv, HashUsable, Unusable
<1>8. RequestOK(r)' BY <1>2, <1>3, <1>5, <1>6, <1>7 DEF RequestOK, RequestInv
<1>9. \A x \in OpId : x # r => SameRq(x) BY <1>2, <1>3, <1>5, <1>6 DEF SameRq
<1>10. RequestInv' BY <1>3, <1>8, <1>9, OneMoves
<1>11. PendingKept BY <1>2, <1>5 DEF PendingKept, Behind
<1> QED BY <1>10, <1>11, BehindKeep

\* A request becomes in flight.
LEMMA SubmitRqRequest ==
  ASSUME TypeInv, HashInv, CountInv, RequestInv, Behind, NEW y \in Type, SubmitRq(y)
  PROVE  RequestInv' /\ Behind'
<1>1. PICK m \in Memq, r \in OpId : m = subCur[y] /\ r = Head(mrq[m])
  BY SubmitHead DEF SubmitRq, TypeInv, SubInv
<1>2. /\ mrq[m] # <<>> /\ mrq' = [mrq EXCEPT ![m] = Tail(@)] /\ "invalid" \notin bits[r]
      /\ bits' = [bits EXCEPT ![r] = @ \cup {"inFlight"}] /\ blk[r] = NULL
      /\ subPc[y] = "submit"
      /\ UNCHANGED <<key, blk, rqHash, fifo, compPc, compCur, compBuf>>
  BY <1>1 DEF SubmitRq, hashVars
<1>3. /\ r \in OpId /\ Queued(r) /\ ~Queued(r)' /\ \A x : x # r => (Queued(x)' <=> Queued(x))
  BY <1>1, <1>2, Dequeued DEF CountInv, PlaceInv
<1>4. bits'[r] = bits[r] \cup {"inFlight"} /\ \A x \in OpId : x # r => bits'[x] = bits[x]
  BY <1>2, <1>3 DEF TypeInv, ReqOK
<1>5. subRq \in [Type -> Ptr] /\ subRq[y] = NULL
  BY <1>2 DEF TypeInv, SubInv, SubOK, CountInv, PlaceInv, DaemonsEmpty
<1>6. \/ subRq' = [subRq EXCEPT ![y] = r] /\ UNCHANGED devQ
      \/ devQ' = devQ \cup {r} /\ UNCHANGED subRq
  BY <1>1 DEF SubmitRq
<1>7. \A x \in OpId : Held(x)' \/ x \in devQ' <=> Held(x) \/ x \in devQ \/ x = r
  BY <1>5, <1>6, <1>3, Facts DEF Held
<1>8. SeqRange(fifo)' = SeqRange(fifo) BY <1>2 DEF SeqRange
<1>9. \A x \in OpId : /\ Submitted(x)' <=> Submitted(x) \/ x = r
                      /\ Flying(x)' <=> Flying(x) \/ x = r
  BY <1>2, <1>7, <1>8 DEF Submitted, Flying
<1>10. RequestOK(r)'
  BY <1>2, <1>3, <1>4, <1>9 DEF RequestOK, RequestInv
<1>11. \A x \in OpId : x # r => SameRq(x) BY <1>2, <1>3, <1>4, <1>9 DEF SameRq
<1>12. RequestInv' BY <1>3, <1>10, <1>11, OneMoves
<1>13. PendingKept BY <1>2, <1>4 DEF PendingKept, Behind
<1> QED BY <1>12, <1>13, BehindKeep

\* A request goes on from the daemon to the device, from there to the fifo, and from
\* there to the completion daemon.
Forwards(r) ==
    /\ r \in OpId
    /\ UNCHANGED <<key, blk, bits, rqHash, mrq, compBuf>>
    /\ \A x \in OpId : x # r => (Submitted(x)' <=> Submitted(x)) /\ (Flying(x)' <=> Flying(x))
    /\ Submitted(r) /\ Submitted(r)'
    /\ compPc' \in {"pend_find", "pend_lock"} => UNCHANGED <<compPc, compCur>>
    /\ compPc \in {"pend_find", "pend_lock"} <=> compPc' \in {"pend_find", "pend_lock"}

\* It stays in flight and in the hash.
LEMMA ForwardsRequest ==
  ASSUME TypeInv, HashInv, RequestInv, Behind, NEW r, Forwards(r)
  PROVE  RequestInv' /\ Behind'
<1>1. Flying(r) /\ Flying(r)' BY DEF Forwards, Submitted, Flying, Completing
<1>2. \A x : Queued(x)' <=> Queued(x) BY DEF Forwards, Queued, SeqRange
<1>3. \A x \in OpId : SameRq(x) BY <1>1, <1>2 DEF Forwards, SameRq
<1>4. \A x \in OpId : RequestOK(x)' BY <1>3 DEF RequestInv, RequestOK, SameRq
<1>5. RequestInv' BY <1>4 DEF RequestInv
<1>6. PendingKept BY DEF Forwards, PendingKept, Behind
<1> QED BY <1>5, <1>6, BehindKeep

\* The daemon hands over the request it held back.
LEMMA SubmitResumeForwards ==
  ASSUME TypeInv, CountInv, NEW y \in Type, SubmitResume(y), NEW r, r = subRq[y]
  PROVE  Forwards(r)
<1>1. /\ r \in OpId /\ devQ' = devQ \cup {r} /\ subRq' = [subRq EXCEPT ![y] = NULL]
      /\ UNCHANGED <<key, blk, bits, rqHash, mrq, fifo, compPc, compCur, compBuf>>
  BY DEF SubmitResume, TypeInv, SubInv, reqVars, hashVars, compVars
<1>2. subRq \in [Type -> Ptr] BY DEF TypeInv, SubInv, SubOK
<1>3. \A x \in OpId : x # r => (Held(x)' <=> Held(x)) BY <1>1, <1>2, Facts DEF Held
<1>4. SeqRange(fifo)' = SeqRange(fifo) BY <1>1 DEF SeqRange
<1>5. Held(r) BY DEF Held
<1> QED BY <1>1, <1>3, <1>4, <1>5 DEF Forwards, Submitted, Flying

\* The device executes a request.
LEMMA DeviceExecForwards ==
  ASSUME TypeInv, CountInv, NEW r \in OpId, DeviceExec(r)
  PROVE  Forwards(r)
<1>1. /\ r \in devQ /\ devQ' = devQ \ {r} /\ fifo' = Append(fifo, r)
      /\ UNCHANGED <<key, blk, bits, rqHash, mrq, subRq, compPc, compCur, compBuf>>
  BY DEF DeviceExec, memqVars, subVars, hashVars
<1>2. SeqRange(fifo') = SeqRange(fifo) \cup {r}
  BY <1>1, AppendFacts DEF TypeInv, CompInv, CompOK
<1>3. SeqRange(fifo)' = SeqRange(fifo) \cup {r} BY <1>2 DEF SeqRange
<1>4. \A x : Held(x)' <=> Held(x) BY <1>1 DEF Held
<1> QED BY <1>1, <1>3, <1>4 DEF Forwards, Submitted, Flying

\* The completion daemon takes a request from the fifo.
LEMMA CompleteDequeueForwards ==
  ASSUME TypeInv, CountInv, CompleteDequeue, NEW r, r = Head(fifo)
  PROVE  Forwards(r)
<1>1. /\ fifo # <<>> /\ compCur' = r /\ fifo' = Tail(fifo)
      /\ compPc = "drain" /\ compPc' = "unhash"
      /\ UNCHANGED <<key, blk, bits, rqHash, mrq, subRq, devQ, compBuf>>
  BY DEF CompleteDequeue, memqVars, subVars, devVars, reqVars, hashVars
<1>2. fifo \in Seq(OpId) BY DEF TypeInv, CompInv, CompOK
<1>3. /\ r \in SeqRange(fifo) /\ SeqRange(fifo') \subseteq SeqRange(fifo)
      /\ SeqRange(fifo) \subseteq SeqRange(fifo') \cup {r}
  BY <1>1, <1>2, TailFacts
<1>4. SeqRange(fifo)' = SeqRange(fifo') BY DEF SeqRange
<1>5. r \in OpId BY <1>1, <1>2, SeqFacts
<1>6. \A x : Held(x)' <=> Held(x) BY <1>1 DEF Held
<1>7. ASSUME NEW x \in OpId, x # r
      PROVE  (Submitted(x)' <=> Submitted(x)) /\ (Flying(x)' <=> Flying(x))
  BY <1>1, <1>3, <1>4, <1>6, <1>7 DEF Submitted, Flying, Completing
<1>8. Submitted(r) /\ Submitted(r)' BY <1>1, <1>3 DEF Submitted
<1> QED BY <1>1, <1>5, <1>7, <1>8 DEF Forwards

-----------------------------------------------------------------------------
(* The steps of the completion daemon. *)

\* The request of the completion daemon is nowhere else.
LEMMA CurPlace ==
  ASSUME TypeInv, CountInv, NEW c \in OpId, c = compCur
  PROVE  /\ ~Queued(c) /\ ~Held(c) /\ c \notin devQ /\ c \notin SeqRange(fifo)
         /\ Submitted(c) <=> compPc = "unhash"
         /\ Flying(c) <=> compPc \in Completing
<1>1. ~Queued(c) /\ ~Held(c) /\ c \notin devQ /\ c \notin SeqRange(fifo)
  BY DEF CountInv, PlaceInv, OnePlace
<1> QED BY <1>1 DEF Submitted, Flying

\* The completed request is taken from the hash.
LEMMA CompleteUnhashRequest ==
  ASSUME TypeInv, HashInv, CountInv, RequestInv, Behind, CompleteUnhash
  PROVE  RequestInv' /\ Behind'
<1>1. PICK c \in OpId : c = compCur BY DEF CompleteUnhash, TypeInv, CompInv
<1>2. /\ compPc = "unhash" /\ compPc' = "low" /\ rqHash' = rqHash \ {c}
      /\ UNCHANGED <<key, blk, bits, mrq, subRq, devQ, fifo, compCur, compBuf>>
  BY <1>1 DEF CompleteUnhash, memqVars, subVars, devVars, reqVars
<1>3. \A x : (Queued(x)' <=> Queued(x)) /\ (Held(x)' <=> Held(x))
  BY <1>2 DEF Queued, Held, SeqRange
<1>4. SeqRange(fifo)' = SeqRange(fifo) BY <1>2 DEF SeqRange
<1>5. ~Queued(c) /\ ~Held(c) /\ c \notin devQ /\ c \notin SeqRange(fifo) /\ Flying(c)
  BY <1>1, <1>2, CurPlace DEF Completing
<1>6. Flying(c)' /\ ~Submitted(c)' /\ ~Queued(c)'
  BY <1>1, <1>2, <1>3, <1>4, <1>5 DEF Flying, Submitted, Completing
<1>7. RequestOK(c)' BY <1>2, <1>5, <1>6 DEF RequestOK, RequestInv
<1>8. \A x \in OpId : x # c => SameRq(x)
  BY <1>1, <1>2, <1>3, <1>4 DEF SameRq, Submitted, Flying
<1>9. RequestInv' BY <1>7, <1>8, OneMoves
<1>10. "inFlight" \in bits[c] BY <1>5 DEF RequestInv, RequestOK
<1>11. PendingKept BY <1>2, <1>10 DEF PendingKept, Behind
<1> QED BY <1>9, <1>11, BehindKeep

\* The completion is announced: the request is not in flight any more, and the daemon
\* turns to the request behind it if there is one.
Announces ==
    /\ compPc \in {"lock", "ra_dup"} /\ compPc' = AfterSignal(compCur)
    /\ UNCHANGED <<key, blk, rqHash, mrq, subRq, devQ, fifo, compCur>>
    /\ \A x \in OpId : x # compCur => bits'[x] = bits[x]
    /\ "inFlight" \notin bits'[compCur] /\ "blocking" \notin bits'[compCur]
    /\ "invalid" \in bits'[compCur] => "invalid" \in bits[compCur]

\* That keeps the requests in order.
LEMMA AnnouncesRequest ==
  ASSUME TypeInv, HashInv, CountInv, RequestInv, Behind, Announces
  PROVE  RequestInv' /\ Behind'
<1>1. PICK c \in OpId : c = compCur BY DEF Announces, TypeInv, CompInv
<1>2. /\ compPc' = IF "blocking" \in bits[c] THEN "pend_find" ELSE "fini"
      /\ compPc' \notin Completing /\ compPc # "unhash" /\ compCur' = c
  BY <1>1 DEF Announces, AfterSignal, Completing
<1>3. \A x : (Queued(x)' <=> Queued(x)) /\ (Held(x)' <=> Held(x))
  BY DEF Announces, Queued, Held, SeqRange
<1>4. SeqRange(fifo)' = SeqRange(fifo) BY DEF Announces, SeqRange
<1>5. ~Queued(c) /\ ~Held(c) /\ c \notin devQ /\ c \notin SeqRange(fifo) /\ ~Submitted(c)
  BY <1>1, <1>2, CurPlace
<1>6. ~Flying(c)' /\ ~Submitted(c)' /\ ~Queued(c)'
  <2>1. compPc' # "unhash" BY <1>2 DEF Completing
  <2> QED BY <1>2, <1>3, <1>4, <1>5, <2>1 DEF Announces, Flying, Submitted
<1>7. c \notin rqHash BY <1>5 DEF RequestInv, RequestOK
<1>8. RequestOK(c)' BY <1>1, <1>6, <1>7 DEF RequestOK, Announces
<1>9. \A x \in OpId : x # c => SameRq(x)
  BY <1>1, <1>2, <1>3, <1>4 DEF SameRq, Submitted, Flying, Announces
<1>10. RequestInv' BY <1>8, <1>9, OneMoves
<1>11. ASSUME NEW r \in OpId, blk[r] # NULL
       PROVE  /\ r \in rqHash' /\ "inFlight" \notin bits'[r]
              /\ key'[blk[r]] = key'[r]
              /\ "blocking" \in bits'[blk[r]] \/ Unblocking(blk[r])'
  <2>1. /\ r \in rqHash /\ "inFlight" \notin bits[r] /\ key[blk[r]] = key[r]
        /\ "blocking" \in bits[blk[r]] \/ Unblocking(blk[r])
    BY <1>11 DEF Behind
  <2>2. r # c BY <1>7, <2>1
  <2>3. ~Unblocking(blk[r]) BY DEF Announces, Unblocking
  <2>4. CASE blk[r] = c
    <3>1. compPc' = "pend_find" BY <1>2, <2>1, <2>3, <2>4
    <3>2. Unblocking(blk[r])' BY <1>2, <2>4, <3>1 DEF Unblocking, Announces
    <3> QED BY <1>1, <2>1, <2>2, <3>2 DEF Announces
  <2>5. CASE blk[r] # c
    <3>1. blk[r] \in OpId BY <1>11, BlockerFacts
    <3> QED BY <1>1, <2>1, <2>2, <2>3, <2>5, <3>1 DEF Announces
  <2> QED BY <2>4, <2>5
<1>12. \A b \in OpId : "blocking" \in bits'[b] => \E r \in OpId : blk[r] = b
  BY <1>1 DEF Behind, Announces
<1>13. compPc' = "pend_find" => \E r \in OpId : blk[r] = c
  BY <1>2 DEF Behind
<1>14. compPc' # "pend_lock" BY <1>2
<1>15. Behind' BY <1>2, <1>11, <1>12, <1>13, <1>14 DEF Behind, Announces
<1> QED BY <1>10, <1>15

\* The request is completed; its data may be in the read-ahead hash already.
LEMMA CompleteLockRequest ==
  ASSUME TypeInv, HashInv, CountInv, RequestInv, Behind, CompleteLock
  PROVE  RequestInv' /\ Behind'
<1>1. PICK c \in OpId : c = compCur BY DEF CompleteLock, TypeInv, CompInv
<1>2. /\ compPc = "lock"
      /\ UNCHANGED <<key, blk, rqHash, mrq, subRq, devQ, fifo, compCur>>
  BY DEF CompleteLock, memqVars, subVars, devVars
<1>3. bits \in [OpId -> SUBSET Bit] BY DEF TypeInv, ReqOK
<1>4. CASE /\ bits' = [bits EXCEPT ![c] = @ \cup {"completed"}]
           /\ compPc' = "ra_dup"
  <2>1. \A x \in OpId : \A s \in {"inFlight", "blocking", "invalid"} :
            s \in bits'[x] <=> s \in bits[x]
    BY <1>3, <1>4
  <2>2. \A x : (Queued(x)' <=> Queued(x)) /\ (Held(x)' <=> Held(x))
    BY <1>2 DEF Queued, Held, SeqRange
  <2>3. SeqRange(fifo)' = SeqRange(fifo) BY <1>2 DEF SeqRange
  <2>4. \A x \in OpId : SameRq(x)
    BY <1>2, <1>4, <2>1, <2>2, <2>3 DEF SameRq, Submitted, Flying, Completing
  <2>5. \A x \in OpId : RequestOK(x)' BY <2>4 DEF RequestInv, RequestOK, SameRq
  <2>6. RequestInv' BY <2>5 DEF RequestInv
  <2>7. PendingKept BY <1>2, <1>4, <2>1 DEF PendingKept, Behind
  <2> QED BY <2>6, <2>7, BehindKeep
<1>5. ASSUME NEW extra \in SUBSET {"completed", "in_readahead"},
             bits' = [bits EXCEPT ![c] = Signalled(@) \cup extra],
             compPc' = AfterSignal(c)
      PROVE  Announces
  <2>1. bits'[c] = Signalled(bits[c]) \cup extra BY <1>3, <1>5
  <2>2. /\ "inFlight" \notin bits'[c] /\ "blocking" \notin bits'[c]
        /\ "invalid" \in bits'[c] => "invalid" \in bits[c]
    BY <2>1 DEF Signalled
  <2> QED BY <1>1, <1>2, <1>3, <1>5, <2>2 DEF Announces
<1>6. CASE ~(compPc' = "ra_dup")
  <2>1. PICK get \in BOOLEAN :
          /\ bits' = [bits EXCEPT ![c] = Signalled(@) \cup {"completed"}
                            \cup (IF get THEN {"in_readahead"} ELSE {})]
          /\ compPc' = AfterSignal(c)
    BY <1>1, <1>6 DEF CompleteLock
  <2>2. PICK extra \in SUBSET {"completed", "in_readahead"} :
          extra = {"completed"} \cup (IF get THEN {"in_readahead"} ELSE {})
    OBVIOUS
  <2>3. Signalled(bits[c]) \cup {"completed"} \cup (IF get THEN {"in_readahead"} ELSE {})
          = Signalled(bits[c]) \cup extra
    BY <2>2
  <2>4. bits' = [bits EXCEPT ![c] = Signalled(@) \cup extra] BY <2>1, <2>3
  <2> QED BY <1>5, <2>1, <2>4, AnnouncesRequest
<1>7. CASE compPc' = "ra_dup"
  <2>1. AfterSignal(c) # "ra_dup" BY DEF AfterSignal
  <2>2. bits' = [bits EXCEPT ![c] = @ \cup {"completed"}]
    BY <1>1, <1>7, <2>1 DEF CompleteLock
  <2> QED BY <1>4, <1>7, <2>2
<1> QED BY <1>6, <1>7

\* The data was there already.
LEMMA CompleteDuplicateRequest ==
  ASSUME TypeInv, HashInv, CountInv, RequestInv, Behind, CompleteDuplicate
  PROVE  RequestInv' /\ Behind'
<1>1. PICK c \in OpId : c = compCur BY DEF CompleteDuplicate, TypeInv, CompInv
<1>2. /\ compPc = "ra_dup" /\ compPc' = AfterSignal(c)
      /\ bits' = [bits EXCEPT ![c] = Signalled(@)]
      /\ UNCHANGED <<key, blk, rqHash, mrq, subRq, devQ, fifo, compCur>>
  BY <1>1 DEF CompleteDuplicate, memqVars, subVars, devVars, hashVars
<1>3. bits'[c] = Signalled(bits[c]) /\ \A x \in OpId : x # c => bits'[x] = bits[x]
  BY <1>2 DEF TypeInv, ReqOK
<1>4. Announces BY <1>1, <1>2, <1>3 DEF Announces, Signalled
<1> QED BY <1>4, AnnouncesRequest

\* Steps after the completion was announced leave the requests where they are.
LEMMA AnnouncedKeep ==
  ASSUME RequestInv, UNCHANGED <<bits, rqHash, mrq, subRq, devQ, fifo>>,
         compPc \notin Completing, compPc' \notin Completing
  PROVE  RequestInv'
<1>1. \A x : (Queued(x)' <=> Queued(x)) /\ (Held(x)' <=> Held(x))
  BY DEF Queued, Held, SeqRange
<1>2. SeqRange(fifo)' = SeqRange(fifo) BY DEF SeqRange
<1>3. \A x \in OpId : SameRq(x)
  <2>1. compPc # "unhash" /\ compPc' # "unhash" BY DEF Completing
  <2> QED BY <1>1, <1>2, <2>1 DEF SameRq, Submitted, Flying
<1>4. \A x \in OpId : RequestOK(x)' BY <1>3 DEF RequestInv, RequestOK, SameRq
<1> QED BY <1>4 DEF RequestInv

\* What kv_hash_find_and_lock_pending_rq finds is the request that waits.
LEMMA CompleteFindPendingRequest ==
  ASSUME TypeInv, HashInv, RequestInv, Behind, CompleteFindPending
  PROVE  RequestInv' /\ Behind'
<1>1. PICK c \in OpId : c = compCur BY DEF CompleteFindPending, TypeInv, CompInv
<1>2. PICK r \in OpId : blk[r] = c BY <1>1 DEF CompleteFindPending, Behind
<1>3. r \in rqHash /\ key[r] = key[c] BY <1>2, Facts DEF Behind
<1>4. Hashed(rqHash, key[c]) = {r} BY <1>3 DEF Hashed, HashInv, HashUnique
<1>5. /\ compPc = "pend_find" /\ compPc' = "pend_lock" /\ compBuf' = r
      /\ UNCHANGED <<key, blk, bits, rqHash, mrq, subRq, devQ, fifo, compCur>>
  BY <1>1, <1>4 DEF CompleteFindPending, memqVars, subVars, devVars, hashVars
<1>6. RequestInv' BY <1>5, AnnouncedKeep DEF Completing
<1>7. ASSUME NEW x \in OpId, blk[x] # NULL
      PROVE  "blocking" \in bits[blk[x]] \/ Unblocking(blk[x])'
  <2>1. PICK b : b = blk[x] OBVIOUS
  <2>2. "blocking" \in bits[b] \/ Unblocking(b) BY <1>7, <2>1 DEF Behind
  <2> QED BY <1>5, <2>1, <2>2 DEF Unblocking
<1>8. Behind' BY <1>1, <1>2, <1>5, <1>7 DEF Behind
<1> QED BY <1>6, <1>8

\* The request that waited is not pending any more.
LEMMA CompleteUnblockRequest ==
  ASSUME TypeInv, HashInv, CountInv, RequestInv, Behind, CompleteUnblock
  PROVE  RequestInv' /\ Behind'
<1>1. PICK c \in OpId, p \in OpId : c = compCur /\ p = compBuf
  BY DEF CompleteUnblock, TypeInv, CompInv
<1>2. blk[p] = c /\ blk[p] # NULL BY <1>1, Facts DEF CompleteUnblock, Behind
<1>3. /\ compPc = "pend_lock" /\ compPc' = "fini"
      /\ blk' = [blk EXCEPT ![p] = NULL]
      /\ UNCHANGED <<key, bits, rqHash, mrq, subRq, devQ, fifo, compCur>>
  BY <1>1, <1>2 DEF CompleteUnblock, subVars, devVars, hashVars
<1>4. blk'[p] = NULL /\ \A x \in OpId : x # p => blk'[x] = blk[x]
  BY <1>3 DEF TypeInv, ReqOK
<1>5. RequestInv' BY <1>3, AnnouncedKeep DEF Completing
<1>6. "blocking" \notin bits[c]
  <2>1. ~Flying(c) BY <1>1, <1>3, CurPlace DEF Completing
  <2> QED BY <2>1 DEF RequestInv, RequestOK
<1>7. ASSUME NEW x \in OpId, blk'[x] # NULL
      PROVE  /\ x \in rqHash /\ "inFlight" \notin bits[x]
             /\ key[blk[x]] = key[x] /\ blk'[x] = blk[x]
             /\ "blocking" \in bits[blk[x]]
  <2>1. x # p /\ blk'[x] = blk[x] BY <1>4, <1>7
  <2>2. blk[x] # c BY <1>2, <1>7, <2>1, BehindUnique
  <2>3. ~Unblocking(blk[x]) BY <1>1, <2>2 DEF Unblocking
  <2> QED BY <1>7, <2>1, <2>3 DEF Behind
<1>8. ASSUME NEW b \in OpId, "blocking" \in bits[b] PROVE \E x \in OpId : blk'[x] = b
  <2>1. PICK x \in OpId : blk[x] = b BY <1>8 DEF Behind
  <2>2. x # p BY <1>2, <1>6, <1>8, <2>1
  <2> QED BY <1>4, <2>1, <2>2
<1>9. Behind' BY <1>3, <1>7, <1>8 DEF Behind
<1> QED BY <1>5, <1>9

\* The completion daemon is done with its request.
LEMMA CompleteFiniRequest ==
  ASSUME TypeInv, HashInv, RequestInv, Behind, CompleteFini
  PROVE  RequestInv' /\ Behind'
<1>1. /\ compPc = "fini" /\ compPc' = "drain"
      /\ UNCHANGED <<key, blk, bits, rqHash, mrq, subRq, devQ, fifo>>
  BY DEF CompleteFini, memqVars, subVars, devVars, hashVars
<1>2. RequestInv' BY <1>1, AnnouncedKeep DEF Completing
<1>3. PendingKept BY <1>1 DEF PendingKept, Behind
<1> QED BY <1>2, <1>3, BehindKeep

-----------------------------------------------------------------------------
(* The queues and their counts of blocked requests. *)

\* Nothing is enqueued, no request is blocked or unblocked, no queue goes away.
QueueCalm ==
    /\ UNCHANGED <<memq, blk, npend, active, nmemq>>
    /\ \A m \in Memq : SeqRange(mrq[m])' \subseteq SeqRange(mrq[m])
    /\ \A m \in Memq : Away(m)' => Away(m)

\* No submission starts.
NoTake ==
    \A y \in Type : subPc'[y] \in Submitting => subPc[y] \in Submitting /\ subCur'[y] = subCur[y]

\* Such a step preserves the counts.
LEMMA QueueCalmKeep ==
  ASSUME TypeInv, QueueInv, QueueCalm
  PROVE  QueueNamed' /\ ActiveApart' /\ BlockedCount' /\ (NoTake => NoneBlocked')
<1> USE DEF QueueInv
<1>1. QueueNamed' BY DEF QueueNamed, QueueCalm
<1>2. ActiveApart' BY DEF ActiveApart, QueueCalm
<1>3. BlockedCount' BY DEF BlockedCount, Blocked, QueueCalm
<1>4. ASSUME NoTake PROVE NoneBlocked'
  <2> SUFFICES ASSUME NEW y \in Type, subPc'[y] \in Submitting,
                      NEW r \in SeqRange(mrq[subCur[y]])'
               PROVE  blk'[r] = NULL
    BY DEF NoneBlocked
  <2>1. PICK m : m = subCur[y] OBVIOUS
  <2>2. subPc[y] \in Submitting /\ subCur'[y] = m BY <1>4, <2>1 DEF NoTake
  <2>3. m \in Memq BY <2>1, <2>2 DEF TypeInv, SubInv, Submitting
  <2>4. SeqRange(mrq[subCur[y]])' = SeqRange(mrq[m])' BY <2>2 DEF SeqRange
  <2>5. r \in SeqRange(mrq[m]) BY <2>3, <2>4 DEF QueueCalm
  <2> QED BY <2>1, <2>2, <2>5 DEF NoneBlocked, QueueCalm
<1> QED BY <1>1, <1>2, <1>3, <1>4

\* The steps of the threads that do not enqueue are such steps.
LEMMA ThreadQueueCalm ==
  ASSUME NEW t \in Thread, Steady \/ Cancels(t)
  PROVE  QueueCalm /\ NoTake
<1>1. UNCHANGED <<memq, blk, memqVars, subPc, subCur>>
  BY DEF Steady, steadyVars, Cancels
<1> QED BY <1>1 DEF memqVars, QueueCalm, NoTake, Away, SeqRange

\* The members of a list of queues, when it is rotated or shortened.
LEMMA ListFacts ==
  ASSUME NEW S, NEW l \in Seq(S), l # <<>>
  PROVE  /\ Head(l) \in SeqRange(l) /\ Head(l) \in S
         /\ SeqRange(Tail(l)) \subseteq SeqRange(l)
         /\ SeqRange(Append(Tail(l), Head(l))) \subseteq SeqRange(l)
<1>1. Head(l) \in S /\ Tail(l) \in Seq(S) OBVIOUS
<1>2. Head(l) \in SeqRange(l) /\ SeqRange(Tail(l)) \subseteq SeqRange(l) BY TailFacts
<1>3. PICK h \in S, u \in Seq(S) : h = Head(l) /\ u = Tail(l) BY <1>1
<1>4. SeqRange(Append(u, h)) = SeqRange(u) \cup {h} BY AppendFacts
<1> QED BY <1>2, <1>3, <1>4

\* The steps of the submission daemons that move queues.
LEMMA SubmitListsCalm ==
  ASSUME TypeInv, NEW y \in Type, SubmitPark(y) \/ SubmitTake(y) \/ SubmitDone(y)
  PROVE  QueueCalm
<1>1. UNCHANGED <<memq, blk, npend, active, nmemq, mrq>>
  BY DEF SubmitPark, SubmitTake, SubmitDone, reqVars
<1>2. \A m \in Memq : SeqRange(mrq[m])' \subseteq SeqRange(mrq[m]) BY <1>1 DEF SeqRange
<1>3. mlist \in [Type -> Seq(Memq)] /\ subCur \in [Type -> Memq \cup {NULL}]
  BY DEF TypeInv, MemqOK, SubInv, SubOK
<1>4. mlist[y] \in Seq(Memq) BY <1>3
<1>5. \A z \in Type : z # y => mlist'[z] = mlist[z] /\ subCur'[z] = subCur[z]
  BY <1>3 DEF SubmitPark, SubmitTake, SubmitDone
<1>6. ASSUME NEW m \in Memq, m \in SeqRange(mlist'[y]) \/ subCur'[y] = m
      PROVE  m \in SeqRange(mlist[y]) \/ subCur[y] = m
  <2>1. CASE SubmitPark(y)
    <3>1. mlist'[y] = Append(Tail(mlist[y]), Head(mlist[y])) /\ mlist[y] # <<>>
          /\ subCur' = subCur
      BY <1>3, <2>1 DEF SubmitPark
    <3> QED BY <1>4, <1>6, <3>1, ListFacts
  <2>2. CASE SubmitTake(y)
    <3>1. mlist'[y] = Tail(mlist[y]) /\ mlist[y] # <<>> /\ subCur'[y] = Head(mlist[y])
      BY <1>3, <2>2 DEF SubmitTake
    <3> QED BY <1>4, <1>6, <3>1, ListFacts
  <2>3. CASE SubmitDone(y)
    <3>1. subCur'[y] = NULL /\ subCur[y] \in Memq
      BY <1>3, <2>3 DEF SubmitDone, TypeInv, SubInv
    <3>2. m # NULL BY DEF Memq, NULL
    <3>3. mlist'[y] = mlist[y] \/ mlist'[y] = Append(mlist[y], subCur[y])
      BY <1>3, <2>3 DEF SubmitDone
    <3>4. SeqRange(Append(mlist[y], subCur[y])) = SeqRange(mlist[y]) \cup {subCur[y]}
      BY <1>4, <3>1, AppendFacts
    <3> QED BY <1>6, <3>1, <3>2, <3>3, <3>4
  <2> QED BY <2>1, <2>2, <2>3
<1>7. \A m \in Memq : Away(m)' => Away(m)
  <2> SUFFICES ASSUME NEW m \in Memq, Away(m)' PROVE Away(m) OBVIOUS
  <2>1. PICK z \in Type : m \in SeqRange(mlist'[z]) \/ subCur'[z] = m
    BY DEF Away, SeqRange
  <2> QED BY <1>5, <1>6, <2>1 DEF Away
<1> QED BY <1>1, <1>2, <1>7 DEF QueueCalm

\* The other steps of the daemons but three, and those of the device.
LEMMA DaemonQueueCalm ==
  ASSUME TypeInv, CountInv,
         \/ Device \/ CompleteStart \/ CompleteDequeue \/ CompleteUnhash
         \/ CompleteLowWatermark \/ CompleteLock \/ CompleteDuplicate
         \/ CompleteFindPending \/ CompleteFini \/ \E y \in Type : CompleteWake(y)
         \/ \E y \in Type : \/ SubmitStart(y) \/ SubmitEnd(y) \/ SubmitKick(y)
                            \/ SubmitSleep(y) \/ SubmitCongested(y) \/ SubmitResume(y)
  PROVE  QueueCalm /\ NoTake
<1> DEFINE Still == UNCHANGED <<memq, blk, npend, active, nmemq, mrq, mlist, subCur>>
<1>0. subPc \in [Type -> SubmitPc] BY DEF TypeInv, SubInv, SubOK
<1>1. Still /\ NoTake
  <2> USE DEF reqVars, memqVars, subVars, NoTake, Submitting
  <2>1. CASE Device BY <2>1 DEF Device, DeviceExec, InterruptWake
  <2>2. CASE CompleteStart \/ CompleteDequeue BY <2>2 DEF CompleteStart, CompleteDequeue
  <2>3. CASE CompleteUnhash \/ CompleteLowWatermark
    BY <2>3 DEF CompleteUnhash, CompleteLowWatermark
  <2>4. CASE CompleteLock \/ CompleteDuplicate BY <2>4 DEF CompleteLock, CompleteDuplicate
  <2>5. CASE CompleteFindPending \/ CompleteFini
    BY <2>5 DEF CompleteFindPending, CompleteFini
  <2>6. ASSUME NEW y \in Type, CompleteWake(y) PROVE Still /\ NoTake
    BY <2>6 DEF CompleteWake
  <2>7. ASSUME NEW y \in Type, SubmitStart(y) \/ SubmitEnd(y) \/ SubmitKick(y)
        PROVE  Still /\ NoTake
    BY <1>0, <2>7 DEF SubmitStart, SubmitEnd, SubmitKick
  <2>8. ASSUME NEW y \in Type, SubmitSleep(y) \/ SubmitCongested(y) \/ SubmitResume(y)
        PROVE  Still /\ NoTake
    BY <1>0, <2>8 DEF SubmitSleep, SubmitCongested, SubmitResume
  <2> QED BY <2>1, <2>2, <2>3, <2>4, <2>5, <2>6, <2>7, <2>8
<1> QED BY <1>1 DEF QueueCalm, Away, SeqRange

\* The submission of a request, or the removal of an invalid one.
LEMMA DequeueQueueCalm ==
  ASSUME TypeInv, CountInv, NEW y \in Type, SubmitInvalid(y) \/ SubmitRq(y)
  PROVE  QueueCalm /\ NoTake
<1>1. PICK m \in Memq, r \in OpId : m = subCur[y] /\ r = Head(mrq[m])
  BY SubmitHead DEF SubmitInvalid, SubmitRq, TypeInv, SubInv
<1>2. /\ mrq[m] # <<>> /\ mrq' = [mrq EXCEPT ![m] = Tail(@)] /\ subPc[y] = "submit"
      /\ UNCHANGED <<memq, blk, npend, active, nmemq, mlist, subCur>>
  BY <1>1 DEF SubmitInvalid, SubmitRq, subVars
<1>3. \A l \in Memq : SeqRange(mrq[l])' \subseteq SeqRange(mrq[l])
  <2>1. \A l \in Memq : SeqRange(mrq[l])' = SeqRange(mrq[l]) \ {r}
    BY <1>1, <1>2, Dequeued DEF CountInv, PlaceInv
  <2> QED BY <2>1
<1>4. \A z \in Type : z # y => subPc'[z] = subPc[z]
  BY DEF SubmitInvalid, SubmitRq, subVars, TypeInv, SubInv, SubOK
<1>5. \A l \in Memq : Away(l)' => Away(l) BY <1>2 DEF Away, SeqRange
<1>6. NoTake BY <1>2, <1>4 DEF NoTake, Submitting
<1> QED BY <1>2, <1>3, <1>5, <1>6 DEF QueueCalm

\* A submission daemon takes a queue without blocked requests.
LEMMA SubmitTakeQueue ==
  ASSUME TypeInv, QueueInv, NEW y \in Type, SubmitTake(y)
  PROVE  QueueInv'
<1>1. QueueNamed' /\ ActiveApart' /\ BlockedCount'
  BY SubmitListsCalm, QueueCalmKeep
<1>2. NoneBlocked'
  <2> SUFFICES ASSUME NEW z \in Type, subPc'[z] \in Submitting,
                      NEW r \in SeqRange(mrq[subCur[z]])'
               PROVE  blk'[r] = NULL
    BY DEF NoneBlocked
  <2>1. /\ UNCHANGED <<mrq, blk>>
        /\ subPc' = [subPc EXCEPT ![y] = "submit"]
        /\ subCur' = [subCur EXCEPT ![y] = Head(mlist[y])]
        /\ mlist[y] # <<>> /\ npend[Head(mlist[y])] = 0
    BY DEF SubmitTake, reqVars
  <2>2. /\ subPc \in [Type -> SubmitPc] /\ subCur \in [Type -> Memq \cup {NULL}]
        /\ mlist[y] \in Seq(Memq) /\ mrq \in [Memq -> Seq(OpId)]
    BY DEF TypeInv, MemqOK, SubInv, SubOK
  <2>3. SeqRange(mrq[subCur[z]])' = SeqRange(mrq[subCur'[z]]) BY <2>1 DEF SeqRange
  <2>4. CASE z = y
    <3>1. PICK h : h = Head(mlist[y]) OBVIOUS
    <3>2. h \in Memq BY <2>1, <2>2, <3>1, ListFacts
    <3>3. subCur'[z] = h BY <2>1, <2>2, <2>4, <3>1
    <3>4. Cardinality(Blocked(h)) = 0
      BY <2>1, <3>1, <3>2 DEF QueueInv, BlockedCount
    <3>5. Blocked(h) = {}
      <4>1. Blocked(h) \in SUBSET OpId BY DEF Blocked
      <4>2. IsFiniteSet(Blocked(h)) BY <4>1, FiniteFacts, FS_Subset
      <4> QED BY <3>4, <4>2, FS_EmptySet
    <3>6. r \in SeqRange(mrq[h]) BY <2>3, <3>3
    <3>7. r \in OpId BY <2>2, <3>2, <3>6 DEF SeqRange
    <3>8. memq[r] = h BY <3>2, <3>6 DEF QueueInv, QueueNamed
    <3> QED BY <2>1, <3>5, <3>7, <3>8 DEF Blocked
  <2>5. CASE z # y
    <3>1. subPc'[z] = subPc[z] /\ subCur'[z] = subCur[z] BY <2>1, <2>2, <2>5
    <3> QED BY <2>1, <2>3, <3>1 DEF QueueInv, NoneBlocked
  <2> QED BY <2>4, <2>5
<1> QED BY <1>1, <1>2 DEF QueueInv

\* A scheduling daemon replaces its active queue.
LEMMA ScheduleQueue ==
  ASSUME TypeInv, QueueInv, NEW y \in Type, Schedule(y)
  PROVE  QueueInv'
<1>1. UNCHANGED <<memq, blk, npend, mrq, subPc, subCur>> BY DEF Schedule, reqVars
<1>2. QueueNamed' BY <1>1 DEF QueueInv, QueueNamed, SeqRange
<1>3. BlockedCount' BY <1>1 DEF QueueInv, BlockedCount, Blocked
<1>4. NoneBlocked' BY <1>1 DEF QueueInv, NoneBlocked, SeqRange
<1>5. ActiveApart'
  <2>1. CASE UNCHANGED <<active, nmemq, mlist>>
    BY <1>1, <2>1 DEF QueueInv, ActiveApart, Away, SeqRange
  <2>2. CASE ~UNCHANGED <<active, nmemq, mlist>>
    <3>1. PICK m : m = active[y] OBVIOUS
    <3>2. /\ active' = [active EXCEPT ![y] = nmemq + 1] /\ nmemq' = nmemq + 1
          /\ mlist' = [mlist EXCEPT ![y] = Append(@, m)]
      BY <2>2, <3>1 DEF Schedule
    <3>3. /\ active \in [Type -> Memq] /\ nmemq \in Int /\ Memq \subseteq Int
          /\ mlist \in [Type -> Seq(Memq)] /\ m \in Memq
      BY <3>1, ConstantsAssumption DEF TypeInv, MemqOK, Memq, MaxMemq
    <3>4. active'[y] = nmemq + 1 /\ \A z \in Type : z # y => active'[z] = active[z]
      BY <3>2, <3>3
    <3>5. \A z \in Type : active[z] <= nmemq /\ active[z] \in Int
      BY <3>3 DEF QueueInv, ActiveApart
    <3>6. \A z \in Type : z # y => active'[z] # active'[y] BY <3>3, <3>4, <3>5
    <3>7. active'["READ"] # active'["WRITE"] BY <3>6, Facts
    <3>8. \A z \in Type : active'[z] <= nmemq' BY <3>2, <3>3, <3>4, <3>5
    <3>9. \A z \in Type : z # y => active[z] # m
      BY <3>1, Facts DEF QueueInv, ActiveApart
    <3>10. SeqRange(Append(mlist[y], m)) = SeqRange(mlist[y]) \cup {m}
      BY <3>3, AppendFacts
    <3>11. \A l \in Memq : Away(l)' => Away(l) \/ l = m
      <4> SUFFICES ASSUME NEW l \in Memq, Away(l)' PROVE Away(l) \/ l = m OBVIOUS
      <4>1. PICK z \in Type : l \in SeqRange(mlist'[z]) \/ subCur'[z] = l
        BY DEF Away, SeqRange
      <4>2. CASE z = y
        <5>1. mlist'[z] = Append(mlist[y], m) BY <3>2, <3>3, <4>2
        <5> QED BY <1>1, <3>10, <4>1, <4>2, <5>1 DEF Away
      <4>3. CASE z # y
        <5>1. mlist'[z] = mlist[z] BY <3>2, <3>3, <4>3
        <5> QED BY <1>1, <4>1, <5>1 DEF Away
      <4> QED BY <4>2, <4>3
    <3>12. ASSUME NEW l \in Memq, Away(l)'
           PROVE  l <= nmemq' /\ \A z \in Type : active'[z] # l
      <4>1. l \in Int BY <3>3
      <4>2. CASE Away(l)
        <5>1. l <= nmemq /\ \A z \in Type : active[z] # l
          BY <4>2 DEF QueueInv, ActiveApart
        <5> QED BY <3>2, <3>3, <3>4, <4>1, <5>1
      <4>3. CASE l = m
        <5>1. l <= nmemq BY <3>1, <3>5, <4>3
        <5> QED BY <3>2, <3>3, <3>4, <3>9, <4>1, <4>3, <5>1
      <4> QED BY <3>11, <3>12, <4>2, <4>3
    <3> QED BY <3>7, <3>8, <3>12 DEF ActiveApart
  <2> QED BY <2>1, <2>2
<1> QED BY <1>2, <1>3, <1>4, <1>5 DEF QueueInv

\* A thread enqueues its request: into an active queue, which no daemon has.
LEMMA JoinsQueue ==
  ASSUME TypeInv, HashInv, CountInv, Behind, QueueInv, NEW t \in Thread, Joins(t)
  PROVE  QueueInv'
<1>1. PICK n \in OpId : n = me[t] BY DEF Joins
<1>2. n \notin Inserted BY <1>1 DEF Joins
<1>3. ~Queued(n) /\ blk[n] = NULL BY <1>2, NewRq
<1>4. PICK pending \in BOOLEAN :
        /\ Enqueue(n, pending)
        /\ IF pending THEN blk'[n] # NULL ELSE blk'[n] = NULL
        /\ \A x \in OpId : x # n => blk'[x] = blk[x]
  <2>1. CASE AsyncInsertNew(t)
    <3>1. Enqueue(n, FALSE) /\ UNCHANGED blk BY <1>1, <2>1 DEF AsyncInsertNew
    <3> QED BY <1>3, <3>1
  <2>2. CASE AsyncInsertLocked(t) /\ InsertBehind(t, buf[t])
    <3>1. Enqueue(n, TRUE) /\ blk' = [blk EXCEPT ![n] = buf[t]]
      BY <1>1, <2>2 DEF InsertBehind
    <3>2. buf[t] # NULL BY <2>2, Facts DEF AsyncInsertLocked, TypeInv, ThrInv
    <3> QED BY <3>1, <3>2 DEF TypeInv, ReqOK
  <2> QED BY <2>1, <2>2 DEF Joins
<1>5. PICK m \in Memq : m = active[TypeOf(opc[n])]
  BY <1>3, <1>4, Enqueued DEF CountInv, PlaceInv
<1>6. \A l \in Memq : SeqRange(mrq[l])' = SeqRange(mrq[l]) \cup (IF l = m THEN {n} ELSE {})
  BY <1>3, <1>4, <1>5, Enqueued DEF CountInv, PlaceInv
<1>7. /\ memq' = [memq EXCEPT ![n] = m]
      /\ npend' = IF pending THEN [npend EXCEPT ![m] = @ + 1] ELSE npend
      /\ UNCHANGED <<active, nmemq, mlist, subPc, subCur>>
  BY <1>4, <1>5 DEF Enqueue, Joins
<1>8. memq'[n] = m /\ \A x \in OpId : x # n => memq'[x] = memq[x]
  BY <1>7 DEF TypeInv, ReqOK
<1>9. \A l \in Memq : n \notin SeqRange(mrq[l]) BY <1>3 DEF Queued
<1>10. \A l \in Memq : SeqRange(mrq[l]) \subseteq OpId BY DEF TypeInv, MemqOK, SeqRange
<1>11. QueueNamed'
  <2> SUFFICES ASSUME NEW l \in Memq, NEW r \in SeqRange(mrq[l])' PROVE memq'[r] = l
    BY DEF QueueNamed
  <2>1. CASE r = n BY <1>6, <1>8, <1>9, <2>1
  <2>2. CASE r # n
    <3>1. r \in SeqRange(mrq[l]) BY <1>6, <2>2
    <3> QED BY <1>8, <1>10, <2>2, <3>1 DEF QueueInv, QueueNamed
  <2> QED BY <2>1, <2>2
<1>12. ActiveApart' BY <1>7 DEF QueueInv, ActiveApart, Away, SeqRange
<1>13. BlockedCount'
  <2> SUFFICES ASSUME NEW l \in Memq PROVE npend'[l] = Cardinality(Blocked(l)')
    BY DEF BlockedCount
  <2>1. npend[l] = Cardinality(Blocked(l)) BY DEF QueueInv, BlockedCount
  <2>2. Blocked(l) \in SUBSET OpId BY DEF Blocked
  <2>3. IsFiniteSet(Blocked(l)) BY <2>2, FiniteFacts, FS_Subset
  <2>4. Blocked(l) \ {n} = Blocked(l)' \ {n} BY <1>4, <1>8 DEF Blocked
  <2>5. n \notin Blocked(l) /\ (n \in Blocked(l)' <=> l = m /\ pending)
    BY <1>3, <1>4, <1>8 DEF Blocked
  <2>6. npend \in [Memq -> Int] BY DEF TypeInv, MemqOK
  <2>7. CASE l = m /\ pending
    <3>1. Cardinality(Blocked(l)') = Cardinality(Blocked(l)) + 1
      BY <2>3, <2>4, <2>5, <2>7, CardChange
    <3>2. npend'[l] = npend[l] + 1 BY <1>7, <2>6, <2>7
    <3> QED BY <2>1, <3>1, <3>2
  <2>8. CASE ~(l = m /\ pending)
    <3>1. Cardinality(Blocked(l)') = Cardinality(Blocked(l))
      BY <2>3, <2>4, <2>5, <2>8, CardChange
    <3>2. npend'[l] = npend[l] BY <1>7, <2>6, <2>8
    <3> QED BY <2>1, <3>1, <3>2
  <2> QED BY <2>7, <2>8
<1>14. NoneBlocked'
  <2> SUFFICES ASSUME NEW y \in Type, subPc'[y] \in Submitting,
                      NEW r \in SeqRange(mrq[subCur[y]])'
               PROVE  blk'[r] = NULL
    BY DEF NoneBlocked
  <2>1. PICK l \in Memq : l = subCur[y]
    BY <1>7 DEF TypeInv, SubInv, Submitting
  <2>2. Away(l) BY <2>1 DEF Away
  <2>3. l # m
    <3>1. TypeOf(opc[n]) \in Type BY DEF TypeOf, Type
    <3> QED BY <1>5, <2>2, <3>1 DEF QueueInv, ActiveApart
  <2>4. SeqRange(mrq[subCur[y]])' = SeqRange(mrq[l])' BY <1>7, <2>1 DEF SeqRange
  <2>5. r \in SeqRange(mrq[l]) /\ r # n /\ r \in OpId BY <1>6, <1>9, <1>10, <2>3, <2>4
  <2>6. blk[r] = NULL BY <1>7, <2>1, <2>5 DEF QueueInv, NoneBlocked
  <2> QED BY <1>4, <2>5, <2>6
<1> QED BY <1>11, <1>12, <1>13, <1>14 DEF QueueInv

\* The completion daemon unblocks a request, which is still in its queue.
LEMMA CompleteUnblockQueue ==
  ASSUME TypeInv, HashInv, CountInv, RequestInv, Behind, QueueInv, CompleteUnblock
  PROVE  QueueInv'
<1>1. PICK c \in OpId, p \in OpId : c = compCur /\ p = compBuf
  BY DEF CompleteUnblock, TypeInv, CompInv
<1>2. blk[p] = c /\ blk[p] # NULL BY <1>1, Facts DEF CompleteUnblock, Behind
<1>3. PICK m \in Memq : m = memq[p] /\ p \in SeqRange(mrq[m])
  <2>1. p \in rqHash /\ "inFlight" \notin bits[p] BY <1>2 DEF Behind
  <2>2. Queued(p) BY <2>1, HashedPlace
  <2> QED BY <2>2 DEF Queued, QueueInv, QueueNamed
<1>4. /\ blk' = [blk EXCEPT ![p] = NULL] /\ npend' = [npend EXCEPT ![m] = @ - 1]
      /\ UNCHANGED <<memq, active, nmemq, mrq, mlist, subPc, subCur>>
  BY <1>1, <1>2, <1>3 DEF CompleteUnblock, subVars
<1>5. blk'[p] = NULL /\ \A x \in OpId : x # p => blk'[x] = blk[x]
  BY <1>4 DEF TypeInv, ReqOK
<1>6. QueueNamed' BY <1>4 DEF QueueInv, QueueNamed, SeqRange
<1>7. ActiveApart' BY <1>4 DEF QueueInv, ActiveApart, Away, SeqRange
<1>8. BlockedCount'
  <2> SUFFICES ASSUME NEW l \in Memq PROVE npend'[l] = Cardinality(Blocked(l)')
    BY DEF BlockedCount
  <2>1. npend[l] = Cardinality(Blocked(l)) BY DEF QueueInv, BlockedCount
  <2>2. Blocked(l) \in SUBSET OpId BY DEF Blocked
  <2>3. IsFiniteSet(Blocked(l)) BY <2>2, FiniteFacts, FS_Subset
  <2>4. Blocked(l) \ {p} = Blocked(l)' \ {p} BY <1>4, <1>5 DEF Blocked
  <2>5. p \notin Blocked(l)' /\ (p \in Blocked(l) <=> l = m)
    BY <1>2, <1>3, <1>5 DEF Blocked
  <2>6. npend \in [Memq -> Int] BY DEF TypeInv, MemqOK
  <2>7. CASE l = m
    <3>1. Cardinality(Blocked(l)') = Cardinality(Blocked(l)) - 1
      BY <2>3, <2>4, <2>5, <2>7, CardChange
    <3>2. npend'[l] = npend[l] - 1 BY <1>4, <2>6, <2>7
    <3> QED BY <2>1, <3>1, <3>2
  <2>8. CASE l # m
    <3>1. Cardinality(Blocked(l)') = Cardinality(Blocked(l))
      BY <2>3, <2>4, <2>5, <2>8, CardChange
    <3>2. npend'[l] = npend[l] BY <1>4, <2>6, <2>8
    <3> QED BY <2>1, <3>1, <3>2
  <2> QED BY <2>7, <2>8
<1>9. NoneBlocked'
  <2>1. \A x : blk[x] = NULL => blk'[x] = NULL BY <1>4 DEF TypeInv, ReqOK
  <2> QED BY <1>4, <2>1 DEF QueueInv, NoneBlocked, SeqRange
<1> QED BY <1>6, <1>7, <1>8, <1>9 DEF QueueInv

-----------------------------------------------------------------------------
(* The invariant and the theorems. *)

\* Initially there are no requests.
LEMMA PendInit == Init => PendInv
<1> SUFFICES ASSUME Init PROVE PendInv OBVIOUS
<1>1. \A m \in Memq : SeqRange(mrq[m]) = {} BY DEF Init, SeqRange
<1>2. SeqRange(fifo) = {} BY DEF Init, SeqRange
<1>3. \A r \in OpId : ~Queued(r) /\ ~Held(r) BY <1>1, Facts DEF Init, Queued, Held
<1>4. \A r \in OpId : ~Submitted(r) /\ ~Flying(r)
  BY <1>2, <1>3, Facts DEF Init, Submitted, Flying
<1>5. RequestInv BY <1>3, <1>4 DEF Init, RequestInv, RequestOK
<1>6. Behind BY DEF Init, Behind
<1>7. QueueNamed BY <1>1 DEF QueueNamed
<1>8. ActiveApart
  <2>1. \A m \in Memq : ~Away(m)
    <3>1. \A y \in Type : SeqRange(mlist[y]) = {} /\ subCur[y] = NULL
      BY DEF Init, SeqRange
    <3>2. NULL \notin Memq BY DEF NULL, Memq
    <3> QED BY <3>1, <3>2 DEF Away
  <2> QED BY <2>1, Facts DEF Init, ActiveApart
<1>9. BlockedCount
  <2>1. \A m \in Memq : Blocked(m) = {} BY DEF Init, Blocked
  <2>2. \A m \in Memq : npend[m] = 0 BY DEF Init
  <2> QED BY <2>1, <2>2, FS_EmptySet DEF BlockedCount
<1>10. NoneBlocked BY DEF Init, NoneBlocked, Submitting
<1> QED BY <1>5, <1>6, <1>7, <1>8, <1>9, <1>10 DEF PendInv, QueueInv

\* Steps of the classes above preserve the invariant.
LEMMA CalmPend ==
  ASSUME TypeInv, HashInv, PendInv, QueueCalm, NoTake, RequestInv', Behind'
  PROVE  PendInv'
  BY QueueCalmKeep DEF PendInv, QueueInv

\* The steps of the threads.
LEMMA ThreadPend ==
  ASSUME TypeInv, HashInv, CountInv, PendInv, NEW t \in Thread, Invoke(t) \/ ThreadStep(t)
  PROVE  PendInv'
<1> USE DEF PendInv
<1>1. CASE Steady
  <2>1. RequestInv' /\ Behind' BY <1>1, SteadyCalm, CalmKeep
  <2>2. QueueCalm /\ NoTake BY <1>1, ThreadQueueCalm
  <2> QED BY <2>1, <2>2, CalmPend
<1>2. CASE Joins(t) BY <1>2, JoinsRequest, JoinsQueue
<1>3. CASE Cancels(t)
  <2>1. RequestInv' /\ Behind' BY <1>3, CancelsRequest
  <2>2. QueueCalm /\ NoTake BY <1>3, ThreadQueueCalm
  <2> QED BY <2>1, <2>2, CalmPend
<1> QED BY <1>1, <1>2, <1>3, ThreadClasses

\* The steps of the scheduling and submission daemons.
LEMMA SubmitPend ==
  ASSUME TypeInv, HashInv, CountInv, PendInv, NEW y \in Type, Schedule(y) \/ SubmitStep(y)
  PROVE  PendInv'
<1> USE DEF PendInv
<1>1. CASE Schedule(y)
  <2>1. RequestInv' /\ Behind' BY <1>1, DaemonCalm, CalmKeep
  <2> QED BY <1>1, <2>1, ScheduleQueue
<1>2. CASE SubmitTake(y)
  <2>1. RequestInv' /\ Behind' BY <1>2, DaemonCalm, CalmKeep
  <2> QED BY <1>2, <2>1, SubmitTakeQueue
<1>3. CASE SubmitPark(y) \/ SubmitDone(y)
  <2>1. RequestInv' /\ Behind' BY <1>3, DaemonCalm, CalmKeep
  <2>2. NoTake
    <3>1. subPc \in [Type -> SubmitPc] /\ subCur \in [Type -> Memq \cup {NULL}]
      BY DEF TypeInv, SubInv, SubOK
    <3> QED BY <1>3, <3>1 DEF SubmitPark, SubmitDone, NoTake, Submitting
  <2> QED BY <1>3, <2>1, <2>2, SubmitListsCalm, CalmPend
<1>4. CASE SubmitStart(y) \/ SubmitEnd(y) \/ SubmitKick(y) \/ SubmitSleep(y) \/ SubmitCongested(y)
  <2>1. RequestInv' /\ Behind' BY <1>4, DaemonCalm, CalmKeep
  <2> QED BY <1>4, <2>1, DaemonQueueCalm, CalmPend
<1>5. CASE SubmitInvalid(y)
  BY <1>5, SubmitInvalidRequest, DequeueQueueCalm, CalmPend
<1>6. CASE SubmitRq(y)
  BY <1>6, SubmitRqRequest, DequeueQueueCalm, CalmPend
<1>7. CASE SubmitResume(y)
  <2>1. PICK r : r = subRq[y] OBVIOUS
  <2>2. RequestInv' /\ Behind' BY <1>7, <2>1, SubmitResumeForwards, ForwardsRequest
  <2> QED BY <1>7, <2>2, DaemonQueueCalm, CalmPend
<1> QED BY <1>1, <1>2, <1>3, <1>4, <1>5, <1>6, <1>7 DEF SubmitStep

\* The steps of the device and of the completion daemon.
LEMMA CompletePend ==
  ASSUME TypeInv, HashInv, CountInv, PendInv, Device \/ CompleteStep
  PROVE  PendInv'
<1> USE DEF PendInv
<1>1. CASE InterruptWake \/ CompleteStart \/ CompleteLowWatermark
           \/ \E y \in Type : CompleteWake(y)
  <2>1. RequestInv' /\ Behind' BY <1>1, DaemonCalm, CalmKeep
  <2> QED BY <1>1, <2>1, DaemonQueueCalm, CalmPend DEF Device
<1>2. ASSUME NEW r \in OpId, DeviceExec(r) PROVE PendInv'
  <2>1. RequestInv' /\ Behind' BY <1>2, DeviceExecForwards, ForwardsRequest
  <2> QED BY <1>2, <2>1, DaemonQueueCalm, CalmPend DEF Device
<1>3. CASE CompleteDequeue
  <2>1. PICK r : r = Head(fifo) OBVIOUS
  <2>2. RequestInv' /\ Behind' BY <1>3, <2>1, CompleteDequeueForwards, ForwardsRequest
  <2> QED BY <1>3, <2>2, DaemonQueueCalm, CalmPend
<1>4. CASE CompleteUnhash BY <1>4, CompleteUnhashRequest, DaemonQueueCalm, CalmPend
<1>5. CASE CompleteLock BY <1>5, CompleteLockRequest, DaemonQueueCalm, CalmPend
<1>6. CASE CompleteDuplicate BY <1>6, CompleteDuplicateRequest, DaemonQueueCalm, CalmPend
<1>7. CASE CompleteFindPending
  BY <1>7, CompleteFindPendingRequest, DaemonQueueCalm, CalmPend
<1>8. CASE CompleteFini BY <1>8, CompleteFiniRequest, DaemonQueueCalm, CalmPend
<1>9. CASE CompleteUnblock BY <1>9, CompleteUnblockRequest, CompleteUnblockQueue
<1> QED BY <1>1, <1>2, <1>3, <1>4, <1>5, <1>6, <1>7, <1>8, <1>9 DEF Device, CompleteStep

\* Every step preserves the invariant.
LEMMA PendStep == TypeInv /\ HashInv /\ CountInv /\ PendInv /\ [Next]_vars => PendInv'
<1> SUFFICES ASSUME TypeInv, HashInv, CountInv, PendInv, [Next]_vars
             PROVE  PendInv'
  OBVIOUS
<1>1. ASSUME UNCHANGED vars PROVE PendInv'
  <2>1. Steady
    BY <1>1 DEF Steady, steadyVars, vars, reqVars, hashVars, memqVars, subVars, compVars,
                devVars
  <2>2. UNCHANGED <<memq, blk, memqVars, subPc, subCur>> BY <2>1 DEF Steady, steadyVars
  <2>3. QueueCalm /\ NoTake BY <2>2 DEF memqVars, QueueCalm, NoTake, Away, SeqRange
  <2> QED BY <2>1, <2>3, SteadyCalm, CalmKeep, CalmPend DEF PendInv
<1>2. ASSUME NEW t \in Thread, Invoke(t) \/ ThreadStep(t) PROVE PendInv'
  BY <1>2, ThreadPend
<1>3. ASSUME NEW y \in Type, Schedule(y) \/ SubmitStep(y) PROVE PendInv'
  BY <1>3, SubmitPend
<1>4. ASSUME Device \/ CompleteStep PROVE PendInv' BY <1>4, CompletePend
<1>5. ASSUME Quiescent PROVE PendInv' BY <1>1, <1>5 DEF Quiescent
<1> QED BY <1>1, <1>2, <1>3, <1>4, <1>5 DEF Next

\* The requests and the queues are in order in every behaviour.
LEMMA PendInvariant == Spec => [](TypeInv /\ HashInv /\ CountInv /\ PendInv)
<1>1. Init => PendInv BY PendInit
<1>2. TypeInv /\ HashInv /\ CountInv /\ PendInv /\ [Next]_vars => PendInv' BY PendStep
<1> QED BY <1>1, <1>2, CountInvariant, PTL DEF Spec

\* A request that was submitted is in the hash, or the one behind it is.
LEMMA OneInFlightHolds ==
  ASSUME TypeInv, HashInv, PendInv
  PROVE  OneInFlight
<1> USE DEF PendInv
<1> SUFFICES ASSUME NEW r \in devQ \cup ({subRq[y] : y \in Type} \ {NULL}),
                    NEW s \in devQ \cup ({subRq[y] : y \in Type} \ {NULL}),
                    key[r] = key[s]
             PROVE  r = s
  BY DEF OneInFlight
<1>1. ASSUME NEW x \in devQ \cup ({subRq[y] : y \in Type} \ {NULL})
      PROVE  x \in OpId /\ Submitted(x) /\ Flying(x)
  <2>1. x \in devQ \/ Held(x) BY DEF Held
  <2>2. x \in OpId BY DEF TypeInv, DevOK, SubInv, SubOK, OpId, Ptr, NULL
  <2> QED BY <2>1, <2>2 DEF Submitted, Flying
<1>2. ASSUME NEW x \in OpId, Submitted(x), Flying(x), x \notin rqHash
      PROVE  \E q \in OpId : /\ blk[q] = x /\ q \in rqHash /\ key[q] = key[x]
                             /\ "inFlight" \notin bits[q]
  <2>1. "blocking" \in bits[x] BY <1>2 DEF RequestInv, RequestOK
  <2>2. PICK q \in OpId : blk[q] = x BY <2>1 DEF Behind
  <2> QED BY <2>2, Facts DEF Behind
<1>3. "inFlight" \in bits[r] /\ "inFlight" \in bits[s]
  BY <1>1 DEF RequestInv, RequestOK
<1>4. CASE r \in rqHash /\ s \in rqHash BY <1>4 DEF HashInv, HashUnique
<1>5. CASE r \in rqHash /\ s \notin rqHash
  BY <1>1, <1>2, <1>3, <1>5 DEF HashInv, HashUnique
<1>6. CASE r \notin rqHash /\ s \in rqHash
  BY <1>1, <1>2, <1>3, <1>6 DEF HashInv, HashUnique
<1>7. CASE r \notin rqHash /\ s \notin rqHash
  BY <1>1, <1>2, <1>7 DEF HashInv, HashUnique
<1> QED BY <1>4, <1>5, <1>6, <1>7

\* The device, and the daemons that hold requests back for it, never have two
\* asynchronous commands of one key: a second command is either merged into the
\* first one before it is submitted or waits until it is completed.
THEOREM OneInFlightAlways == Spec => []OneInFlight
<1>1. TypeInv /\ HashInv /\ CountInv /\ PendInv => OneInFlight BY OneInFlightHolds
<1> QED BY <1>1, PendInvariant, PTL

\* nr_pending of a memory queue counts its requests that wait for another one, and
\* no such request is in a queue under submission: the BUG() of the submission daemon
\* is never reached.
THEOREM PendingCountAlways == Spec => []PendingCount
<1>1. TypeInv /\ HashInv /\ CountInv /\ PendInv => PendingCount
  BY DEF PendInv, QueueInv, BlockedCount, Blocked, NoneBlocked, Submitting, PendingCount
<1> QED BY <1>1, PendInvariant, PTL
=============================================================================
