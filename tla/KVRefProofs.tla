----------------------------- MODULE KVRefProofs -----------------------------
(***************************************************************************)
(* Proof that the reference count of a request is the number of places     *)
(* that keep or use it (RefExact), and that the request another one is     *)
(* pending on is still there (PendingPair).  A request has at most one     *)
(* keeper on its way from the insertion to the completion, so the count is *)
(* that of the threads that use it and of at most three tokens: it is on   *)
(* its way, in the read-ahead hash, in the hands of the completion daemon. *)
(***************************************************************************)
EXTENDS KVPendingProofs

\* A thread uses its own request while it inserts it, and one that it found.
OwnPc == {"insert", "ins_lock"}
PutPc == {"ra_put", "s_ra_put", "s_ra2_put"}
FoundPc == {"ra_find", "ins_lock", "s_lock", "f_lock", "f_push", "f_drain", "f_wait"}
Uses(t, r) ==
    \/ me[t] = r /\ pc[t] \in OwnPc
    \/ buf[t] = r /\ pc[t] \in PutPc \cup FoundPc
Users(r) == {t \in Thread : Uses(t, r)}

\* A request on its way keeps the reference it was created with.
OnWay(r) ==
    \/ Queued(r) \/ Held(r) \/ r \in devQ \/ r \in SeqRange(fifo)
    \/ r = compCur /\ "in_readahead" \notin bits[r]
Tokens(r) ==
    {s \in {"way", "readahead", "buf"} :
        \/ s = "way" /\ OnWay(r)
        \/ s = "readahead" /\ r \in raHash
        \/ s = "buf" /\ compBuf = r}

\* The reference count, request by request.
RefOK(r) == ref[r] = Cardinality(Users(r)) + Cardinality(Tokens(r))

\* What threads and the completion daemon point to was inserted.
PointersInserted ==
    /\ raHash \subseteq Inserted
    /\ compBuf \in Inserted \cup {NULL}
    /\ \A t \in Thread : buf[t] \in Inserted \cup {NULL}

\* Data is read ahead only by a request that is completed.
RaClean ==
    \A r \in OpId : "in_readahead" \in bits[r] =>
        r \in Inserted /\ ~Queued(r) /\ "inFlight" \notin bits[r]

\* The completion daemon has a second request only where it works on two, and it
\* keeps its own one locked from the completion on; data it has put into the
\* read-ahead hash is still there, or with a thread that waits for the lock.
Puts(t, r) == buf[t] = r /\ pc[t] \in PutPc
Late == {"ra_dup", "pend_find", "pend_lock", "fini"}
CompHeld ==
    /\ compPc \notin {"ra_dup", "pend_lock"} => compBuf = NULL
    /\ compPc \in Late => compCur \in locked
    /\ compCur # NULL /\ "in_readahead" \in bits[compCur] =>
          compCur \in raHash \/ \E t \in Thread : Puts(t, compCur)

\* The inductive invariant of this module.
RefInv ==
    /\ PointersInserted /\ RaClean /\ CompHeld
    /\ \A r \in OpId : RefOK(r)

-----------------------------------------------------------------------------
(* The count of RefExact. *)

\* What is counted is finite.
LEMMA RefFinite ==
  ASSUME NEW r
  PROVE  /\ IsFiniteSet(Users(r)) /\ Cardinality(Users(r)) \in Nat
         /\ IsFiniteSet(Tokens(r)) /\ Cardinality(Tokens(r)) \in Nat
<1>1. Users(r) \in SUBSET Thread BY DEF Users
<1>2. Tokens(r) \in SUBSET {"way", "readahead", "buf"} BY DEF Tokens
<1>3. IsFiniteSet({"way", "readahead", "buf"})
  <2>1. {"way", "readahead", "buf"} = ({"way"} \cup {"readahead"}) \cup {"buf"} OBVIOUS
  <2>2. IsFiniteSet({"way"}) BY FS_Singleton
  <2>3. IsFiniteSet({"way"} \cup {"readahead"}) BY <2>2, FS_AddElement
  <2> QED BY <2>1, <2>3, FS_AddElement
<1> QED BY <1>1, <1>2, <1>3, ThreadAssumption, FS_Subset, FS_CardinalityType

\* A set of at most one element.
LEMMA AtMostOne ==
  ASSUME NEW S, NEW x, S \subseteq {x}
  PROVE  /\ IsFiniteSet(S)
         /\ x \in S => Cardinality(S) = 1
         /\ x \notin S => Cardinality(S) = 0
<1>1. CASE x \in S
  <2>1. S = {x} BY <1>1
  <2> QED BY <1>1, <2>1, FS_Singleton
<1>2. CASE x \notin S
  <2>1. S = {} BY <1>2
  <2> QED BY <1>2, <2>1, FS_EmptySet
<1> QED BY <1>1, <1>2

\* The threads that keep or use a request, counted once.
LEMMA UsersSplit ==
  ASSUME TypeInv, HashInv, NEW r \in OpId
  PROVE  Cardinality(Users(r)) = Cardinality(KeeperThreads(r)) + Cardinality(UserThreads(r))
<1>1. KeeperThreads(r) \in SUBSET Thread /\ UserThreads(r) \in SUBSET Thread
  BY DEF KeeperThreads, UserThreads
<1>2. IsFiniteSet(KeeperThreads(r)) /\ IsFiniteSet(UserThreads(r))
  BY <1>1, ThreadAssumption, FS_Subset
<1>3. Users(r) = KeeperThreads(r) \cup UserThreads(r)
  BY DEF Users, Uses, OwnPc, PutPc, FoundPc, KeeperThreads, UserThreads
<1>4. KeeperThreads(r) \cap UserThreads(r) = {}
  <2> SUFFICES ASSUME NEW t \in Thread, t \in KeeperThreads(r), t \in UserThreads(r)
               PROVE  FALSE
    BY <1>1
  <2>1. me[t] = r /\ buf[t] = r /\ pc[t] = "ins_lock"
    BY DEF KeeperThreads, UserThreads
  <2>2. r \in Inserted BY <2>1 DEF HashInv, BucketHeld, InsertedFirst
  <2> QED BY <2>1, <2>2 DEF Inserted, Early
<1>5. Cardinality({}) = 0 BY FS_EmptySet
<1>6. PICK a \in Nat, b \in Nat : a = Cardinality(KeeperThreads(r)) /\ b = Cardinality(UserThreads(r))
  BY <1>2, FS_CardinalityType
<1>7. Cardinality(Users(r)) = a + b - 0 BY <1>2, <1>3, <1>4, <1>5, <1>6, FS_Union
<1> QED BY <1>6, <1>7

\* The keepers of a request on its way: a queue, a submission daemon or a stage.
LEMMA KeepersSplit ==
  ASSUME TypeInv, CountInv, NEW r \in OpId
  PROVE  /\ Cardinality(KeeperQueues(r)) = IF Queued(r) THEN 1 ELSE 0
         /\ Cardinality(KeeperSubmitters(r)) = IF Held(r) THEN 1 ELSE 0
<1>1. CASE Queued(r)
  <2>1. PICK m \in Memq : r \in SeqRange(mrq[m]) BY <1>1 DEF Queued
  <2>2. KeeperQueues(r) = {m}
    BY <2>1 DEF KeeperQueues, CountInv, PlaceInv, QueuesApart
  <2>3. ~Held(r) BY <1>1 DEF CountInv, PlaceInv, OnePlace
  <2>4. KeeperSubmitters(r) = {} BY <2>3 DEF Held, KeeperSubmitters
  <2> QED BY <1>1, <2>2, <2>3, <2>4, FS_Singleton, FS_EmptySet
<1>2. CASE ~Queued(r)
  <2>1. KeeperQueues(r) = {} BY <1>2 DEF Queued, KeeperQueues
  <2>2. CASE Held(r)
    <3>1. PICK y \in Type : subRq[y] = r BY <2>2 DEF Held
    <3>2. KeeperSubmitters(r) = {y}
      BY <3>1, Facts DEF KeeperSubmitters, CountInv, PlaceInv, OnePlace
    <3> QED BY <1>2, <2>1, <2>2, <3>2, FS_Singleton, FS_EmptySet
  <2>3. CASE ~Held(r)
    <3>1. KeeperSubmitters(r) = {} BY <2>3 DEF Held, KeeperSubmitters
    <3> QED BY <1>2, <2>1, <2>3, <3>1, FS_EmptySet
  <2> QED BY <2>2, <2>3
<1> QED BY <1>1, <1>2

\* The stages, and the tokens, but for the read-ahead hash.
LEMMA StagesSplit ==
  ASSUME TypeInv, CountInv, NEW r \in OpId
  PROVE  Cardinality(Tokens(r)) =
           (IF Queued(r) THEN 1 ELSE 0) + (IF Held(r) THEN 1 ELSE 0)
           + Cardinality(KeeperStages(r)) + (IF compBuf = r THEN 1 ELSE 0)
<1>1. PICK S0 : S0 = KeeperStages(r) \ {"readahead"} OBVIOUS
<1>2. PICK T0 : T0 = Tokens(r) \ {"readahead", "buf"} OBVIOUS
<1>3. PICK T1 : T1 = Tokens(r) \ {"readahead"} OBVIOUS
<1>4. PICK stage : S0 \subseteq {stage} /\ (stage \in S0 <=>
        r \in devQ \/ r \in SeqRange(fifo) \/ (r = compCur /\ "in_readahead" \notin bits[r]))
  <2>1. CASE r \in devQ
    <3>1. r \notin SeqRange(fifo) /\ r # compCur
      BY <2>1 DEF CountInv, PlaceInv, OnePlace
    <3>2. S0 = {"device"} BY <1>1, <2>1, <3>1 DEF KeeperStages
    <3> QED BY <2>1, <3>2
  <2>2. CASE r \in SeqRange(fifo)
    <3>1. r \notin devQ /\ r # compCur BY <2>2 DEF CountInv, PlaceInv, OnePlace
    <3>2. S0 = {"fifo"} BY <1>1, <2>2, <3>1 DEF KeeperStages
    <3> QED BY <2>2, <3>2
  <2>3. CASE r \notin devQ /\ r \notin SeqRange(fifo)
    <3>1. S0 \subseteq {"complete"} BY <1>1, <2>3 DEF KeeperStages
    <3>2. "complete" \in S0 <=> r = compCur /\ "in_readahead" \notin bits[r]
      BY <1>1 DEF KeeperStages
    <3> QED BY <2>3, <3>1, <3>2
  <2> QED BY <2>1, <2>2, <2>3
<1>5. PICK s0 \in Nat : /\ s0 = Cardinality(S0) /\ IsFiniteSet(S0)
                        /\ s0 = IF stage \in S0 THEN 1 ELSE 0
  BY <1>4, AtMostOne
<1>6. PICK s1 \in Nat : /\ s1 = Cardinality(KeeperStages(r))
                        /\ s1 = IF r \in raHash THEN s0 + 1 ELSE s0
  <2>0. PICK S1 : S1 = KeeperStages(r) OBVIOUS
  <2>1. S0 \ {"readahead"} = S1 \ {"readahead"} /\ "readahead" \notin S0 BY <1>1, <2>0
  <2>2. "readahead" \in S1 <=> r \in raHash BY <2>0 DEF KeeperStages
  <2>3. /\ Cardinality(S1) \in Nat
        /\ r \in raHash => Cardinality(S1) = s0 + 1
        /\ r \notin raHash => Cardinality(S1) = s0
    BY <1>5, <2>1, <2>2, CardChange
  <2> QED BY <2>0, <2>3
<1>7. PICK t0 \in Nat : /\ t0 = Cardinality(T0) /\ IsFiniteSet(T0)
                        /\ t0 = IF OnWay(r) THEN 1 ELSE 0
  <2>1. T0 \subseteq {"way"} /\ ("way" \in T0 <=> OnWay(r)) BY <1>2 DEF Tokens
  <2> QED BY <2>1, AtMostOne
<1>8. PICK t1 \in Nat : /\ t1 = Cardinality(T1) /\ IsFiniteSet(T1)
                        /\ t1 = IF compBuf = r THEN t0 + 1 ELSE t0
  <2>1. T0 \ {"buf"} = T1 \ {"buf"} /\ "buf" \notin T0 BY <1>2, <1>3
  <2>2. "buf" \in T1 <=> compBuf = r BY <1>3 DEF Tokens
  <2>3. /\ Cardinality(T1) \in Nat /\ IsFiniteSet(T1)
        /\ compBuf = r => Cardinality(T1) = t0 + 1
        /\ compBuf # r => Cardinality(T1) = t0
    BY <1>7, <2>1, <2>2, CardChange
  <2> QED BY <2>3
<1>9. PICK t2 \in Nat : /\ t2 = Cardinality(Tokens(r))
                        /\ t2 = IF r \in raHash THEN t1 + 1 ELSE t1
  <2>0. PICK T2 : T2 = Tokens(r) OBVIOUS
  <2>1. T1 \ {"readahead"} = T2 \ {"readahead"} /\ "readahead" \notin T1 BY <1>3, <2>0
  <2>2. "readahead" \in T2 <=> r \in raHash BY <2>0 DEF Tokens
  <2>3. /\ Cardinality(T2) \in Nat
        /\ r \in raHash => Cardinality(T2) = t1 + 1
        /\ r \notin raHash => Cardinality(T2) = t1
    BY <1>8, <2>1, <2>2, CardChange
  <2> QED BY <2>0, <2>3
<1>10. /\ OnWay(r) <=> Queued(r) \/ Held(r) \/ stage \in S0
       /\ Queued(r) => ~Held(r) /\ stage \notin S0
       /\ Held(r) => stage \notin S0
  BY <1>4 DEF OnWay, CountInv, PlaceInv, OnePlace
<1>11. t0 = (IF Queued(r) THEN 1 ELSE 0) + (IF Held(r) THEN 1 ELSE 0) + s0
  BY <1>5, <1>7, <1>10
<1> QED BY <1>6, <1>8, <1>9, <1>11

\* The count of the invariant is the one of RefExact.
LEMMA RefExactHolds ==
  ASSUME TypeInv, HashInv, CountInv, RefInv
  PROVE  RefExact
<1> SUFFICES ASSUME NEW r \in OpId
             PROVE  ref[r] =
                Cardinality(KeeperThreads(r)) + Cardinality(KeeperQueues(r))
                + Cardinality(KeeperSubmitters(r)) + Cardinality(KeeperStages(r))
                + Cardinality(UserThreads(r)) + (IF compBuf = r THEN 1 ELSE 0)
  BY DEF RefExact
<1>1. PICK a, b, c, d, e, f :
        /\ a = Cardinality(KeeperThreads(r)) /\ b = Cardinality(KeeperQueues(r))
        /\ c = Cardinality(KeeperSubmitters(r)) /\ d = Cardinality(KeeperStages(r))
        /\ e = Cardinality(UserThreads(r)) /\ f = IF compBuf = r THEN 1 ELSE 0
  OBVIOUS
<1>2. PICK u, k : u = Cardinality(Users(r)) /\ k = Cardinality(Tokens(r)) OBVIOUS
<1>3. ref[r] = u + k BY <1>2 DEF RefInv, RefOK
<1>4. u = a + e BY <1>1, <1>2, UsersSplit
<1>5. k = b + c + d + f BY <1>1, <1>2, StagesSplit, KeepersSplit
<1>6. a \in Nat /\ b \in Nat /\ c \in Nat /\ d \in Nat /\ e \in Nat /\ f \in Nat
  <2>1. KeeperThreads(r) \in SUBSET Thread /\ UserThreads(r) \in SUBSET Thread
    BY DEF KeeperThreads, UserThreads
  <2>2. a \in Nat /\ e \in Nat
    BY <1>1, <2>1, ThreadAssumption, FS_Subset, FS_CardinalityType
  <2>3. b \in Nat /\ c \in Nat BY <1>1, KeepersSplit
  <2>4. d \in Nat
    <3>1. IsFiniteSet({"device", "fifo", "complete", "readahead"})
      <4>1. {"device", "fifo", "complete", "readahead"}
              = (({"device"} \cup {"fifo"}) \cup {"complete"}) \cup {"readahead"}
        OBVIOUS
      <4>2. IsFiniteSet({"device"}) BY FS_Singleton
      <4>3. IsFiniteSet({"device"} \cup {"fifo"}) BY <4>2, FS_AddElement
      <4>4. IsFiniteSet(({"device"} \cup {"fifo"}) \cup {"complete"}) BY <4>3, FS_AddElement
      <4> QED BY <4>1, <4>4, FS_AddElement
    <3>2. KeeperStages(r) \in SUBSET {"device", "fifo", "complete", "readahead"}
      BY DEF KeeperStages
    <3> QED BY <1>1, <3>1, <3>2, FS_Subset, FS_CardinalityType
  <2> QED BY <1>1, <2>2, <2>3, <2>4
<1>7. ref[r] = a + b + c + d + e + f BY <1>3, <1>4, <1>5, <1>6
<1> QED BY <1>1, <1>7

-----------------------------------------------------------------------------
(* Balanced steps. *)

\* A step of thread t changes nobody else's position.
ThreadOnly(t) ==
    \A u \in Thread \ {t} : pc'[u] = pc[u] /\ me'[u] = me[u] /\ buf'[u] = buf[u]

\* What a thread may do to the count of a request: nothing; take or drop a reference;
\* inherit the one of the read-ahead hash; leave its own to the request on its way.
FairThread(t, r) ==
    \/ /\ ref'[r] = ref[r] /\ Tokens(r)' = Tokens(r)
       /\ Uses(t, r)' <=> Uses(t, r)
    \/ /\ ref'[r] = ref[r] + 1 /\ Tokens(r)' = Tokens(r)
       /\ ~Uses(t, r) /\ Uses(t, r)'
    \/ /\ ref'[r] = ref[r] - 1 /\ Tokens(r)' = Tokens(r)
       /\ Uses(t, r) /\ ~Uses(t, r)'
    \/ /\ ref'[r] = ref[r]
       /\ "readahead" \in Tokens(r) /\ Tokens(r)' = Tokens(r) \ {"readahead"}
       /\ ~Uses(t, r) /\ Uses(t, r)'
    \/ /\ ref'[r] = ref[r]
       /\ "way" \notin Tokens(r) /\ Tokens(r)' = Tokens(r) \cup {"way"}
       /\ Uses(t, r) /\ ~Uses(t, r)'

\* What a daemon may do: nothing; take a reference; drop one; leave the one of the way
\* to the read-ahead hash.
FairDaemon(r) ==
    \/ ref'[r] = ref[r] /\ Tokens(r)' = Tokens(r)
    \/ /\ ref'[r] = ref[r] + 1
       /\ "buf" \notin Tokens(r) /\ Tokens(r)' = Tokens(r) \cup {"buf"}
    \/ /\ ref'[r] = ref[r] - 1
       /\ \E s \in Tokens(r) : Tokens(r)' = Tokens(r) \ {s}
    \/ /\ ref'[r] = ref[r]
       /\ "way" \in Tokens(r) /\ "readahead" \notin Tokens(r)
       /\ Tokens(r)' = (Tokens(r) \ {"way"}) \cup {"readahead"}

\* The count stays right when a thread moves.
LEMMA FairThreadKeep ==
  ASSUME TypeInv, NEW t \in Thread, NEW r \in OpId, RefOK(r), ThreadOnly(t),
         FairThread(t, r)
  PROVE  RefOK(r)'
<1>1. PICK u, v, k, l : u = Users(r) /\ v = Users(r)' /\ k = Tokens(r) /\ l = Tokens(r)'
  OBVIOUS
<1>2. IsFiniteSet(u) /\ IsFiniteSet(k) BY <1>1, RefFinite
<1>3. /\ u \ {t} = v \ {t} /\ (t \in u <=> Uses(t, r)) /\ (t \in v <=> Uses(t, r)')
  BY <1>1 DEF Users, Uses, ThreadOnly
<1>4. /\ Cardinality(u) \in Nat /\ Cardinality(v) \in Nat
      /\ (Uses(t, r)' <=> Uses(t, r)) => Cardinality(v) = Cardinality(u)
      /\ ~Uses(t, r) /\ Uses(t, r)' => Cardinality(v) = Cardinality(u) + 1
      /\ Uses(t, r) /\ ~Uses(t, r)' => Cardinality(v) = Cardinality(u) - 1
  BY <1>2, <1>3, CardChange
<1>5. Cardinality(k) \in Nat BY <1>2, FS_CardinalityType
<1>6. ref[r] = Cardinality(u) + Cardinality(k) BY <1>1 DEF RefOK
<1>7. ref'[r] = Cardinality(v) + Cardinality(l)
  <2>1. CASE l = k BY <1>1, <1>4, <1>5, <1>6, <2>1 DEF FairThread
  <2>2. CASE "readahead" \in k /\ l = k \ {"readahead"}
    <3>1. Cardinality(l) = Cardinality(k) - 1 BY <1>2, <2>2, FS_RemoveElement
    <3>2. l # k /\ ~(l = k \cup {"way"}) BY <2>2
    <3>3. ref'[r] = ref[r] /\ ~Uses(t, r) /\ Uses(t, r)' BY <1>1, <3>2 DEF FairThread
    <3> QED BY <1>4, <1>5, <1>6, <3>1, <3>3
  <2>3. CASE "way" \notin k /\ l = k \cup {"way"}
    <3>1. Cardinality(l) = Cardinality(k) + 1 BY <1>2, <2>3, FS_AddElement
    <3>2. l # k /\ ~(l = k \ {"readahead"}) BY <2>3
    <3>3. ref'[r] = ref[r] /\ Uses(t, r) /\ ~Uses(t, r)' BY <1>1, <3>2 DEF FairThread
    <3> QED BY <1>4, <1>5, <1>6, <3>1, <3>3
  <2> QED BY <1>1, <2>1, <2>2, <2>3 DEF FairThread
<1> QED BY <1>1, <1>7 DEF RefOK

\* The count stays right when a daemon moves.
LEMMA FairDaemonKeep ==
  ASSUME TypeInv, NEW r \in OpId, RefOK(r), UNCHANGED thrVars, FairDaemon(r)
  PROVE  RefOK(r)'
<1>1. PICK u, k, l : u = Users(r) /\ k = Tokens(r) /\ l = Tokens(r)' OBVIOUS
<1>2. IsFiniteSet(k) /\ Cardinality(u) \in Nat BY <1>1, RefFinite
<1>3. Users(r)' = u BY <1>1 DEF Users, Uses, thrVars
<1>4. Cardinality(k) \in Nat BY <1>2, FS_CardinalityType
<1>5. ref[r] = Cardinality(u) + Cardinality(k) BY <1>1 DEF RefOK
<1>6. \/ ref'[r] = ref[r] /\ l = k
      \/ ref'[r] = ref[r] + 1 /\ "buf" \notin k /\ l = k \cup {"buf"}
      \/ ref'[r] = ref[r] - 1 /\ \E s \in k : l = k \ {s}
      \/ /\ ref'[r] = ref[r] /\ "way" \in k /\ "readahead" \notin k
         /\ l = (k \ {"way"}) \cup {"readahead"}
  BY <1>1 DEF FairDaemon
<1>7. ref'[r] = Cardinality(u) + Cardinality(l)
  <2>1. CASE ref'[r] = ref[r] /\ l = k BY <1>5, <2>1
  <2>2. CASE ref'[r] = ref[r] + 1 /\ "buf" \notin k /\ l = k \cup {"buf"}
    <3>1. Cardinality(l) = Cardinality(k) + 1 BY <1>2, <2>2, FS_AddElement
    <3> QED BY <1>2, <1>4, <1>5, <2>2, <3>1
  <2>3. ASSUME ref'[r] = ref[r] - 1, NEW s \in k, l = k \ {s}
        PROVE  ref'[r] = Cardinality(u) + Cardinality(l)
    <3>1. Cardinality(l) = Cardinality(k) - 1 BY <1>2, <2>3, FS_RemoveElement
    <3> QED BY <1>2, <1>4, <1>5, <2>3, <3>1
  <2>4. CASE /\ ref'[r] = ref[r] /\ "way" \in k /\ "readahead" \notin k
             /\ l = (k \ {"way"}) \cup {"readahead"}
    <3>1. PICK j : j = k \ {"way"} OBVIOUS
    <3>2. IsFiniteSet(j) /\ Cardinality(j) = Cardinality(k) - 1
      BY <1>2, <2>4, <3>1, FS_RemoveElement
    <3>3. "readahead" \notin j /\ l = j \cup {"readahead"} BY <2>4, <3>1
    <3>4. Cardinality(l) = Cardinality(j) + 1 BY <3>2, <3>3, FS_AddElement
    <3> QED BY <1>2, <1>4, <1>5, <2>4, <3>2, <3>4
  <2> QED BY <1>6, <2>1, <2>2, <2>3, <2>4
<1> QED BY <1>1, <1>3, <1>7 DEF RefOK

-----------------------------------------------------------------------------
(* The steps of the threads. *)

\* A request that neither a thread has taken nor was inserted has no reference.
LEMMA FreshRef ==
  ASSUME TypeInv, HashInv, RefInv, NEW n \in OpId, n \notin Inserted,
         \A u \in Thread : me[u] = n => pc[u] \notin OwnPc
  PROVE  ref[n] = 0
<1>1. Users(n) = {}
  <2>1. \A u \in Thread : buf[u] # n BY Facts DEF RefInv, PointersInserted
  <2> QED BY <2>1 DEF Users, Uses
<1>2. Tokens(n) = {}
  <2>1. ~Queued(n) /\ ~Flying(n) BY NewRq
  <2>2. n # compCur /\ n # compBuf /\ n \notin raHash
    BY Facts DEF HashInv, InsertedFirst, RefInv, PointersInserted
  <2>3. ~OnWay(n) BY <2>1, <2>2 DEF OnWay, Flying
  <2> QED BY <2>2, <2>3 DEF Tokens
<1>3. Cardinality({}) = 0 BY FS_EmptySet
<1> QED BY <1>1, <1>2, <1>3 DEF RefInv, RefOK

\* A steady step moves no request, so that only the read-ahead hash may lose one.
LEMMA SteadyTokens ==
  ASSUME Steady, NEW r \in OpId
  PROVE  /\ (r \in raHash' <=> r \in raHash) => Tokens(r)' = Tokens(r)
         /\ r \in raHash /\ r \notin raHash' =>
               "readahead" \in Tokens(r) /\ Tokens(r)' = Tokens(r) \ {"readahead"}
<1>1. /\ UNCHANGED <<mrq, subRq, devQ, fifo, compCur, compBuf>>
      /\ "in_readahead" \in bits'[r] <=> "in_readahead" \in bits[r]
  BY BitsKept DEF Steady, steadyVars, memqVars
<1>2. (Queued(r)' <=> Queued(r)) /\ (Held(r)' <=> Held(r)) /\ SeqRange(fifo)' = SeqRange(fifo)
  BY <1>1 DEF Queued, Held, SeqRange
<1>3. OnWay(r)' <=> OnWay(r) BY <1>1, <1>2 DEF OnWay
<1> QED BY <1>1, <1>3 DEF Tokens

\* What else the invariant needs of a thread's step: it leaves locks and the other
\* threads alone, points only to what was inserted, and takes data from the read-ahead
\* hash only to drop it once it has the lock.
Orderly(t) ==
    /\ ThreadOnly(t)
    /\ UNCHANGED locked
    /\ nops' \in {nops, nops + 1}
    /\ pc'[t] \in Early => (pc[t] \in Early /\ me'[t] = me[t]) \/ me'[t] = nops + 1
    /\ buf'[t] \in Inserted \cup {NULL}
    /\ raHash' \subseteq raHash
    /\ \A r \in raHash \ raHash' : Puts(t, r)'
    /\ \A r \in locked : Puts(t, r) => Puts(t, r)'
Fair(t) == Orderly(t) /\ \A r \in OpId : FairThread(t, r)

\* The step uses what it used.
LEMMA Uncounted ==
  ASSUME Steady, NEW t \in Thread, Orderly(t), UNCHANGED <<ref, raHash>>,
         \A r \in OpId : Uses(t, r)' <=> Uses(t, r)
  PROVE  Fair(t)
  BY SteadyTokens DEF Fair, FairThread

\* The step takes a reference.
LEMMA Takes ==
  ASSUME TypeInv, Steady, NEW t \in Thread, Orderly(t), NEW x \in OpId,
         ref' = [ref EXCEPT ![x] = @ + 1], UNCHANGED raHash,
         ~Uses(t, x), Uses(t, x)',
         \A r \in OpId : r # x => (Uses(t, r)' <=> Uses(t, r))
  PROVE  Fair(t)
<1>1. ref'[x] = ref[x] + 1 /\ \A r \in OpId : r # x => ref'[r] = ref[r]
  BY DEF TypeInv, ReqOK
<1> QED BY <1>1, SteadyTokens DEF Fair, FairThread

\* The step drops the reference it had.
LEMMA Drops ==
  ASSUME TypeInv, Steady, NEW t \in Thread, Orderly(t), NEW x \in OpId,
         ref' = [ref EXCEPT ![x] = @ - 1], UNCHANGED raHash,
         Uses(t, x), ~Uses(t, x)',
         \A r \in OpId : r # x => (Uses(t, r)' <=> Uses(t, r))
  PROVE  Fair(t)
<1>1. ref'[x] = ref[x] - 1 /\ \A r \in OpId : r # x => ref'[r] = ref[r]
  BY DEF TypeInv, ReqOK
<1> QED BY <1>1, SteadyTokens DEF Fair, FairThread

\* The step inherits the reference of the read-ahead hash.
LEMMA Inherits ==
  ASSUME TypeInv, Steady, NEW t \in Thread, Orderly(t), NEW x \in raHash,
         raHash' = raHash \ {x}, UNCHANGED ref,
         ~Uses(t, x), Uses(t, x)',
         \A r \in OpId : r # x => (Uses(t, r)' <=> Uses(t, r))
  PROVE  Fair(t)
<1>1. FairThread(t, x)
  BY SteadyTokens DEF FairThread, TypeInv, HashOK
<1>2. \A r \in OpId : r # x => FairThread(t, r) BY SteadyTokens DEF FairThread
<1> QED BY <1>1, <1>2 DEF Fair

\* Entering an ioctl.
LEMMA InvokeFair ==
  ASSUME TypeInv, HashInv, RefInv, NEW t \in Thread, Invoke(t)
  PROVE  Fair(t)
<1>0. Steady BY InvokeSteady
<1>1. ASSUME NEW kind, NEW k, NEW o, NewCmd(t, kind, k, o), NEW label, Goto(t, label),
             UNCHANGED <<locked, hashVars, buf>>
      PROVE  /\ Orderly(t) /\ nops + 1 \in OpId /\ nops + 1 \notin Inserted
             /\ pc[t] = "idle" /\ pc'[t] = label /\ me'[t] = nops + 1 /\ buf'[t] = buf[t]
             /\ UNCHANGED raHash
             /\ \A u \in Thread : me[u] = nops + 1 => pc[u] = "idle"
  <2>1. /\ pc \in [Thread -> ThreadPc] /\ me \in [Thread -> Ptr] /\ buf \in [Thread -> Ptr]
        /\ nops \in Int /\ Ptr \subseteq Int
    BY Facts DEF TypeInv, ThrInv, ThrOK, HistOK
  <2>2. /\ nops + 1 \in OpId /\ nops' = nops + 1
        /\ pc[t] = "idle" /\ pc'[t] = label /\ me'[t] = nops + 1 /\ buf'[t] = buf[t]
        /\ UNCHANGED raHash /\ ThreadOnly(t)
    BY <1>1, <2>1, ConstantsAssumption
       DEF NewCmd, Goto, hashVars, ThreadOnly, OpId, Ptr, TypeInv, HistOK
  <2>3. buf'[t] \in Inserted \cup {NULL} BY <2>2 DEF RefInv, PointersInserted
  <2>4. \A r : ~Puts(t, r) BY <2>2 DEF Puts, PutPc
  <2>5. Orderly(t) BY <1>1, <2>2, <2>3, <2>4 DEF Orderly
  <2>6. \A u \in Thread : pc[u] # "idle" => me[u] <= nops BY DEF HashInv, OwnCommand
  <2>7. \A u \in Thread : me[u] = nops + 1 => pc[u] = "idle" BY <2>1, <2>6
  <2>8. ~(nops + 1 <= nops) BY <2>1
  <2> QED BY <2>2, <2>5, <2>7, <2>8 DEF Inserted
<1>2. ASSUME NEW k \in Key, NEW o \in AsyncOps, AsyncWriteCmd(t, k, o) PROVE Fair(t)
  <2>1. /\ Orderly(t) /\ nops + 1 \in OpId /\ nops + 1 \notin Inserted
        /\ pc[t] = "idle" /\ pc'[t] = "insert" /\ me'[t] = nops + 1 /\ buf'[t] = buf[t]
        /\ UNCHANGED raHash
        /\ \A u \in Thread : me[u] = nops + 1 => pc[u] = "idle"
    BY <1>1, <1>2 DEF AsyncWriteCmd
  <2>2. PICK n \in OpId : n = nops + 1 BY <2>1
  <2>3. ref[n] = 0 BY <2>1, <2>2, FreshRef DEF OwnPc
  <2>4. ref' = [ref EXCEPT ![n] = @ + 1] BY <1>2, <2>2, <2>3 DEF AsyncWriteCmd, AllocRq
  <2>5. \A r \in OpId : ~Uses(t, r) /\ (Uses(t, r)' <=> r = n)
    BY <2>1, <2>2 DEF Uses, OwnPc, PutPc, FoundPc
  <2> QED BY <1>0, <2>1, <2>4, <2>5, Takes
<1>3. ASSUME NEW kind, NEW k, NEW o, NewCmd(t, kind, k, o),
             NEW label \in {"ra_check", "s_ra", "f_find", "fa_push"}, Goto(t, label),
             UNCHANGED <<locked, hashVars, buf, ref>>
      PROVE  Fair(t)
  <2>1. Orderly(t) /\ pc[t] = "idle" /\ pc'[t] = label /\ UNCHANGED <<raHash, ref>>
    BY <1>1, <1>3
  <2>2. \A r \in OpId : ~Uses(t, r) /\ ~Uses(t, r)'
    BY <2>1 DEF Uses, OwnPc, PutPc, FoundPc
  <2> QED BY <1>0, <2>1, <2>2, Uncounted
<1>4. ASSUME NEW k \in Key, AsyncGetCmd(t, k) PROVE Fair(t)
  BY <1>3, <1>4 DEF AsyncGetCmd
<1>5. ASSUME NEW k \in Key, NEW o \in SyncOps, SyncCmd(t, k, o) PROVE Fair(t)
  BY <1>3, <1>5 DEF SyncCmd
<1>6. ASSUME NEW k \in Key, NEW o \in FlushOps, FlushKeyCmd(t, k, o) PROVE Fair(t)
  BY <1>3, <1>6 DEF FlushKeyCmd
<1>7. ASSUME NEW o \in FlushAllOps, FlushAllCmd(t, o) PROVE Fair(t)
  BY <1>3, <1>7 DEF FlushAllCmd
<1> QED BY <1>2, <1>4, <1>5, <1>6, <1>7 DEF Invoke

\* A step that stays in its ioctl, or returns from it: it goes to label, with a pointer
\* to what was inserted or to nothing.
Goes(t, label, b) ==
    /\ pc' = [pc EXCEPT ![t] = label]
    /\ buf' = [buf EXCEPT ![t] = b]
    /\ me' = IF label = "idle" THEN [me EXCEPT ![t] = NULL] ELSE me
    /\ UNCHANGED <<locked, nops>>
    /\ b \in Inserted \cup {NULL}

\* Such a step is orderly if it takes no data read ahead and has no such data locked.
LEMMA GoesOrderly ==
  ASSUME TypeInv, NEW t \in Thread, NEW label, NEW b, Goes(t, label, b),
         label \in Early => pc[t] \in Early,
         UNCHANGED raHash, pc[t] \in PutPc => buf[t] \notin locked
  PROVE  /\ Orderly(t)
         /\ pc'[t] = label /\ buf'[t] = b /\ (label # "idle" => me'[t] = me[t])
<1>1. pc \in [Thread -> ThreadPc] /\ me \in [Thread -> Ptr] /\ buf \in [Thread -> Ptr]
  BY DEF TypeInv, ThrInv, ThrOK
<1>2. /\ pc'[t] = label /\ buf'[t] = b /\ (label # "idle" => me'[t] = me[t])
      /\ ThreadOnly(t)
  BY <1>1 DEF Goes, ThreadOnly
<1>3. \A r \in locked : ~Puts(t, r) BY DEF Puts
<1>4. "idle" \notin Early BY DEF Early
<1> QED BY <1>2, <1>3, <1>4 DEF Orderly, Goes

\* The lookups of an asynchronous command in the two hashes.
LEMMA AsyncLookupFair ==
  ASSUME TypeInv, HashInv, RefInv, NEW t \in Thread,
         AsyncRaMiss(t) \/ AsyncRaFound(t) \/ AsyncRaHit(t) \/ AsyncInsertFound(t)
  PROVE  Fair(t)
<1>0. Steady BY AsyncSteady
<1>1. /\ pc \in [Thread -> ThreadPc] /\ me \in [Thread -> Ptr] /\ buf \in [Thread -> Ptr]
      /\ buf[t] \in Inserted \cup {NULL}
  BY DEF TypeInv, ThrInv, ThrOK, RefInv, PointersInserted
<1>2. CASE AsyncRaMiss(t)
  <2>1. PICK n \in OpId : n = me[t] /\ pc[t] = "ra_check"
    BY <1>2 DEF AsyncRaMiss, TypeInv, ThrInv
  <2>2. Goes(t, "insert", buf[t]) /\ UNCHANGED raHash
    BY <1>1, <1>2 DEF AsyncRaMiss, Goto, Goes, hashVars, histVars
  <2>3. /\ Orderly(t) /\ pc'[t] = "insert" /\ buf'[t] = buf[t] /\ me'[t] = n
    BY <2>1, <2>2, GoesOrderly DEF Early, PutPc
  <2>4. n \notin Inserted BY <2>1 DEF Inserted, Early
  <2>5. \A u \in Thread : me[u] = n => pc[u] \notin OwnPc
    BY <2>1 DEF HashInv, OwnCommand, OwnPc
  <2>6. ref[n] = 0 BY <2>4, <2>5, FreshRef
  <2>7. ref' = [ref EXCEPT ![n] = @ + 1] BY <1>2, <2>1, <2>6 DEF AsyncRaMiss, AllocRq
  <2>8. \A r \in OpId : ~Uses(t, r) /\ (Uses(t, r)' <=> r = n)
    BY <2>1, <2>3 DEF Uses, OwnPc, PutPc, FoundPc
  <2> QED BY <1>0, <2>2, <2>3, <2>7, <2>8, Takes
<1>3. CASE AsyncRaFound(t)
  <2>1. PICK x \in raHash : IncRef(x) /\ buf' = [buf EXCEPT ![t] = x]
    BY <1>3 DEF AsyncRaFound, Hashed
  <2>2. x \in OpId /\ x \in Inserted /\ pc[t] = "ra_check"
    BY <1>3 DEF AsyncRaFound, TypeInv, HashOK, RefInv, PointersInserted
  <2>3. Goes(t, "ra_find", x) /\ UNCHANGED raHash
    BY <1>3, <2>1, <2>2 DEF AsyncRaFound, Goto, Goes, hashVars, histVars
  <2>4. Orderly(t) /\ pc'[t] = "ra_find" /\ buf'[t] = x
    BY <2>2, <2>3, GoesOrderly DEF Early, PutPc
  <2>5. \A r \in OpId : ~Uses(t, r) /\ (Uses(t, r)' <=> r = x)
    BY <2>2, <2>4 DEF Uses, OwnPc, PutPc, FoundPc
  <2> QED BY <1>0, <2>1, <2>2, <2>3, <2>4, <2>5, Takes DEF IncRef
<1>4. CASE AsyncRaHit(t)
  <2>1. PICK x \in OpId : x = buf[t] /\ pc[t] = "ra_find"
    BY <1>4 DEF AsyncRaHit, TypeInv, ThrInv
  <2>2. PICK label \in {"ra_check", "idle"} : Goes(t, label, NULL) /\ UNCHANGED raHash
    BY <1>4 DEF AsyncRaHit, Goto, Return, Goes, hashVars, histVars
  <2>3. Orderly(t) /\ pc'[t] = label
    BY <2>1, <2>2, GoesOrderly DEF Early, PutPc
  <2>4. \A r \in OpId : (Uses(t, r) <=> r = x) /\ ~Uses(t, r)'
    BY <2>1, <2>3 DEF Uses, OwnPc, PutPc, FoundPc
  <2>5. ref' = [ref EXCEPT ![x] = @ - 1] BY <1>4, <2>1 DEF AsyncRaHit, DecRef
  <2> QED BY <1>0, <2>2, <2>3, <2>4, <2>5, Drops
<1>5. CASE AsyncInsertFound(t)
  <2>1. PICK x \in rqHash : IncRef(x) /\ buf' = [buf EXCEPT ![t] = x]
    BY <1>5 DEF AsyncInsertFound, Hashed
  <2>2. x \in OpId /\ x \in Inserted /\ pc[t] = "insert"
    BY <1>5 DEF AsyncInsertFound, TypeInv, HashOK, HashInv, InsertedFirst
  <2>3. Goes(t, "ins_lock", x) /\ UNCHANGED raHash
    BY <1>5, <2>1, <2>2 DEF AsyncInsertFound, Goto, Goes, histVars
  <2>4. Orderly(t) /\ pc'[t] = "ins_lock" /\ buf'[t] = x /\ me'[t] = me[t]
    BY <2>2, <2>3, GoesOrderly DEF Early, PutPc
  <2>5. x # me[t] BY <2>2 DEF Inserted, Early
  <2>6. /\ ~Uses(t, x) /\ Uses(t, x)'
        /\ \A r \in OpId : r # x => (Uses(t, r)' <=> Uses(t, r))
    BY <2>2, <2>4, <2>5 DEF Uses, OwnPc, PutPc, FoundPc
  <2> QED BY <1>0, <2>1, <2>2, <2>3, <2>4, <2>6, Takes DEF IncRef
<1> QED BY <1>2, <1>3, <1>4, <1>5

\* kv_hash_find_and_del_readahead.
LEMMA TakeReadaheadFair ==
  ASSUME TypeInv, RefInv, Steady, NEW t \in Thread, NEW hit \in PutPc,
         NEW miss \in {"wake", "s_find", "s_issue"},
         pc[t] \in {"ra_del", "s_ra", "s_ra2"}, TakeReadahead(t, hit, miss),
         UNCHANGED <<ref, locked, me, nops>>
  PROVE  Fair(t)
<1>1. /\ pc \in [Thread -> ThreadPc] /\ me \in [Thread -> Ptr] /\ buf \in [Thread -> Ptr]
      /\ buf[t] \in Inserted \cup {NULL}
  BY DEF TypeInv, ThrInv, ThrOK, RefInv, PointersInserted
<1>2. \A r : ~Uses(t, r) /\ ~Puts(t, r) BY DEF Uses, OwnPc, PutPc, FoundPc, Puts
<1>3. CASE Goto(t, miss) /\ UNCHANGED <<raHash, buf>>
  <2>1. Goes(t, miss, buf[t]) BY <1>1, <1>3 DEF Goto, Goes
  <2>2. Orderly(t) /\ pc'[t] = miss BY <1>3, <2>1, GoesOrderly DEF Early, PutPc
  <2>3. \A r \in OpId : ~Uses(t, r)' BY <2>2 DEF Uses, OwnPc, PutPc, FoundPc
  <2> QED BY <1>2, <1>3, <2>2, <2>3, Uncounted
<1>4. ASSUME NEW x \in raHash, raHash' = raHash \ {x}, buf' = [buf EXCEPT ![t] = x],
             Goto(t, hit)
      PROVE  Fair(t)
  <2>1. x \in Inserted BY DEF RefInv, PointersInserted
  <2>2. pc'[t] = hit /\ buf'[t] = x /\ ThreadOnly(t)
    BY <1>1, <1>4 DEF Goto, ThreadOnly
  <2>3. Puts(t, x)' BY <2>2 DEF Puts
  <2>4. hit \notin Early BY DEF PutPc, Early
  <2>5. Orderly(t) BY <1>2, <1>4, <2>1, <2>2, <2>3, <2>4 DEF Orderly
  <2>6. \A r \in OpId : Uses(t, r)' <=> r = x
    BY <2>2 DEF Uses, OwnPc, PutPc, FoundPc
  <2>7. x \in OpId BY DEF TypeInv, HashOK
  <2> QED BY <1>2, <1>4, <2>5, <2>6, <2>7, Inherits
<1> QED BY <1>3, <1>4 DEF TakeReadahead, Hashed

\* The rest of an asynchronous command, after the insertion.
LEMMA AsyncEndFair ==
  ASSUME TypeInv, HashInv, RefInv, NEW t \in Thread,
         AsyncRaDel(t) \/ AsyncRaPut(t) \/ AsyncWake(t) \/ AsyncFullSet(t) \/ AsyncFullWait(t)
  PROVE  Fair(t)
<1>0. Steady BY AsyncSteady
<1>1. /\ pc \in [Thread -> ThreadPc] /\ me \in [Thread -> Ptr] /\ buf \in [Thread -> Ptr]
      /\ buf[t] \in Inserted \cup {NULL}
  BY DEF TypeInv, ThrInv, ThrOK, RefInv, PointersInserted
<1>2. ASSUME NEW label \in {"wake", "oops", "full_set", "full_wait", "idle"},
             NEW b, Goes(t, label, b),
             pc[t] \in {"ra_del", "wake", "full_set", "full_wait"}, UNCHANGED <<ref, raHash>>
      PROVE  Fair(t)
  <2>1. Orderly(t) /\ pc'[t] = label BY <1>2, GoesOrderly DEF Early, PutPc
  <2>2. \A r \in OpId : ~Uses(t, r) /\ ~Uses(t, r)'
    BY <1>2, <2>1 DEF Uses, OwnPc, PutPc, FoundPc
  <2> QED BY <1>0, <1>2, <2>1, <2>2, Uncounted
<1>3. CASE AsyncWake(t)
  BY <1>1, <1>2, <1>3 DEF AsyncWake, Goto, Return, Goes, hashVars, reqVars
<1>4. CASE AsyncFullSet(t)
  BY <1>1, <1>2, <1>4 DEF AsyncFullSet, Goto, Goes, hashVars, reqVars, histVars
<1>5. CASE AsyncFullWait(t)
  BY <1>2, <1>5 DEF AsyncFullWait, Return, Goes, hashVars, reqVars
<1>6. CASE AsyncRaPut(t)
  <2>1. PICK x \in OpId : x = buf[t] /\ pc[t] = "ra_put" /\ x \notin locked
    BY <1>6 DEF AsyncRaPut, TypeInv, ThrInv
  <2>2. Goes(t, "wake", NULL) /\ UNCHANGED raHash
    BY <1>6 DEF AsyncRaPut, Goto, Goes, hashVars, histVars
  <2>3. Orderly(t) /\ pc'[t] = "wake" BY <2>1, <2>2, GoesOrderly DEF Early
  <2>4. \A r \in OpId : (Uses(t, r) <=> r = x) /\ ~Uses(t, r)'
    BY <2>1, <2>3 DEF Uses, OwnPc, PutPc, FoundPc
  <2>5. ref' = [ref EXCEPT ![x] = @ - 1] BY <1>6, <2>1 DEF AsyncRaPut, DecRef
  <2> QED BY <1>0, <2>2, <2>3, <2>4, <2>5, Drops
<1>7. CASE AsyncRaDel(t)
  <2>1. CASE UNCHANGED raHash
    <3>1. PICK label \in {"wake", "oops"} : Goto(t, label) /\ UNCHANGED buf
      BY <1>7, <2>1 DEF AsyncRaDel, TakeReadahead, Hashed
    <3> QED BY <1>1, <1>2, <1>7, <2>1, <3>1 DEF AsyncRaDel, Goto, Goes, reqVars, histVars
  <2>2. CASE raHash' # raHash
    <3>1. TakeReadahead(t, "ra_put", "wake") BY <1>7, <2>2 DEF AsyncRaDel
    <3>2. "ra_put" \in PutPc BY DEF PutPc
    <3> QED BY <1>0, <1>7, <3>1, <3>2, TakeReadaheadFair DEF AsyncRaDel, reqVars, histVars
  <2> QED BY <2>1, <2>2
<1> QED BY <1>3, <1>4, <1>5, <1>6, <1>7

\* The steps of the synchronous commands but the end of the lookup.
LEMMA SyncFair ==
  ASSUME TypeInv, HashInv, Behind, RefInv, NEW t \in Thread,
         SyncReadahead(t) \/ SyncReadaheadPut(t) \/ SyncFindNone(t) \/ SyncFind(t)
           \/ SyncWait(t) \/ SyncReadBlocking(t) \/ SyncWaitBlocking(t) \/ SyncIssue(t)
  PROVE  Fair(t)
<1>0. Steady BY SyncSteady
<1>1. /\ pc \in [Thread -> ThreadPc] /\ me \in [Thread -> Ptr] /\ buf \in [Thread -> Ptr]
      /\ buf[t] \in Inserted \cup {NULL}
  BY DEF TypeInv, ThrInv, ThrOK, RefInv, PointersInserted
<1>2. ASSUME NEW label \in {"s_issue", "s_ra2", "s_wait_blk", "oops", "s_find", "idle"},
             NEW b, Goes(t, label, b),
             pc[t] \in {"s_find", "s_wait", "s_blk", "s_wait_blk", "s_issue"},
             UNCHANGED <<ref, raHash>>
      PROVE  Fair(t)
  <2>1. Orderly(t) /\ pc'[t] = label BY <1>2, GoesOrderly DEF Early, PutPc
  <2>2. \A r \in OpId : ~Uses(t, r) /\ ~Uses(t, r)'
    BY <1>2, <2>1 DEF Uses, OwnPc, PutPc, FoundPc
  <2> QED BY <1>0, <1>2, <2>1, <2>2, Uncounted
<1>3. CASE SyncReadahead(t)
  <2>1. "s_ra_put" \in PutPc /\ "s_ra2_put" \in PutPc BY DEF PutPc
  <2>2. UNCHANGED <<ref, locked, me, nops>> BY <1>3 DEF SyncReadahead, reqVars, histVars
  <2>3. CASE pc[t] = "s_ra" /\ TakeReadahead(t, "s_ra_put", "s_find")
    BY <1>0, <2>1, <2>2, <2>3, TakeReadaheadFair
  <2>4. CASE pc[t] = "s_ra2" /\ TakeReadahead(t, "s_ra2_put", "s_issue")
    BY <1>0, <2>1, <2>2, <2>4, TakeReadaheadFair
  <2> QED BY <1>3, <2>3, <2>4 DEF SyncReadahead
<1>4. CASE SyncReadaheadPut(t)
  <2>1. PICK x \in OpId : x = buf[t] /\ pc[t] \in {"s_ra_put", "s_ra2_put"} /\ x \notin locked
    BY <1>4 DEF SyncReadaheadPut, TypeInv, ThrInv
  <2>2. PICK label \in {"s_find", "s_issue", "idle"} : Goes(t, label, NULL) /\ UNCHANGED raHash
    BY <1>4 DEF SyncReadaheadPut, Goto, Return, Goes, hashVars
  <2>3. Orderly(t) /\ pc'[t] = label BY <2>1, <2>2, GoesOrderly DEF Early
  <2>4. \A r \in OpId : (Uses(t, r) <=> r = x) /\ ~Uses(t, r)'
    BY <2>1, <2>3 DEF Uses, OwnPc, PutPc, FoundPc
  <2>5. ref' = [ref EXCEPT ![x] = @ - 1] BY <1>4, <2>1 DEF SyncReadaheadPut, DecRef
  <2> QED BY <1>0, <2>2, <2>3, <2>4, <2>5, Drops
<1>5. CASE SyncFindNone(t)
  BY <1>1, <1>2, <1>5 DEF SyncFindNone, Goto, Goes, hashVars, reqVars, histVars
<1>6. CASE SyncFind(t)
  <2>1. PICK x \in rqHash : IncRef(x) /\ buf' = [buf EXCEPT ![t] = x]
    BY <1>6 DEF SyncFind, Hashed
  <2>2. x \in OpId /\ x \in Inserted /\ pc[t] = "s_find"
    BY <1>6 DEF SyncFind, TypeInv, HashOK, HashInv, InsertedFirst
  <2>3. Goes(t, "s_lock", x) /\ UNCHANGED raHash
    BY <1>6, <2>1, <2>2 DEF SyncFind, Goto, Goes, histVars
  <2>4. Orderly(t) /\ pc'[t] = "s_lock" /\ buf'[t] = x
    BY <2>2, <2>3, GoesOrderly DEF Early, PutPc
  <2>5. \A r \in OpId : ~Uses(t, r) /\ (Uses(t, r)' <=> r = x)
    BY <2>2, <2>4 DEF Uses, OwnPc, PutPc, FoundPc
  <2> QED BY <1>0, <2>1, <2>2, <2>3, <2>4, <2>5, Takes DEF IncRef
<1>7. CASE SyncWait(t)
  BY <1>2, <1>7 DEF SyncWait, Goto, Goes, hashVars, reqVars, histVars
<1>8. CASE SyncReadBlocking(t)
  <2>1. PICK x \in OpId : x = buf[t] /\ pc[t] = "s_blk"
    BY <1>8 DEF SyncReadBlocking, TypeInv, ThrInv
  <2>2. blk[x] \in Inserted \cup {NULL} BY BlockerFacts
  <2>3. PICK label \in {"oops", "s_wait_blk"} : Goes(t, label, blk[x])
    BY <1>1, <1>8, <2>1, <2>2 DEF SyncReadBlocking, Goto, Goes, histVars
  <2> QED BY <1>2, <1>8, <2>1, <2>3 DEF SyncReadBlocking, hashVars, reqVars
<1>9. CASE SyncWaitBlocking(t)
  BY <1>2, <1>9 DEF SyncWaitBlocking, Goto, Goes, hashVars, reqVars, histVars
<1>10. CASE SyncIssue(t)
  BY <1>2, <1>10 DEF SyncIssue, Return, Goes, hashVars, reqVars
<1> QED BY <1>3, <1>4, <1>5, <1>6, <1>7, <1>8, <1>9, <1>10

\* The steps of the flush commands.
LEMMA FlushFair ==
  ASSUME TypeInv, HashInv, RefInv, NEW t \in Thread, FlushStep(t)
  PROVE  Fair(t)
<1>0. Steady BY FlushSteady
<1>1. /\ pc \in [Thread -> ThreadPc] /\ me \in [Thread -> Ptr] /\ buf \in [Thread -> Ptr]
      /\ buf[t] \in Inserted \cup {NULL}
  BY DEF TypeInv, ThrInv, ThrOK, RefInv, PointersInserted
<1>2. ASSUME NEW label \in {"fa_drain", "fa_pick", "fa_wait", "idle"}, NEW b, Goes(t, label, b),
             pc[t] \in {"f_find", "fa_push", "fa_drain", "fa_pick", "fa_wait"},
             UNCHANGED <<ref, raHash>>
      PROVE  Fair(t)
  <2>1. Orderly(t) /\ pc'[t] = label BY <1>2, GoesOrderly DEF Early, PutPc
  <2>2. \A r \in OpId : ~Uses(t, r) /\ ~Uses(t, r)'
    BY <1>2, <2>1 DEF Uses, OwnPc, PutPc, FoundPc
  <2> QED BY <1>0, <1>2, <2>1, <2>2, Uncounted
<1>3. ASSUME NEW label \in {"f_push", "f_drain", "f_wait"}, Goes(t, label, buf[t]),
             pc[t] \in {"f_lock", "f_push", "f_drain"}, UNCHANGED <<ref, raHash>>
      PROVE  Fair(t)
  <2>1. Orderly(t) /\ pc'[t] = label /\ buf'[t] = buf[t]
    BY <1>3, GoesOrderly DEF Early, PutPc
  <2>2. \A r \in OpId : Uses(t, r) <=> Uses(t, r)'
    BY <1>3, <2>1 DEF Uses, OwnPc, PutPc, FoundPc
  <2> QED BY <1>0, <1>3, <2>1, <2>2, Uncounted
<1>4. ASSUME NEW x, x = buf[t], Goes(t, "idle", NULL), pc[t] \in {"f_lock", "f_wait"},
             ref' = [ref EXCEPT ![x] = @ - 1], UNCHANGED raHash
      PROVE  Fair(t)
  <2>1. x \in OpId BY <1>4 DEF TypeInv, ThrInv
  <2>2. Orderly(t) /\ pc'[t] = "idle" BY <1>4, GoesOrderly DEF Early, PutPc
  <2>3. \A r \in OpId : (Uses(t, r) <=> r = x) /\ ~Uses(t, r)'
    BY <1>4, <2>2 DEF Uses, OwnPc, PutPc, FoundPc
  <2> QED BY <1>0, <1>4, <2>1, <2>2, <2>3, Drops
<1>5. CASE FlushNone(t)
  BY <1>2, <1>5 DEF FlushNone, Return, Goes, hashVars, reqVars
<1>6. CASE FlushFind(t)
  <2>1. PICK x \in rqHash : IncRef(x) /\ buf' = [buf EXCEPT ![t] = x]
    BY <1>6 DEF FlushFind, Hashed
  <2>2. x \in OpId /\ x \in Inserted /\ pc[t] = "f_find"
    BY <1>6 DEF FlushFind, TypeInv, HashOK, HashInv, InsertedFirst
  <2>3. Goes(t, "f_lock", x) /\ UNCHANGED raHash
    BY <1>6, <2>1, <2>2 DEF FlushFind, Goto, Goes, histVars, hashVars
  <2>4. Orderly(t) /\ pc'[t] = "f_lock" /\ buf'[t] = x
    BY <2>2, <2>3, GoesOrderly DEF Early, PutPc
  <2>5. \A r \in OpId : ~Uses(t, r) /\ (Uses(t, r)' <=> r = x)
    BY <2>2, <2>4 DEF Uses, OwnPc, PutPc, FoundPc
  <2> QED BY <1>0, <2>1, <2>2, <2>3, <2>4, <2>5, Takes DEF IncRef
<1>7. CASE FlushMark(t)
  BY <1>1, <1>3, <1>7 DEF FlushMark, Goto, Goes, hashVars, histVars
<1>8. CASE FlushCompleted(t)
  BY <1>4, <1>8 DEF FlushCompleted, DecRef, Return, Goes, hashVars
<1>9. CASE FlushPush(t)
  <2>1. pc[t] \in {"f_push", "fa_push"} /\ UNCHANGED <<ref, raHash>>
    BY <1>9 DEF FlushPush, reqVars, hashVars
  <2>2. Goes(t, IF pc[t] = "f_push" THEN "f_drain" ELSE "fa_drain", buf[t])
    BY <1>1, <1>9 DEF FlushPush, Goto, Goes, histVars
  <2>3. CASE pc[t] = "f_push" BY <1>3, <2>1, <2>2, <2>3
  <2>4. CASE pc[t] = "fa_push" BY <1>2, <2>1, <2>2, <2>4
  <2> QED BY <2>1, <2>3, <2>4
<1>10. CASE FlushDrain(t)
  <2>1. pc[t] \in {"f_drain", "fa_drain"} /\ UNCHANGED <<ref, raHash>>
    BY <1>10 DEF FlushDrain, reqVars, hashVars
  <2>2. Goes(t, IF pc[t] = "f_drain" THEN "f_wait" ELSE "fa_pick", buf[t])
    BY <1>1, <1>10 DEF FlushDrain, Goto, Goes, histVars
  <2>3. CASE pc[t] = "f_drain" BY <1>3, <2>1, <2>2, <2>3
  <2>4. CASE pc[t] = "fa_drain" BY <1>2, <2>1, <2>2, <2>4
  <2> QED BY <2>1, <2>3, <2>4
<1>11. CASE FlushDone(t)
  BY <1>4, <1>11 DEF FlushDone, DecRef, Return, Goes, hashVars
<1>12. CASE FlushAllEmpty(t)
  BY <1>2, <1>12 DEF FlushAllEmpty, Return, Goes, hashVars, reqVars
<1>13. CASE FlushAllPick(t)
  <2>1. PICK l, m, q, r : /\ l = mlist["WRITE"] /\ m = l[Len(l)] /\ q = mrq[m]
                          /\ r = q[Len(q)] /\ l # <<>> /\ q # <<>>
                          /\ buf' = [buf EXCEPT ![t] = r]
    BY <1>13 DEF FlushAllPick
  <2>2. m \in Memq
    <3>1. l \in Seq(Memq) BY <2>1 DEF TypeInv, MemqOK, Type
    <3> QED BY <2>1, <3>1, SeqFacts
  <2>3. r \in Inserted
    <3>1. q \in Seq(Inserted) BY <2>1, <2>2 DEF HashInv, InsertedFirst
    <3> QED BY <2>1, <3>1, SeqFacts
  <2>4. Goes(t, "fa_wait", r)
    BY <1>13, <2>1, <2>3 DEF FlushAllPick, Goto, Goes, histVars
  <2> QED BY <1>2, <1>13, <2>4 DEF FlushAllPick, hashVars
<1>14. CASE FlushAllDone(t)
  BY <1>2, <1>14 DEF FlushAllDone, Return, Goes, hashVars, reqVars
<1> QED BY <1>5, <1>6, <1>7, <1>8, <1>9, <1>10, <1>11, <1>12, <1>13, <1>14 DEF FlushStep

\* Steps that move no request but the thread's own one leave the tokens alone.
LEMMA TokensKept ==
  ASSUME NEW r \in OpId, Queued(r)' <=> Queued(r),
         UNCHANGED <<subRq, devQ, fifo, compCur, compBuf, raHash>>,
         "in_readahead" \in bits'[r] <=> "in_readahead" \in bits[r]
  PROVE  Tokens(r)' = Tokens(r)
<1>1. (Held(r)' <=> Held(r)) /\ SeqRange(fifo)' = SeqRange(fifo) BY DEF Held, SeqRange
<1>2. OnWay(r)' <=> OnWay(r) BY <1>1 DEF OnWay
<1> QED BY <1>2 DEF Tokens

\* A thread inserts its request: it leaves its reference to the request, and drops
\* the one on the request that it found in flight.
LEMMA JoinsFair ==
  ASSUME TypeInv, HashInv, CountInv, RefInv, NEW t \in Thread, Joins(t)
  PROVE  Fair(t)
<1>0. PICK n \in OpId, pending \in BOOLEAN : n = me[t] /\ n \notin Inserted /\ Enqueue(n, pending)
  BY DEF Joins
<1>1. /\ pc \in [Thread -> ThreadPc] /\ me \in [Thread -> Ptr] /\ buf \in [Thread -> Ptr]
      /\ buf[t] \in Inserted \cup {NULL}
      /\ ref \in [OpId -> Int] /\ bits \in [OpId -> SUBSET Bit]
  BY DEF TypeInv, ThrInv, ThrOK, ReqOK, RefInv, PointersInserted
<1>2. /\ ~Queued(n) /\ ~OnWay(n)
  <2>1. ~Queued(n) /\ ~Flying(n) BY <1>0, NewRq
  <2>2. n # compCur BY <1>0, Facts DEF HashInv, InsertedFirst
  <2> QED BY <2>1, <2>2 DEF OnWay, Flying
<1>3. Queued(n)' /\ \A x : x # n => (Queued(x)' <=> Queued(x))
  BY <1>0, <1>2, Enqueued DEF CountInv, PlaceInv
<1>4. UNCHANGED <<subRq, devQ, fifo, compCur, compBuf>> BY DEF Joins
<1>5. PICK label \in {"ra_del", "wake"} : label = AfterEnqueue(n) BY DEF AfterEnqueue
<1>6. ASSUME UNCHANGED raHash
      PROVE  "way" \notin Tokens(n) /\ Tokens(n)' = Tokens(n) \cup {"way"}
  <2>1. OnWay(n)' BY <1>3 DEF OnWay
  <2> QED BY <1>2, <1>4, <1>6, <2>1 DEF Tokens
<1>7. CASE AsyncInsertNew(t)
  <2>1. Goes(t, label, buf[t]) /\ UNCHANGED <<raHash, ref, bits>> /\ pc[t] = "insert"
    BY <1>0, <1>1, <1>5, <1>7 DEF AsyncInsertNew, Goto, Goes, histVars
  <2>2. Orderly(t) /\ pc'[t] = label BY <2>1, GoesOrderly DEF Early, PutPc
  <2>3. \A r \in OpId : (Uses(t, r) <=> r = n) /\ ~Uses(t, r)'
    BY <1>0, <2>1, <2>2 DEF Uses, OwnPc, PutPc, FoundPc
  <2>4. \A r \in OpId : r # n => Tokens(r)' = Tokens(r) BY <1>3, <1>4, <2>1, TokensKept
  <2>5. FairThread(t, n) BY <1>6, <2>1, <2>3 DEF FairThread
  <2>6. \A r \in OpId : r # n => FairThread(t, r) BY <2>1, <2>3, <2>4 DEF FairThread
  <2> QED BY <2>2, <2>5, <2>6 DEF Fair
<1>8. CASE AsyncInsertLocked(t) /\ InsertBehind(t, buf[t])
  <2>1. PICK b : b = buf[t] /\ pc[t] = "ins_lock" BY <1>8 DEF AsyncInsertLocked
  <2>2. b \in OpId /\ b # n
    BY <1>0, <1>1, <2>1, Facts DEF TypeInv, ThrInv
  <2>3. /\ Goes(t, label, NULL) /\ UNCHANGED raHash
        /\ ref' = [ref EXCEPT ![b] = @ - 1]
        /\ bits' = [bits EXCEPT ![b] = @ \cup {"blocking"}]
    BY <1>0, <1>5, <1>8, <2>1
       DEF AsyncInsertLocked, InsertBehind, DecRef, MarkBlocking, Goto, Goes
  <2>4. Orderly(t) /\ pc'[t] = label BY <2>1, <2>3, GoesOrderly DEF Early, PutPc
  <2>5. \A r \in OpId : (Uses(t, r) <=> r = n \/ r = b) /\ ~Uses(t, r)'
    BY <1>0, <2>1, <2>4 DEF Uses, OwnPc, PutPc, FoundPc
  <2>6. \A r \in OpId : "in_readahead" \in bits'[r] <=> "in_readahead" \in bits[r]
    BY <1>1, <2>2, <2>3
  <2>7. \A r \in OpId : r # n => Tokens(r)' = Tokens(r)
    BY <1>3, <1>4, <2>3, <2>6, TokensKept
  <2>8. ref'[b] = ref[b] - 1 /\ \A r \in OpId : r # b => ref'[r] = ref[r]
    BY <1>1, <2>2, <2>3
  <2>9. FairThread(t, n) BY <1>6, <2>2, <2>3, <2>5, <2>8 DEF FairThread
  <2>10. FairThread(t, b) BY <2>2, <2>5, <2>7, <2>8 DEF FairThread
  <2>11. \A r \in OpId : r # n /\ r # b => FairThread(t, r)
    BY <2>5, <2>7, <2>8 DEF FairThread
  <2> QED BY <2>4, <2>9, <2>10, <2>11 DEF Fair
<1> QED BY <1>7, <1>8 DEF Joins

\* The command is merged into the buffered request; the new request is freed.
LEMMA MergeFair ==
  ASSUME TypeInv, HashInv, RefInv, NEW t \in Thread, AsyncInsertLocked(t),
         InsertMerge(t, buf[t])
  PROVE  Fair(t)
<1>1. PICK n \in OpId, b \in OpId : n = me[t] /\ b = buf[t] /\ pc[t] = "ins_lock"
  BY DEF AsyncInsertLocked, TypeInv, ThrInv
<1>2. b # n
  <2>1. b \in Inserted BY <1>1, Facts DEF RefInv, PointersInserted
  <2> QED BY <1>1, <2>1 DEF Inserted, Early
<1>3. /\ Goes(t, "idle", NULL) /\ UNCHANGED raHash
      /\ ref' = [ref EXCEPT ![b] = @ - 1, ![n] = @ - 1]
  BY <1>1 DEF AsyncInsertLocked, InsertMerge, DropBoth, Return, Goes
<1>4. Orderly(t) /\ pc'[t] = "idle" BY <1>1, <1>3, GoesOrderly DEF Early, PutPc
<1>5. \A r \in OpId : (Uses(t, r) <=> r = n \/ r = b) /\ ~Uses(t, r)'
  BY <1>1, <1>4 DEF Uses, OwnPc, PutPc, FoundPc
<1>6. Steady
  BY DEF AsyncInsertLocked, InsertMerge, Steady, steadyVars, subVars, compVars, devVars
<1>7. /\ ref'[b] = ref[b] - 1 /\ ref'[n] = ref[n] - 1
      /\ \A r \in OpId : r # b /\ r # n => ref'[r] = ref[r]
  BY <1>2, <1>3 DEF TypeInv, ReqOK
<1>8. \A r \in OpId : Tokens(r)' = Tokens(r) BY <1>3, <1>6, SteadyTokens
<1> QED BY <1>4, <1>5, <1>7, <1>8 DEF Fair, FairThread

\* The end of kv_hash_find_and_lock.
LEMMA FindLockedFair ==
  ASSUME TypeInv, HashInv, RefInv, NEW t \in Thread, SyncFindLocked(t)
  PROVE  Fair(t)
<1>1. PICK b \in OpId : b = buf[t] /\ pc[t] = "s_lock"
  BY DEF SyncFindLocked, TypeInv, ThrInv
<1>2. b \in Inserted /\ buf \in [Thread -> Ptr] /\ bits \in [OpId -> SUBSET Bit]
      /\ ref \in [OpId -> Int]
  BY <1>1, Facts DEF RefInv, PointersInserted, TypeInv, ThrInv, ThrOK, ReqOK
<1>3. ASSUME NEW label \in {"s_wait", "s_blk", "s_issue"}, NEW p, Goes(t, label, p),
             \A r \in OpId : Tokens(r)' = Tokens(r),
             ref' = [ref EXCEPT ![b] = @ - 1], UNCHANGED raHash
      PROVE  Fair(t)
  <2>1. Orderly(t) /\ pc'[t] = label BY <1>1, <1>3, GoesOrderly DEF Early, PutPc
  <2>2. \A r \in OpId : (Uses(t, r) <=> r = b) /\ ~Uses(t, r)'
    BY <1>1, <2>1 DEF Uses, OwnPc, PutPc, FoundPc
  <2>3. ref'[b] = ref[b] - 1 /\ \A r \in OpId : r # b => ref'[r] = ref[r]
    BY <1>2, <1>3
  <2> QED BY <1>3, <2>1, <2>2, <2>3 DEF Fair, FairThread
<1>4. /\ UNCHANGED <<mrq, subRq, devQ, fifo, compCur, compBuf, raHash, locked, me, nops>>
  BY DEF SyncFindLocked, memqVars, subVars, devVars, compVars, histVars
<1>5. \A r : Queued(r)' <=> Queued(r) BY <1>4 DEF Queued, SeqRange
<1>6. ASSUME NEW label \in {"s_wait", "s_blk"}, FindBusy(t, b, label) PROVE Fair(t)
  <2>1. \A r \in OpId : Tokens(r)' = Tokens(r)
    BY <1>4, <1>5, <1>6, TokensKept DEF FindBusy
  <2>2. Goes(t, label, b)
    BY <1>1, <1>2, <1>4, <1>6 DEF FindBusy, Goto, Goes
  <2> QED BY <1>3, <1>4, <1>6, <2>1, <2>2 DEF FindBusy, DecRef
<1>7. ASSUME FindBuffered(t, b) PROVE Fair(t)
  <2>1. bits' = [bits EXCEPT ![b] = @ \cup {"invalid"}] BY <1>7 DEF FindBuffered, Invalidate
  <2>2. \A r \in OpId : "in_readahead" \in bits'[r] <=> "in_readahead" \in bits[r]
    BY <1>2, <2>1
  <2>3. \A r \in OpId : Tokens(r)' = Tokens(r) BY <1>4, <1>5, <2>2, TokensKept
  <2>4. Goes(t, "s_issue", NULL)
    BY <1>4, <1>7 DEF FindBuffered, Goto, Goes
  <2> QED BY <1>3, <1>4, <1>7, <2>3, <2>4 DEF FindBuffered, DecRef
<1>8. ~Unusable(b) BY <1>1 DEF HashInv, BucketHeld, HashUsable
<1> QED BY <1>1, <1>6, <1>7, <1>8 DEF SyncFindLocked

\* Every step of a thread is fair.
LEMMA ThreadFair ==
  ASSUME TypeInv, HashInv, CountInv, Behind, RefInv, NEW t \in Thread,
         Invoke(t) \/ ThreadStep(t)
  PROVE  Fair(t)
<1>1. CASE AsyncInsertLocked(t)
  <2>1. ~Unusable(buf[t])
    BY <1>1 DEF AsyncInsertLocked, HashInv, BucketHeld, HashUsable
  <2>2. CASE InsertMerge(t, buf[t]) BY <1>1, <2>2, MergeFair
  <2>3. CASE InsertBehind(t, buf[t])
    <3>1. Joins(t)
      <4>1. me[t] \in OpId /\ me[t] \notin Inserted
        BY <1>1 DEF AsyncInsertLocked, TypeInv, ThrInv, Inserted, Early
      <4> QED BY <1>1, <2>3, <4>1
              DEF AsyncInsertLocked, InsertBehind, Joins, subVars, compVars, devVars
    <3> QED BY <3>1, JoinsFair
  <2> QED BY <1>1, <2>1, <2>2, <2>3 DEF AsyncInsertLocked
<1>2. CASE AsyncInsertNew(t)
  <2>1. me[t] \in OpId /\ me[t] \notin Inserted
    BY <1>2 DEF AsyncInsertNew, TypeInv, ThrInv, Inserted, Early
  <2>2. Joins(t) BY <1>2, <2>1 DEF AsyncInsertNew, Joins, subVars, compVars, devVars
  <2> QED BY <2>2, JoinsFair
<1> QED BY <1>1, <1>2, InvokeFair, AsyncLookupFair, AsyncEndFair, SyncFair, FlushFair,
           FindLockedFair
        DEF ThreadStep, AsyncStep, SyncStep

\* What the threads' steps do to the completed requests: nothing.
LEMMA ThreadQuiet ==
  ASSUME TypeInv, HashInv, CountInv, NEW t \in Thread, Invoke(t) \/ ThreadStep(t)
  PROVE  /\ UNCHANGED <<compPc, compCur, compBuf>>
         /\ \A r \in OpId : "in_readahead" \in bits'[r] <=> "in_readahead" \in bits[r]
         /\ \A r \in OpId : "inFlight" \in bits'[r] <=> "inFlight" \in bits[r]
         /\ \A r \in Inserted : Queued(r)' => Queued(r)
<1>1. CASE Steady
  <2>1. UNCHANGED <<mrq, compPc, compCur, compBuf>> BY <1>1 DEF Steady, steadyVars, memqVars
  <2>2. \A r : Queued(r)' <=> Queued(r) BY <2>1 DEF Queued, SeqRange
  <2>3. \A r \in OpId : /\ "in_readahead" \in bits'[r] <=> "in_readahead" \in bits[r]
                        /\ "inFlight" \in bits'[r] <=> "inFlight" \in bits[r]
    BY <1>1, BitsKept DEF Steady
  <2> QED BY <2>1, <2>2, <2>3
<1>2. CASE Joins(t)
  <2>1. PICK n \in OpId, pending \in BOOLEAN : n = me[t] /\ n \notin Inserted /\ Enqueue(n, pending)
    BY <1>2 DEF Joins
  <2>2. ~Queued(n) BY <2>1, NewRq
  <2>3. \A x : x # n => (Queued(x)' <=> Queued(x))
    BY <2>1, <2>2, Enqueued DEF CountInv, PlaceInv
  <2>4. UNCHANGED bits \/ bits' = [bits EXCEPT ![buf[t]] = @ \cup {"blocking"}]
    BY <1>2 DEF Joins, AsyncInsertNew, InsertBehind, MarkBlocking
  <2>5. \A r \in OpId : /\ "in_readahead" \in bits'[r] <=> "in_readahead" \in bits[r]
                        /\ "inFlight" \in bits'[r] <=> "inFlight" \in bits[r]
    BY <2>4 DEF TypeInv, ReqOK
  <2> QED BY <1>2, <2>1, <2>3, <2>5 DEF Joins
<1>3. CASE Cancels(t)
  <2>1. bits' = [bits EXCEPT ![buf[t]] = @ \cup {"invalid"}]
    BY <1>3 DEF Cancels, FindBuffered, Invalidate
  <2>2. \A r \in OpId : /\ "in_readahead" \in bits'[r] <=> "in_readahead" \in bits[r]
                        /\ "inFlight" \in bits'[r] <=> "inFlight" \in bits[r]
    BY <2>1 DEF TypeInv, ReqOK
  <2>3. UNCHANGED <<mrq, compPc, compCur, compBuf>> BY <1>3 DEF Cancels, memqVars
  <2>4. \A r : Queued(r)' <=> Queued(r) BY <2>3 DEF Queued, SeqRange
  <2> QED BY <2>2, <2>3, <2>4
<1> QED BY <1>1, <1>2, <1>3, ThreadClasses

\* A request whose data was put into the read-ahead hash stays locked until the
\* completion daemon is done with it.
LEMMA ReadAheadLocked ==
  ASSUME TypeInv, CountInv, RequestInv, RefInv, compCur # NULL,
         "in_readahead" \in bits[compCur]
  PROVE  compCur \in OpId /\ compPc \in Late /\ compCur \in locked
<1>1. PICK c \in OpId : c = compCur
  BY DEF TypeInv, CompInv, CompOK, OpId, Ptr, NULL
<1>2. "inFlight" \notin bits[c] BY <1>1 DEF RefInv, RaClean
<1>3. compPc \notin Completing BY <1>1, <1>2, CurPlace DEF RequestInv, RequestOK
<1>4. compPc \notin {"idle", "drain", "wake"} BY DEF CountInv, PlaceInv, DaemonsEmpty
<1>5. compPc \in CompletePc BY DEF TypeInv, CompInv, CompOK
<1>6. compPc \in Late BY <1>3, <1>4, <1>5 DEF Late, Completing, CompletePc
<1> QED BY <1>1, <1>6 DEF RefInv, CompHeld

\* The threads preserve the invariant.
LEMMA ThreadRef ==
  ASSUME TypeInv, HashInv, CountInv, PendInv, RefInv, NEW t \in Thread,
         Invoke(t) \/ ThreadStep(t)
  PROVE  RefInv'
<1> USE DEF PendInv
<1>0. Orderly(t) /\ ThreadOnly(t) /\ \A r \in OpId : FairThread(t, r)
  BY ThreadFair DEF Fair, Orderly
<1>1. Inserted \subseteq Inserted'
  <2>1. nops \in Int /\ nops' \in Int /\ nops <= nops'
    BY <1>0, Facts DEF Orderly, TypeInv, HistOK
  <2>2. \A u \in Thread : pc'[u] \in Early =>
            (pc[u] \in Early /\ me'[u] = me[u]) \/ me'[u] = nops + 1
    BY <1>0 DEF Orderly, ThreadOnly
  <2> QED BY <2>1, <2>2, InsertedGrows
<1>2. /\ UNCHANGED <<compPc, compCur, compBuf>>
      /\ \A r \in OpId : "in_readahead" \in bits'[r] <=> "in_readahead" \in bits[r]
      /\ \A r \in OpId : "inFlight" \in bits'[r] <=> "inFlight" \in bits[r]
      /\ \A r \in Inserted : Queued(r)' => Queued(r)
  BY ThreadQuiet
<1>3. PointersInserted'
  <2>1. raHash' \subseteq Inserted' BY <1>0, <1>1 DEF Orderly, RefInv, PointersInserted
  <2>2. compBuf' \in Inserted' \cup {NULL} BY <1>1, <1>2 DEF RefInv, PointersInserted
  <2>3. \A u \in Thread : buf'[u] \in Inserted' \cup {NULL}
    BY <1>0, <1>1 DEF Orderly, ThreadOnly, RefInv, PointersInserted
  <2> QED BY <2>1, <2>2, <2>3 DEF PointersInserted
<1>4. RaClean'
  BY <1>1, <1>2 DEF RefInv, RaClean
<1>5. CompHeld'
  <2>1. /\ compPc' \notin {"ra_dup", "pend_lock"} => compBuf' = NULL
        /\ compPc' \in Late => compCur' \in locked'
    BY <1>0, <1>2 DEF RefInv, CompHeld, Orderly
  <2>2. ASSUME compCur' # NULL, "in_readahead" \in bits'[compCur']
        PROVE  compCur' \in raHash' \/ \E u \in Thread : Puts(u, compCur)'
    <3>1. PICK c \in OpId : c = compCur /\ c = compCur'
      BY <1>2, <2>2 DEF TypeInv, CompInv, CompOK, OpId, Ptr, NULL
    <3>2. "in_readahead" \in bits[c] BY <1>2, <2>2, <3>1
    <3>3. c \in locked BY <3>1, <3>2, <2>2, ReadAheadLocked
    <3>4. CASE c \in raHash
      <4>1. c \in raHash' \/ Puts(t, c)' BY <1>0, <3>4 DEF Orderly
      <4> QED BY <3>1, <4>1 DEF Puts
    <3>5. CASE c \notin raHash
      <4>1. PICK u \in Thread : Puts(u, c)
        BY <2>2, <3>1, <3>2, <3>5 DEF RefInv, CompHeld
      <4>2. CASE u = t
        <5>1. Puts(t, c)' BY <1>0, <3>3, <4>1, <4>2 DEF Orderly
        <5> QED BY <3>1, <5>1 DEF Puts
      <4>3. CASE u # t BY <1>0, <3>1, <4>1, <4>3 DEF Puts, ThreadOnly
      <4> QED BY <4>2, <4>3
    <3> QED BY <3>4, <3>5
  <2> QED BY <2>1, <2>2 DEF CompHeld
<1>6. \A r \in OpId : RefOK(r)' BY <1>0, FairThreadKeep DEF RefInv
<1> QED BY <1>3, <1>4, <1>5, <1>6 DEF RefInv

-----------------------------------------------------------------------------
(* The steps of the daemons and of the device. *)

\* A daemon's step preserves the invariant if it is fair to every request.
LEMMA DaemonKeep ==
  ASSUME TypeInv, RefInv, UNCHANGED <<thrVars, nops>>,
         \A r \in OpId : FairDaemon(r),
         raHash' \subseteq Inserted, compBuf' \in Inserted \cup {NULL},
         RaClean', CompHeld'
  PROVE  RefInv'
<1>1. Inserted' = Inserted BY DEF Inserted, thrVars
<1>2. PointersInserted' BY <1>1 DEF RefInv, PointersInserted, thrVars
<1>3. \A r \in OpId : RefOK(r)' BY FairDaemonKeep DEF RefInv
<1> QED BY <1>2, <1>3 DEF RefInv

\* A step that leaves the references and the read-ahead data alone.
Forgets ==
    /\ UNCHANGED <<thrVars, nops, ref, raHash, compBuf, locked>>
    /\ \A r \in OpId : OnWay(r)' <=> OnWay(r)
    /\ \A r \in OpId : "in_readahead" \in bits'[r] <=> "in_readahead" \in bits[r]
    /\ \A r \in OpId : "in_readahead" \in bits[r] /\ "inFlight" \in bits'[r] =>
          "inFlight" \in bits[r]
    /\ \A r \in OpId : Queued(r)' => Queued(r)
    /\ compPc' = compPc \/ (compPc' \notin Late /\ compPc \notin Late)
    /\ compCur' = compCur \/ (compCur' \in OpId /\ "in_readahead" \notin bits[compCur'])

\* Such a step preserves the invariant.
LEMMA ForgetsKeep ==
  ASSUME TypeInv, RefInv, Forgets, compCur' # compCur => compPc' \notin Late
  PROVE  RefInv'
<1>1. Inserted' = Inserted BY DEF Inserted, Forgets, thrVars
<1>2. \A r \in OpId : FairDaemon(r)
  <2>1. \A r \in OpId : Tokens(r)' = Tokens(r) BY DEF Forgets, Tokens
  <2> QED BY <2>1 DEF FairDaemon, Forgets
<1>3. RaClean' BY <1>1 DEF RefInv, RaClean, Forgets
<1>4. CompHeld'
  <2>1. compPc' \notin {"ra_dup", "pend_lock"} => compBuf' = NULL
    BY DEF Forgets, RefInv, CompHeld, Late
  <2>2. compPc' \in Late => compCur' \in locked' BY DEF Forgets, RefInv, CompHeld
  <2>3. ASSUME compCur' # NULL, "in_readahead" \in bits'[compCur']
        PROVE  compCur' \in raHash' \/ \E t \in Thread : Puts(t, compCur)'
    <3>1. CASE compCur' = compCur
      <4>1. compCur \in OpId BY <2>3, <3>1 DEF TypeInv, CompInv, CompOK, OpId, Ptr, NULL
      <4>2. "in_readahead" \in bits[compCur] BY <2>3, <3>1, <4>1 DEF Forgets
      <4> QED BY <2>3, <3>1, <4>2 DEF Forgets, RefInv, CompHeld, Puts, thrVars
    <3>2. CASE compCur' # compCur BY <2>3, <3>2 DEF Forgets
    <3> QED BY <3>1, <3>2
  <2> QED BY <2>1, <2>2, <2>3 DEF CompHeld
<1>5. raHash' \subseteq Inserted /\ compBuf' \in Inserted \cup {NULL}
  BY DEF Forgets, RefInv, PointersInserted
<1>6. UNCHANGED <<thrVars, nops>> BY DEF Forgets
<1> QED BY <1>2, <1>3, <1>4, <1>5, <1>6, DaemonKeep

\* The steps of the daemons between two requests.
LEMMA CalmRef ==
  ASSUME TypeInv, RefInv, Calm, UNCHANGED <<thrVars, nops, ref, raHash, locked>>,
         compPc' = compPc \/ (compPc' \notin Late /\ compPc \notin Late)
  PROVE  RefInv'
<1>1. \A r \in OpId : /\ "in_readahead" \in bits'[r] <=> "in_readahead" \in bits[r]
                      /\ "inFlight" \in bits'[r] <=> "inFlight" \in bits[r]
  BY BitsKept DEF Calm
<1>2. \A r : (Queued(r)' <=> Queued(r)) /\ (Held(r)' <=> Held(r))
  BY DEF Calm, Queued, Held, SeqRange
<1>3. SeqRange(fifo)' = SeqRange(fifo) BY DEF Calm, SeqRange
<1>4. \A r \in OpId : OnWay(r)' <=> OnWay(r) BY <1>1, <1>2, <1>3 DEF OnWay, Calm
<1>5. Forgets BY <1>1, <1>2, <1>4 DEF Forgets, Calm
<1> QED BY <1>5, ForgetsKeep DEF Calm

\* What is on its way to the completion was not read ahead.
LEMMA WayClean ==
  ASSUME RequestInv, RefInv, NEW r \in OpId, Queued(r) \/ Flying(r)
  PROVE  "in_readahead" \notin bits[r]
  BY DEF RequestInv, RequestOK, RefInv, RaClean

\* A submission daemon makes a request in flight, hands it over later, or the device
\* executes it.
LEMMA ForwardsRef ==
  ASSUME TypeInv, HashInv, CountInv, RequestInv, RefInv,
         \/ \E y \in Type : SubmitRq(y) \/ SubmitResume(y)
         \/ \E r \in OpId : DeviceExec(r)
         \/ CompleteDequeue \/ CompleteUnhash
  PROVE  RefInv'
<1>0. bits \in [OpId -> SUBSET Bit] /\ subRq \in [Type -> Ptr] /\ fifo \in Seq(OpId)
  BY DEF TypeInv, ReqOK, SubInv, SubOK, CompInv, CompOK
<1>1. ASSUME NEW y \in Type, SubmitRq(y) PROVE RefInv'
  <2>1. PICK m \in Memq, r \in OpId : m = subCur[y] /\ r = Head(mrq[m])
    BY <1>1, SubmitHead DEF SubmitRq, TypeInv, SubInv
  <2>2. /\ mrq[m] # <<>> /\ mrq' = [mrq EXCEPT ![m] = Tail(@)]
        /\ bits' = [bits EXCEPT ![r] = @ \cup {"inFlight"}]
        /\ subPc[y] = "submit"
        /\ UNCHANGED <<thrVars, nops, ref, raHash, locked, fifo, compPc, compCur, compBuf>>
    BY <1>1, <2>1 DEF SubmitRq, hashVars, histVars
  <2>3. /\ r \in OpId /\ Queued(r) /\ ~Queued(r)' /\ \A x : x # r => (Queued(x)' <=> Queued(x))
    BY <2>1, <2>2, Dequeued DEF CountInv, PlaceInv
  <2>4. bits'[r] = bits[r] \cup {"inFlight"} /\ \A x \in OpId : x # r => bits'[x] = bits[x]
    BY <1>0, <2>2, <2>3
  <2>5. subRq[y] = NULL BY <2>2 DEF CountInv, PlaceInv, DaemonsEmpty
  <2>6. \/ subRq' = [subRq EXCEPT ![y] = r] /\ UNCHANGED devQ
        \/ devQ' = devQ \cup {r} /\ UNCHANGED subRq
    BY <1>1, <2>1 DEF SubmitRq
  <2>7. \A x \in OpId : Held(x)' \/ x \in devQ' <=> Held(x) \/ x \in devQ \/ x = r
    BY <1>0, <2>3, <2>5, <2>6, Facts DEF Held
  <2>8. SeqRange(fifo)' = SeqRange(fifo) BY <2>2 DEF SeqRange
  <2>9. "in_readahead" \notin bits[r] BY <2>3, WayClean
  <2>10. \A x \in OpId : OnWay(x)' <=> OnWay(x)
    BY <2>2, <2>3, <2>4, <2>7, <2>8 DEF OnWay
  <2>11. Forgets BY <2>2, <2>3, <2>4, <2>9, <2>10 DEF Forgets
  <2> QED BY <2>2, <2>11, ForgetsKeep
<1>2. ASSUME NEW y \in Type, SubmitResume(y) PROVE RefInv'
  <2>1. PICK r \in OpId : r = subRq[y] BY <1>2 DEF SubmitResume, TypeInv, SubInv
  <2>2. /\ devQ' = devQ \cup {r} /\ subRq' = [subRq EXCEPT ![y] = NULL]
        /\ UNCHANGED <<thrVars, nops, ref, raHash, locked, bits, mrq, fifo, compPc, compCur,
                       compBuf>>
    BY <1>2, <2>1 DEF SubmitResume, reqVars, hashVars, compVars, histVars
  <2>3. \A x \in OpId : Held(x)' \/ x \in devQ' <=> Held(x) \/ x \in devQ
    BY <1>0, <2>1, <2>2, Facts DEF Held
  <2>4. SeqRange(fifo)' = SeqRange(fifo) /\ \A x : Queued(x)' <=> Queued(x)
    BY <2>2 DEF SeqRange, Queued
  <2>5. \A x \in OpId : OnWay(x)' <=> OnWay(x) BY <2>2, <2>3, <2>4 DEF OnWay
  <2>6. Forgets BY <2>2, <2>4, <2>5 DEF Forgets
  <2> QED BY <2>2, <2>6, ForgetsKeep
<1>3. ASSUME NEW r \in OpId, DeviceExec(r) PROVE RefInv'
  <2>1. /\ r \in devQ /\ devQ' = devQ \ {r} /\ fifo' = Append(fifo, r)
        /\ UNCHANGED <<thrVars, nops, ref, raHash, locked, bits, mrq, subRq, compPc, compCur,
                       compBuf>>
    BY <1>3 DEF DeviceExec, memqVars, subVars, hashVars, histVars
  <2>2. SeqRange(fifo') = SeqRange(fifo) \cup {r} BY <1>0, <2>1, AppendFacts
  <2>3. SeqRange(fifo)' = SeqRange(fifo) \cup {r} BY <2>2 DEF SeqRange
  <2>4. \A x : (Held(x)' <=> Held(x)) /\ (Queued(x)' <=> Queued(x))
    BY <2>1 DEF Held, Queued, SeqRange
  <2>5. \A x \in OpId : OnWay(x)' <=> OnWay(x) BY <2>1, <2>3, <2>4 DEF OnWay
  <2>6. Forgets BY <2>1, <2>4, <2>5 DEF Forgets
  <2> QED BY <2>1, <2>6, ForgetsKeep
<1>4. CASE CompleteDequeue
  <2>1. PICK r : r = Head(fifo) OBVIOUS
  <2>2. /\ fifo # <<>> /\ compCur' = r /\ fifo' = Tail(fifo)
        /\ compPc = "drain" /\ compPc' = "unhash"
        /\ UNCHANGED <<thrVars, nops, ref, raHash, locked, bits, mrq, subRq, devQ, compBuf>>
    BY <1>4, <2>1
       DEF CompleteDequeue, memqVars, subVars, devVars, reqVars, hashVars, histVars
  <2>3. /\ r \in SeqRange(fifo) /\ SeqRange(fifo') \subseteq SeqRange(fifo)
        /\ SeqRange(fifo) \subseteq SeqRange(fifo') \cup {r}
    BY <1>0, <2>1, <2>2, TailFacts
  <2>4. SeqRange(fifo)' = SeqRange(fifo') BY DEF SeqRange
  <2>5. r \in OpId BY <1>0, <2>1, <2>2, SeqFacts
  <2>6. \A x : (Held(x)' <=> Held(x)) /\ (Queued(x)' <=> Queued(x))
    BY <2>2 DEF Held, Queued, SeqRange
  <2>7. compCur = NULL BY <2>2 DEF CountInv, PlaceInv, DaemonsEmpty
  <2>8. "in_readahead" \notin bits[r] BY <2>3, <2>5, WayClean DEF Flying
  <2>9. \A x \in OpId : OnWay(x)' <=> OnWay(x)
    BY <2>2, <2>3, <2>4, <2>6, <2>7, <2>8, Facts DEF OnWay
  <2>10. Forgets BY <2>2, <2>5, <2>6, <2>8, <2>9 DEF Forgets, Late
  <2> QED BY <2>2, <2>10, ForgetsKeep DEF Late
<1>5. CASE CompleteUnhash
  <2>1. /\ compPc = "unhash" /\ compPc' = "low"
        /\ UNCHANGED <<thrVars, nops, ref, raHash, locked, bits, mrq, subRq, devQ, fifo,
                       compCur, compBuf>>
    BY <1>5 DEF CompleteUnhash, memqVars, subVars, devVars, reqVars, histVars
  <2>2. \A x : (Held(x)' <=> Held(x)) /\ (Queued(x)' <=> Queued(x))
    BY <2>1 DEF Held, Queued, SeqRange
  <2>3. SeqRange(fifo)' = SeqRange(fifo) BY <2>1 DEF SeqRange
  <2>4. \A x \in OpId : OnWay(x)' <=> OnWay(x) BY <2>1, <2>2, <2>3 DEF OnWay
  <2>5. Forgets BY <2>1, <2>2, <2>4 DEF Forgets, Late
  <2> QED BY <2>1, <2>5, ForgetsKeep
<1> QED BY <1>1, <1>2, <1>3, <1>4, <1>5

\* A submission daemon drops an invalid request.
LEMMA SubmitInvalidRef ==
  ASSUME TypeInv, HashInv, CountInv, RequestInv, RefInv, NEW y \in Type, SubmitInvalid(y)
  PROVE  RefInv'
<1>1. PICK m \in Memq, r \in OpId : m = subCur[y] /\ r = Head(mrq[m])
  BY SubmitHead DEF SubmitInvalid, TypeInv, SubInv
<1>2. /\ mrq[m] # <<>> /\ mrq' = [mrq EXCEPT ![m] = Tail(@)]
      /\ bits' = [bits EXCEPT ![r] = @ \ {"flush_wakeup"}]
      /\ ref' = [ref EXCEPT ![r] = @ - 1]
      /\ UNCHANGED <<thrVars, nops, raHash, locked, subRq, devQ, fifo, compPc, compCur,
                     compBuf>>
  BY <1>1 DEF SubmitInvalid, DecRef, hashVars, subVars, compVars, devVars, histVars
<1>3. /\ r \in OpId /\ Queued(r) /\ ~Queued(r)' /\ \A x : x # r => (Queued(x)' <=> Queued(x))
  BY <1>1, <1>2, Dequeued DEF CountInv, PlaceInv
<1>4. /\ ref'[r] = ref[r] - 1 /\ \A x \in OpId : x # r => ref'[x] = ref[x]
      /\ \A x \in OpId : bits'[x] \ {"flush_wakeup"} = bits[x] \ {"flush_wakeup"}
  BY <1>2, <1>3 DEF TypeInv, ReqOK
<1>5. \A x \in OpId : /\ "in_readahead" \in bits'[x] <=> "in_readahead" \in bits[x]
                      /\ "inFlight" \in bits'[x] <=> "inFlight" \in bits[x]
  BY <1>4, BitsKept
<1>6. (\A x : Held(x)' <=> Held(x)) /\ SeqRange(fifo)' = SeqRange(fifo)
  BY <1>2 DEF Held, SeqRange
<1>7. OnWay(r) /\ ~OnWay(r)'
  <2>1. ~Held(r) /\ r \notin devQ /\ r \notin SeqRange(fifo) /\ r # compCur
    BY <1>3 DEF CountInv, PlaceInv, OnePlace
  <2> QED BY <1>2, <1>3, <1>6, <2>1 DEF OnWay
<1>8. FairDaemon(r)
  <2>1. "way" \in Tokens(r) /\ Tokens(r)' = Tokens(r) \ {"way"}
    BY <1>2, <1>7 DEF Tokens
  <2> QED BY <1>4, <2>1 DEF FairDaemon
<1>9. \A x \in OpId : x # r => FairDaemon(x)
  <2>1. \A x \in OpId : x # r => Tokens(x)' = Tokens(x) BY <1>2, <1>3, <1>5, TokensKept
  <2> QED BY <1>4, <2>1 DEF FairDaemon
<1>10. Inserted' = Inserted BY <1>2 DEF Inserted, thrVars
<1>11. RaClean' BY <1>3, <1>5, <1>10 DEF RefInv, RaClean
<1>12. CompHeld'
  <2>1. compCur # NULL => compCur \in OpId BY DEF TypeInv, CompInv, CompOK, OpId, Ptr, NULL
  <2> QED BY <1>2, <1>5, <2>1 DEF RefInv, CompHeld, Puts, thrVars
<1> QED BY <1>2, <1>8, <1>9, <1>11, <1>12, DaemonKeep DEF RefInv, PointersInserted

\* The completion daemon's request moves no more; what it holds besides may change.
LEMMA CompTokens ==
  ASSUME TypeInv, UNCHANGED <<mrq, subRq, devQ, fifo, compCur>>, NEW r \in OpId,
         "in_readahead" \in bits'[r] <=> "in_readahead" \in bits[r], UNCHANGED raHash
  PROVE  /\ compBuf = compBuf' => Tokens(r)' = Tokens(r)
         /\ compBuf # r /\ compBuf' # r => Tokens(r)' = Tokens(r)
         /\ compBuf # r /\ compBuf' = r =>
               "buf" \notin Tokens(r) /\ Tokens(r)' = Tokens(r) \cup {"buf"}
         /\ compBuf = r /\ compBuf' # r =>
               "buf" \in Tokens(r) /\ Tokens(r)' = Tokens(r) \ {"buf"}
<1>1. (Held(r)' <=> Held(r)) /\ (Queued(r)' <=> Queued(r)) /\ SeqRange(fifo)' = SeqRange(fifo)
  BY DEF Held, Queued, SeqRange
<1>2. OnWay(r)' <=> OnWay(r) BY <1>1 DEF OnWay
<1> QED BY <1>2 DEF Tokens

\* The completion daemon takes or drops a reference on a second request.
Handles(p) ==
    /\ p \in OpId
    /\ UNCHANGED <<thrVars, nops, mrq, subRq, devQ, fifo, compCur, raHash>>
    /\ \A r \in OpId : "in_readahead" \in bits'[r] <=> "in_readahead" \in bits[r]
    /\ \A r \in OpId : "inFlight" \in bits'[r] => "inFlight" \in bits[r]
    /\ \/ compBuf = NULL /\ compBuf' = p /\ ref' = [ref EXCEPT ![p] = @ + 1]
       \/ compBuf = p /\ compBuf' = NULL /\ ref' = [ref EXCEPT ![p] = @ - 1]
    /\ compPc' \in {"ra_dup", "pend_lock"} <=> compBuf' # NULL
    /\ compCur \in locked'

\* That preserves the invariant.
LEMMA HandlesRef ==
  ASSUME TypeInv, RefInv, NEW p \in Inserted, Handles(p)
  PROVE  RefInv'
<1>0. ref \in [OpId -> Int] /\ p \in OpId /\ p # NULL
  BY Facts DEF TypeInv, ReqOK, Handles
<1>1. \A r \in OpId : r # p => FairDaemon(r)
  <2>1. \A r \in OpId : r # p => ref'[r] = ref[r] BY <1>0 DEF Handles
  <2>2. \A r \in OpId : r # p => Tokens(r)' = Tokens(r)
    BY <1>0, CompTokens, Facts DEF Handles
  <2> QED BY <2>1, <2>2 DEF FairDaemon
<1>2. FairDaemon(p)
  <2>1. CASE compBuf = NULL /\ compBuf' = p /\ ref' = [ref EXCEPT ![p] = @ + 1]
    <3>1. "buf" \notin Tokens(p) /\ Tokens(p)' = Tokens(p) \cup {"buf"}
      BY <1>0, <2>1, CompTokens DEF Handles
    <3> QED BY <1>0, <2>1, <3>1 DEF FairDaemon
  <2>2. CASE compBuf = p /\ compBuf' = NULL /\ ref' = [ref EXCEPT ![p] = @ - 1]
    <3>1. "buf" \in Tokens(p) /\ Tokens(p)' = Tokens(p) \ {"buf"}
      BY <1>0, <2>2, CompTokens DEF Handles
    <3> QED BY <1>0, <2>2, <3>1 DEF FairDaemon
  <2> QED BY <2>1, <2>2 DEF Handles
<1>3. Inserted' = Inserted BY DEF Handles, Inserted, thrVars
<1>4. \A r : Queued(r)' <=> Queued(r) BY DEF Handles, Queued, SeqRange
<1>5. RaClean' BY <1>3, <1>4 DEF RefInv, RaClean, Handles
<1>6. CompHeld'
  <2>1. compCur # NULL => compCur \in OpId BY DEF TypeInv, CompInv, CompOK, OpId, Ptr, NULL
  <2> QED BY <2>1 DEF Handles, RefInv, CompHeld, Puts, thrVars
<1>7. raHash' \subseteq Inserted /\ compBuf' \in Inserted \cup {NULL}
  BY DEF Handles, RefInv, PointersInserted
<1>8. UNCHANGED <<thrVars, nops>> BY DEF Handles
<1> QED BY <1>1, <1>2, <1>5, <1>6, <1>7, <1>8, DaemonKeep

\* The steps of the completion daemon on its second request.
LEMMA CompleteSecondRef ==
  ASSUME TypeInv, HashInv, CountInv, Behind, RefInv,
         CompleteDuplicate \/ CompleteFindPending \/ CompleteUnblock
  PROVE  RefInv'
<1>0. bits \in [OpId -> SUBSET Bit] BY DEF TypeInv, ReqOK
<1>1. CASE CompleteDuplicate
  <2>1. PICK c \in OpId, p \in OpId : c = compCur /\ p = compBuf
    BY <1>1 DEF CompleteDuplicate, TypeInv, CompInv
  <2>2. p \in Inserted BY <2>1, Facts DEF RefInv, PointersInserted
  <2>3. /\ compPc = "ra_dup" /\ compBuf' = NULL /\ compPc' = AfterSignal(c)
        /\ ref' = [ref EXCEPT ![p] = @ - 1] /\ bits' = [bits EXCEPT ![c] = Signalled(@)]
        /\ UNCHANGED <<thrVars, nops, mrq, subRq, devQ, fifo, compCur, raHash, locked>>
    BY <1>1, <2>1
       DEF CompleteDuplicate, DecRef, hashVars, memqVars, subVars, devVars, histVars
  <2>4. \A r \in OpId : bits'[r] \in {bits[r], Signalled(bits[r])} BY <1>0, <2>3
  <2>5. /\ \A r \in OpId : "in_readahead" \in bits'[r] <=> "in_readahead" \in bits[r]
        /\ \A r \in OpId : "inFlight" \in bits'[r] => "inFlight" \in bits[r]
    BY <2>4 DEF Signalled
  <2>6. compCur \in locked BY <2>3 DEF RefInv, CompHeld, Late
  <2>7. compPc' \notin {"ra_dup", "pend_lock"} BY <2>3 DEF AfterSignal
  <2>8. Handles(p) BY <2>1, <2>3, <2>5, <2>6, <2>7 DEF Handles
  <2> QED BY <2>2, <2>8, HandlesRef
<1>2. CASE CompleteFindPending
  <2>1. PICK c \in OpId : c = compCur BY <1>2 DEF CompleteFindPending, TypeInv, CompInv
  <2>2. PICK r \in OpId : blk[r] = c BY <1>2, <2>1 DEF CompleteFindPending, Behind
  <2>3. r \in rqHash /\ key[r] = key[c] BY <2>2, Facts DEF Behind
  <2>4. Hashed(rqHash, key[c]) # {} BY <2>3 DEF Hashed
  <2>5. PICK p \in rqHash : IncRef(p) /\ compBuf' = p /\ compPc' = "pend_lock"
    BY <1>2, <2>1, <2>4 DEF CompleteFindPending, Hashed
  <2>6. p \in Inserted /\ p \in OpId BY DEF HashInv, InsertedFirst, TypeInv, HashOK
  <2>7. /\ compPc = "pend_find"
        /\ UNCHANGED <<thrVars, nops, bits, mrq, subRq, devQ, fifo, compCur, raHash, locked>>
    BY <1>2 DEF CompleteFindPending, hashVars, memqVars, subVars, devVars, histVars
  <2>8. compBuf = NULL /\ compCur \in locked BY <2>7 DEF RefInv, CompHeld, Late
  <2>9. Handles(p) BY <2>5, <2>6, <2>7, <2>8, Facts DEF Handles, IncRef
  <2> QED BY <2>6, <2>9, HandlesRef
<1>3. CASE CompleteUnblock
  <2>1. PICK c \in OpId, p \in OpId : c = compCur /\ p = compBuf
    BY <1>3 DEF CompleteUnblock, TypeInv, CompInv
  <2>2. p \in Inserted BY <2>1, Facts DEF RefInv, PointersInserted
  <2>3. /\ compPc = "pend_lock" /\ compBuf' = NULL /\ compPc' = "fini"
        /\ ref' = [ref EXCEPT ![p] = @ - 1]
        /\ UNCHANGED <<thrVars, nops, bits, mrq, subRq, devQ, fifo, compCur, raHash, locked>>
    BY <1>3, <2>1
       DEF CompleteUnblock, DecRef, hashVars, subVars, devVars, histVars
  <2>4. compCur \in locked BY <2>3 DEF RefInv, CompHeld, Late
  <2>5. Handles(p) BY <2>1, <2>3, <2>4 DEF Handles
  <2> QED BY <2>2, <2>5, HandlesRef
<1> QED BY <1>1, <1>2, <1>3

\* The end of a completion.
LEMMA CompleteFiniRef ==
  ASSUME TypeInv, HashInv, CountInv, RefInv, CompleteFini
  PROVE  RefInv'
<1>1. PICK c \in OpId : c = compCur BY DEF CompleteFini, TypeInv, CompInv
<1>2. /\ compPc = "fini" /\ compPc' = "drain" /\ compCur' = NULL /\ locked' = locked \ {c}
      /\ UNCHANGED <<thrVars, nops, bits, mrq, subRq, devQ, fifo, raHash, compBuf>>
  BY <1>1 DEF CompleteFini, hashVars, memqVars, subVars, devVars, histVars
<1>3. ~Queued(c) /\ ~Held(c) /\ c \notin devQ /\ c \notin SeqRange(fifo)
  BY <1>1, CurPlace
<1>4. \A r : (Queued(r)' <=> Queued(r)) /\ (Held(r)' <=> Held(r)) BY <1>2 DEF Queued, Held, SeqRange
<1>5. SeqRange(fifo)' = SeqRange(fifo) BY <1>2 DEF SeqRange
<1>6. ~OnWay(c)' BY <1>2, <1>3, <1>4, <1>5, Facts DEF OnWay
<1>7. \A r \in OpId : r # c => (OnWay(r)' <=> OnWay(r))
  BY <1>1, <1>2, <1>4, <1>5, Facts DEF OnWay
<1>8. \A r \in OpId : r # c => ref'[r] = ref[r]
  BY <1>1 DEF CompleteFini, DecRef, TypeInv, ReqOK
<1>9. \A r \in OpId : r # c => FairDaemon(r)
  <2>1. \A r \in OpId : r # c => Tokens(r)' = Tokens(r) BY <1>2, <1>7 DEF Tokens
  <2> QED BY <1>8, <2>1 DEF FairDaemon
<1>10. FairDaemon(c)
  <2>1. CASE "in_readahead" \in bits[c]
    <3>1. ~OnWay(c) BY <1>3, <2>1 DEF OnWay
    <3>2. Tokens(c)' = Tokens(c) BY <1>2, <1>6, <3>1 DEF Tokens
    <3> QED BY <1>1, <2>1, <3>2 DEF FairDaemon, CompleteFini
  <2>2. CASE "in_readahead" \notin bits[c]
    <3>1. OnWay(c) BY <1>1, <2>2 DEF OnWay
    <3>2. "way" \in Tokens(c) /\ Tokens(c)' = Tokens(c) \ {"way"}
      BY <1>2, <1>6, <3>1 DEF Tokens
    <3>3. ref'[c] = ref[c] - 1
      BY <1>1, <2>2 DEF CompleteFini, DecRef, TypeInv, ReqOK
    <3> QED BY <3>2, <3>3 DEF FairDaemon
  <2> QED BY <2>1, <2>2
<1>11. Inserted' = Inserted BY <1>2 DEF Inserted, thrVars
<1>12. RaClean' BY <1>2, <1>4, <1>11 DEF RefInv, RaClean
<1>13. CompHeld' BY <1>2 DEF RefInv, CompHeld, Late
<1>14. raHash' \subseteq Inserted /\ compBuf' \in Inserted \cup {NULL}
  BY <1>2 DEF RefInv, PointersInserted
<1> QED BY <1>2, <1>9, <1>10, <1>12, <1>13, <1>14, DaemonKeep

\* The request is completed.
LEMMA CompleteLockRef ==
  ASSUME TypeInv, HashInv, CountInv, RequestInv, RefInv, CompleteLock
  PROVE  RefInv'
<1>1. PICK c \in OpId : c = compCur BY DEF CompleteLock, TypeInv, CompInv
<1>2. /\ compPc = "lock" /\ locked' = locked \cup {c}
      /\ UNCHANGED <<thrVars, nops, mrq, subRq, devQ, fifo, compCur>>
  BY <1>1 DEF CompleteLock, memqVars, subVars, devVars, histVars
<1>3. /\ ~Queued(c) /\ ~Held(c) /\ c \notin devQ /\ c \notin SeqRange(fifo) /\ Flying(c)
  BY <1>1, <1>2, CurPlace DEF Completing
<1>4. "in_readahead" \notin bits[c] BY <1>3, WayClean
<1>5. c \in Inserted BY <1>1, Facts DEF HashInv, InsertedFirst
<1>6. bits \in [OpId -> SUBSET Bit] /\ ref \in [OpId -> Int] BY DEF TypeInv, ReqOK
<1>7. compBuf = NULL BY <1>2 DEF RefInv, CompHeld
<1>8. AfterSignal(c) \notin {"ra_dup", "pend_lock"} BY DEF AfterSignal
<1>9. CASE compPc' = "ra_dup"
  <2>1. PICK x \in raHash : IncRef(x) /\ compBuf' = x
    BY <1>1, <1>8, <1>9 DEF CompleteLock, Hashed
  <2>2. bits' = [bits EXCEPT ![c] = @ \cup {"completed"}] /\ UNCHANGED raHash
    BY <1>1, <1>8, <1>9 DEF CompleteLock
  <2>3. /\ \A r \in OpId : "in_readahead" \in bits'[r] <=> "in_readahead" \in bits[r]
        /\ \A r \in OpId : "inFlight" \in bits'[r] => "inFlight" \in bits[r]
    BY <1>6, <2>2
  <2>4. x \in Inserted /\ x \in OpId BY DEF RefInv, PointersInserted, TypeInv, HashOK
  <2>5. Handles(x) BY <1>1, <1>2, <1>7, <1>9, <2>1, <2>2, <2>3, <2>4, Facts DEF Handles, IncRef
  <2> QED BY <2>4, <2>5, HandlesRef
<1>10. CASE compPc' # "ra_dup"
  <2>1. PICK get \in BOOLEAN :
          /\ get => Hashed(raHash, key[c]) = {}
          /\ raHash' = IF get THEN raHash \cup {c} ELSE raHash
          /\ bits' = [bits EXCEPT ![c] = Signalled(@) \cup {"completed"}
                            \cup (IF get THEN {"in_readahead"} ELSE {})]
          /\ compPc' = AfterSignal(c) /\ UNCHANGED <<ref, compBuf>>
    BY <1>1, <1>10 DEF CompleteLock
  <2>2. get => c \notin raHash BY <2>1 DEF Hashed
  <2>3. /\ \A r \in OpId : r # c => bits'[r] = bits[r]
        /\ "in_readahead" \in bits'[c] <=> get
        /\ "inFlight" \notin bits'[c]
    BY <1>4, <1>6, <2>1 DEF Signalled
  <2>4. \A r : (Queued(r)' <=> Queued(r)) /\ (Held(r)' <=> Held(r))
    BY <1>2 DEF Queued, Held, SeqRange
  <2>5. SeqRange(fifo)' = SeqRange(fifo) BY <1>2 DEF SeqRange
  <2>6. \A r \in OpId : r # c => (OnWay(r)' <=> OnWay(r))
    BY <1>2, <2>3, <2>4, <2>5 DEF OnWay
  <2>7. OnWay(c) /\ (OnWay(c)' <=> ~get)
    BY <1>1, <1>2, <1>3, <1>4, <2>3, <2>4, <2>5 DEF OnWay
  <2>8. \A r \in OpId : r # c => FairDaemon(r)
    <3>1. \A r \in OpId : r # c => Tokens(r)' = Tokens(r) BY <2>1, <2>6 DEF Tokens
    <3> QED BY <2>1, <3>1 DEF FairDaemon
  <2>9. FairDaemon(c)
    <3>1. CASE get
      <4>1. /\ "way" \in Tokens(c) /\ "readahead" \notin Tokens(c)
            /\ Tokens(c)' = (Tokens(c) \ {"way"}) \cup {"readahead"}
        BY <2>1, <2>2, <2>7, <3>1 DEF Tokens
      <4> QED BY <2>1, <4>1 DEF FairDaemon
    <3>2. CASE ~get
      <4>1. Tokens(c)' = Tokens(c) BY <2>1, <2>7, <3>2 DEF Tokens
      <4> QED BY <2>1, <4>1 DEF FairDaemon
    <3> QED BY <3>1, <3>2
  <2>10. Inserted' = Inserted BY <1>2 DEF Inserted, thrVars
  <2>11. RaClean' BY <1>3, <1>5, <2>3, <2>4, <2>10 DEF RefInv, RaClean
  <2>12. CompHeld'
    BY <1>1, <1>2, <1>7, <1>8, <2>1, <2>3 DEF CompHeld
  <2>13. raHash' \subseteq Inserted /\ compBuf' \in Inserted \cup {NULL}
    BY <1>5, <2>1 DEF RefInv, PointersInserted
  <2> QED BY <1>2, <2>8, <2>9, <2>11, <2>12, <2>13, DaemonKeep
<1> QED BY <1>9, <1>10

-----------------------------------------------------------------------------
(* The invariant. *)

\* Nothing is counted at the start.
LEMMA RefInit == Init => RefInv
<1> SUFFICES ASSUME Init PROVE RefInv OBVIOUS
<1>1. PointersInserted BY DEF Init, PointersInserted
<1>2. RaClean BY DEF Init, RaClean
<1>3. CompHeld BY DEF Init, CompHeld, Late
<1>4. ASSUME NEW r \in OpId PROVE RefOK(r)
  <2>1. Users(r) = {} BY DEF Init, Users, Uses, OwnPc, PutPc, FoundPc
  <2>2. ~Queued(r) /\ ~Held(r) /\ r \notin SeqRange(fifo)
    BY Facts DEF Init, Queued, Held, SeqRange
  <2>3. ~OnWay(r) BY <2>2, Facts DEF Init, OnWay
  <2>4. Tokens(r) = {} BY <2>3, Facts DEF Init, Tokens
  <2>5. Cardinality({}) = 0 BY FS_EmptySet
  <2>6. ref[r] = 0 + 0 BY DEF Init
  <2> QED BY <2>1, <2>4, <2>5, <2>6 DEF RefOK
<1> QED BY <1>1, <1>2, <1>3, <1>4 DEF RefInv

\* The steps of the daemons and of the device.
LEMMA DaemonRef ==
  ASSUME TypeInv, HashInv, CountInv, PendInv, RefInv,
         \/ \E y \in Type : Schedule(y) \/ SubmitStep(y)
         \/ Device \/ CompleteStep
  PROVE  RefInv'
<1> USE DEF PendInv
<1>1. CASE \/ InterruptWake \/ CompleteStart \/ CompleteLowWatermark
           \/ \E y \in Type : CompleteWake(y)
           \/ \E y \in Type : \/ Schedule(y) \/ SubmitStart(y) \/ SubmitEnd(y)
                              \/ SubmitPark(y) \/ SubmitKick(y) \/ SubmitSleep(y)
                              \/ SubmitTake(y) \/ SubmitCongested(y) \/ SubmitDone(y)
  <2>1. Calm BY <1>1, DaemonCalm
  <2>2. /\ UNCHANGED <<thrVars, nops, ref, raHash, locked>>
        /\ compPc' = compPc \/ (compPc' \notin Late /\ compPc \notin Late)
    <3> USE DEF reqVars, hashVars, compVars, histVars, Late
    <3> DEFINE Idles ==
          /\ UNCHANGED <<thrVars, nops, ref, raHash, locked>>
          /\ compPc' = compPc \/ (compPc' \notin Late /\ compPc \notin Late)
    <3>1. CASE InterruptWake BY <3>1 DEF InterruptWake
    <3>2. CASE CompleteStart BY <3>2 DEF CompleteStart
    <3>3. CASE CompleteLowWatermark BY <3>3 DEF CompleteLowWatermark
    <3>4. ASSUME NEW y \in Type, CompleteWake(y) PROVE Idles BY <3>4 DEF CompleteWake
    <3>5. ASSUME NEW y \in Type, Schedule(y) PROVE Idles BY <3>5 DEF Schedule
    <3>6. ASSUME NEW y \in Type, SubmitStart(y) \/ SubmitEnd(y) \/ SubmitPark(y) PROVE Idles
      BY <3>6 DEF SubmitStart, SubmitEnd, SubmitPark
    <3>7. ASSUME NEW y \in Type, SubmitKick(y) \/ SubmitSleep(y) \/ SubmitTake(y) PROVE Idles
      BY <3>7 DEF SubmitKick, SubmitSleep, SubmitTake
    <3>8. ASSUME NEW y \in Type, SubmitCongested(y) \/ SubmitDone(y) PROVE Idles
      BY <3>8 DEF SubmitCongested, SubmitDone
    <3> QED BY <1>1, <3>1, <3>2, <3>3, <3>4, <3>5, <3>6, <3>7, <3>8
  <2> QED BY <2>1, <2>2, CalmRef
<1>2. CASE \/ \E y \in Type : SubmitRq(y) \/ SubmitResume(y)
           \/ \E r \in OpId : DeviceExec(r)
           \/ CompleteDequeue \/ CompleteUnhash
  BY <1>2, ForwardsRef
<1>3. ASSUME NEW y \in Type, SubmitInvalid(y) PROVE RefInv' BY <1>3, SubmitInvalidRef
<1>4. CASE CompleteLock BY <1>4, CompleteLockRef
<1>5. CASE CompleteDuplicate \/ CompleteFindPending \/ CompleteUnblock
  BY <1>5, CompleteSecondRef
<1>6. CASE CompleteFini BY <1>6, CompleteFiniRef
<1> QED BY <1>1, <1>2, <1>3, <1>4, <1>5, <1>6 DEF SubmitStep, Device, CompleteStep

\* Every step preserves the invariant.
LEMMA RefStep ==
  TypeInv /\ HashInv /\ CountInv /\ PendInv /\ RefInv /\ [Next]_vars => RefInv'
<1> SUFFICES ASSUME TypeInv, HashInv, CountInv, PendInv, RefInv, [Next]_vars
             PROVE  RefInv'
  OBVIOUS
<1>1. ASSUME UNCHANGED vars PROVE RefInv'
  <2>1. Calm
    BY <1>1 DEF Calm, SameStage, vars, reqVars, hashVars, memqVars, subVars, compVars, devVars
  <2>2. UNCHANGED <<thrVars, nops, ref, raHash, locked, compPc>>
    BY <1>1 DEF vars, reqVars, hashVars, compVars, histVars
  <2> QED BY <2>1, <2>2, CalmRef
<1>2. ASSUME NEW t \in Thread, Invoke(t) \/ ThreadStep(t) PROVE RefInv'
  BY <1>2, ThreadRef
<1>3. ASSUME \/ \E y \in Type : Schedule(y) \/ SubmitStep(y)
             \/ Device \/ CompleteStep
      PROVE  RefInv'
  BY <1>3, DaemonRef
<1>4. ASSUME Quiescent PROVE RefInv' BY <1>1, <1>4 DEF Quiescent
<1> QED BY <1>1, <1>2, <1>3, <1>4 DEF Next

\* The references are right in every behaviour.
LEMMA RefInvariant == Spec => [](TypeInv /\ HashInv /\ CountInv /\ PendInv /\ RefInv)
<1>1. Init => RefInv BY RefInit
<1>2. TypeInv /\ HashInv /\ CountInv /\ PendInv /\ RefInv /\ [Next]_vars => RefInv'
  BY RefStep
<1> QED BY <1>1, <1>2, PendInvariant, PTL DEF Spec

\* A request that somebody keeps or uses has a reference.
LEMMA Referenced ==
  ASSUME TypeInv, RefInv, NEW r \in OpId, Users(r) # {} \/ Tokens(r) # {}
  PROVE  ref[r] > 0
<1>1. PICK u, k : u = Users(r) /\ k = Tokens(r) OBVIOUS
<1>2. /\ IsFiniteSet(u) /\ Cardinality(u) \in Nat /\ IsFiniteSet(k) /\ Cardinality(k) \in Nat
  BY <1>1, RefFinite
<1>3. Cardinality(u) # 0 \/ Cardinality(k) # 0 BY <1>1, <1>2, FS_EmptySet
<1>4. ref[r] = Cardinality(u) + Cardinality(k) BY <1>1 DEF RefInv, RefOK
<1> QED BY <1>2, <1>3, <1>4

\* What another request waits for is on its way, or was read ahead and is locked.
LEMMA PendingPairHolds ==
  ASSUME TypeInv, HashInv, CountInv, PendInv, RefInv
  PROVE  PendingPair
<1> USE DEF PendInv
<1>1. ASSUME NEW r \in OpId, blk[r] # NULL PROVE ref[blk[r]] > 0
  <2>1. PICK b \in OpId : b = blk[r] BY <1>1, BlockerFacts
  <2>2. CASE "blocking" \in bits[b]
    <3>1. Flying(b) BY <2>2 DEF RequestInv, RequestOK
    <3>2. OnWay(b) BY <3>1, WayClean DEF Flying, OnWay
    <3>3. Tokens(b) # {} BY <3>2 DEF Tokens
    <3> QED BY <2>1, <3>3, Referenced
  <2>3. CASE Unblocking(b)
    <3>1. b = compCur /\ b # NULL BY <2>3, Facts DEF Unblocking
    <3>2. CASE "in_readahead" \notin bits[b]
      <4>1. Tokens(b) # {} BY <3>1, <3>2 DEF Tokens, OnWay
      <4> QED BY <2>1, <4>1, Referenced
    <3>3. CASE "in_readahead" \in bits[b]
      <4>1. b \in raHash \/ \E t \in Thread : Puts(t, b)
        BY <3>1, <3>3 DEF RefInv, CompHeld
      <4>2. Tokens(b) # {} \/ Users(b) # {} BY <4>1 DEF Tokens, Puts, Users, Uses
      <4> QED BY <2>1, <4>2, Referenced
    <3> QED BY <3>2, <3>3
  <2> QED BY <1>1, <2>1, <2>2, <2>3 DEF Behind
<1>2. ASSUME NEW b \in OpId, "blocking" \in bits[b]
      PROVE  \E r \in OpId : blk[r] = b /\ \A s \in OpId : blk[s] = b => s = r
  <2>1. PICK r \in OpId : blk[r] = b BY <1>2 DEF Behind
  <2>2. \A s \in OpId : blk[s] = b => s = r BY <2>1, BehindUnique, Facts
  <2> QED BY <2>1, <2>2
<1> QED BY <1>1, <1>2 DEF PendingPair, Behind

\* The reference count of a request is the number of the places that keep it and of the
\* threads that use it, whatever the interleaving of the ioctls, the daemons and the
\* interrupts: nobody is left with a freed request, and no request leaks.
THEOREM RefExactAlways == Spec => []RefExact
<1>1. TypeInv /\ HashInv /\ CountInv /\ PendInv /\ RefInv => RefExact BY RefExactHolds
<1> QED BY <1>1, RefInvariant, PTL

\* A request that is pending on another one is in the hash, and the other one is of the
\* same key, still referenced, marked as blocking or at the completion daemon, and blocks
\* nobody else.
THEOREM PendingPairAlways == Spec => []PendingPair
<1>1. TypeInv /\ HashInv /\ CountInv /\ PendInv /\ RefInv => PendingPair
  BY PendingPairHolds
<1> QED BY <1>1, RefInvariant, PTL
=============================================================================
