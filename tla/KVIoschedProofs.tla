--------------------------- MODULE KVIoschedProofs ---------------------------
(***************************************************************************)
(* Proofs that the types of KVIosched are invariant and that its hash      *)
(* holds one usable request per key.  TypeOK alone is not inductive: a     *)
(* step may only index the fields of a request with a pointer that is not  *)
(* NULL, so TypeInv adds, for every position of a thread or of a daemon,   *)
(* which of its pointers name a request or a queue.                        *)
(***************************************************************************)
EXTENDS KVIosched, TLAPS

\* A thread inside an ioctl has a command, and a request where it uses one.
ThrInv ==
    /\ ThrOK
    /\ \A t \in Thread : pc[t] # "idle" => me[t] \in OpId
    /\ \A t \in Thread :
          pc[t] \in {"ra_find", "ins_lock", "ra_put", "s_ra_put", "s_lock", "s_wait",
                     "s_blk", "s_wait_blk", "s_ra2_put", "f_lock", "f_push", "f_drain",
                     "f_wait", "fa_wait"} => buf[t] \in OpId

\* A submission daemon has a queue while it submits, and a request while it waits.
SubInv ==
    /\ SubOK
    /\ \A y \in Type : subPc[y] \in {"submit", "cong_set", "cong_wait"} =>
          subCur[y] \in Memq
    /\ \A y \in Type : subPc[y] \in {"cong_set", "cong_wait"} => subRq[y] \in OpId

\* The completion daemon has a request between the dequeue and the end.
CompInv ==
    /\ CompOK
    /\ compPc \notin {"idle", "drain", "wake"} => compCur \in OpId
    /\ compPc \in {"ra_dup", "pend_lock"} => compBuf \in OpId

\* The inductive strengthening of TypeOK.
TypeInv ==
    ReqOK /\ HashOK /\ MemqOK /\ ThrInv /\ SubInv /\ CompInv /\ DevOK /\ HistOK

-----------------------------------------------------------------------------
\* Sets of pointers.
LEMMA Facts ==
  /\ OpId \subseteq Ptr /\ NULL \in Ptr /\ NULL \notin OpId
  /\ Ptr \subseteq Int /\ Ptr \subseteq -1..MaxOps
  /\ Type = {"READ", "WRITE"}
  BY ConstantsAssumption DEF OpId, Ptr, NULL, Type

\* What a step leaves alone keeps its type.
LEMMA Kept ==
  ASSUME TypeInv
  PROVE  /\ UNCHANGED <<reqVars, locked>> => ReqOK'
         /\ UNCHANGED hashVars => HashOK'
         /\ UNCHANGED memqVars => MemqOK'
         /\ UNCHANGED thrVars => ThrInv'
         /\ UNCHANGED subVars => SubInv'
         /\ UNCHANGED compVars => CompInv'
         /\ UNCHANGED devVars => DevOK'
         /\ UNCHANGED histVars => HistOK'
<1> USE DEF TypeInv
<1>1. UNCHANGED <<reqVars, locked>> => ReqOK' BY DEF ReqOK, reqVars
<1>2. UNCHANGED hashVars => HashOK' BY DEF HashOK, hashVars
<1>3. UNCHANGED memqVars => MemqOK' BY DEF MemqOK, memqVars
<1>4. UNCHANGED thrVars => ThrInv' BY DEF ThrInv, ThrOK, thrVars
<1>5. UNCHANGED subVars => SubInv' BY DEF SubInv, SubOK, subVars
<1>6. UNCHANGED compVars => CompInv' BY DEF CompInv, CompOK, compVars
<1>7. UNCHANGED devVars => DevOK' BY DEF DevOK, devVars
<1>8. UNCHANGED histVars => HistOK' BY DEF HistOK, histVars
<1> QED BY <1>1, <1>2, <1>3, <1>4, <1>5, <1>6, <1>7, <1>8

\* The ends of a non-empty sequence.
LEMMA SeqFacts ==
  ASSUME NEW S, NEW q \in Seq(S), q # <<>>
  PROVE  Head(q) \in S /\ Tail(q) \in Seq(S) /\ q[Len(q)] \in S
  OBVIOUS

\* Putting a request at the head of the active queue of its type.
LEMMA EnqueueType ==
  ASSUME TypeInv, NEW n \in OpId, NEW p \in BOOLEAN, Enqueue(n, p)
  PROVE  MemqOK' /\ memq' \in [OpId -> Memq \cup {NULL}]
<1> DEFINE m == active[TypeOf(opc[n])]
<1>1. m \in Memq BY DEF TypeInv, MemqOK, TypeOf, Type
<1>2. mrq[m] \in Seq(OpId) BY <1>1 DEF TypeInv, MemqOK
<1>3. <<n>> \o mrq[m] \in Seq(OpId) BY <1>2
<1>4. mrq' \in [Memq -> Seq(OpId)] BY <1>1, <1>3 DEF Enqueue, TypeInv, MemqOK
<1>5. nrrq' \in [Memq -> Int] /\ npend' \in [Memq -> Int]
  BY <1>1 DEF Enqueue, TypeInv, MemqOK
<1>6. memq' \in [OpId -> Memq \cup {NULL}] BY <1>1 DEF Enqueue, TypeInv, ReqOK
<1> QED BY <1>4, <1>5, <1>6 DEF Enqueue, TypeInv, MemqOK

-----------------------------------------------------------------------------
(* The user threads. *)

\* The part that all ioctls have in common.
LEMMA NewCmdType ==
  ASSUME TypeInv, NEW t \in Thread, NEW kind \in Kind, NEW k \in Key, NEW o \in Opcode,
         NEW label \in {"insert", "ra_check", "s_ra", "f_find", "fa_push"},
         NewCmd(t, kind, k, o), Goto(t, label),
         UNCHANGED <<bits, blk, memq, locked, buf, done, res>>,
         ref' \in [OpId -> Int]
  PROVE  ReqOK' /\ ThrInv' /\ HistOK'
<1> USE DEF TypeInv
<1> DEFINE n == nops + 1
<1>1. n \in OpId /\ n \in Ptr BY ConstantsAssumption DEF NewCmd, HistOK, OpId, Ptr
<1>2. /\ key' = [key EXCEPT ![n] = k]
      /\ opc' = [opc EXCEPT ![n] = o]
      /\ ver' \in {[ver EXCEPT ![n] = n], [ver EXCEPT ![n] = 0]}
      /\ me' = [me EXCEPT ![t] = n]
      /\ nops' = n
      /\ cmd' = [cmd EXCEPT ![n] = [kind |-> kind, op |-> o]]
      /\ \E S \in SUBSET OpId : before' = [before EXCEPT ![n] = S]
  BY DEF NewCmd, HistOK
<1> HIDE DEF n
<1>3. ver' \in [OpId -> Ptr] BY <1>1, <1>2, Facts DEF ReqOK, NULL
<1>4. ReqOK' BY <1>1, <1>2, <1>3 DEF ReqOK
<1>5. ThrInv' BY <1>1, <1>2 DEF Goto, ThrInv, ThrOK, ThreadPc
<1>6. HistOK' BY <1>1, <1>2 DEF HistOK
<1> QED BY <1>4, <1>5, <1>6

\* Entering an ioctl preserves the types.
LEMMA InvokeType ==
  ASSUME TypeInv, NEW t \in Thread, Invoke(t)
  PROVE  TypeInv'
<1> USE DEF TypeInv, reqVars, hashVars, memqVars, thrVars, subVars, compVars, devVars,
            histVars
<1>1. ASSUME NEW k \in Key, NEW o \in AsyncOps, AsyncWriteCmd(t, k, o) PROVE TypeInv'
  <2>1. nops + 1 \in OpId
    BY <1>1, ConstantsAssumption DEF AsyncWriteCmd, NewCmd, HistOK, OpId, Ptr
  <2>2. ref' \in [OpId -> Int] BY <1>1, <2>1 DEF AsyncWriteCmd, AllocRq, ReqOK
  <2>3. ReqOK' /\ ThrInv' /\ HistOK'
    BY <1>1, <2>2, OpsAssumption, NewCmdType DEF AsyncWriteCmd, Kind
  <2> QED BY <1>1, <2>3, Kept DEF AsyncWriteCmd
<1>2. ASSUME NEW k \in Key, AsyncGetCmd(t, k) PROVE TypeInv'
  <2>1. ReqOK' /\ ThrInv' /\ HistOK'
    BY <1>2, NewCmdType DEF AsyncGetCmd, ReqOK, Kind, Opcode
  <2> QED BY <1>2, <2>1, Kept DEF AsyncGetCmd
<1>3. ASSUME NEW k \in Key, NEW o \in SyncOps, SyncCmd(t, k, o) PROVE TypeInv'
  <2>1. ReqOK' /\ ThrInv' /\ HistOK'
    BY <1>3, OpsAssumption, NewCmdType DEF SyncCmd, ReqOK, Kind
  <2> QED BY <1>3, <2>1, Kept DEF SyncCmd
<1>4. ASSUME NEW k \in Key, NEW o \in FlushOps, FlushKeyCmd(t, k, o) PROVE TypeInv'
  <2>1. ReqOK' /\ ThrInv' /\ HistOK'
    BY <1>4, OpsAssumption, NewCmdType DEF FlushKeyCmd, ReqOK, Kind
  <2> QED BY <1>4, <2>1, Kept DEF FlushKeyCmd
<1>5. ASSUME NEW o \in FlushAllOps, FlushAllCmd(t, o) PROVE TypeInv'
  <2>1. nops + 1 \in OpId
    BY <1>5, ConstantsAssumption DEF FlushAllCmd, NewCmd, HistOK, OpId, Ptr
  <2>2. key[nops + 1] \in Key BY <2>1 DEF ReqOK
  <2>3. ReqOK' /\ ThrInv' /\ HistOK'
    BY <1>5, <2>2, OpsAssumption, NewCmdType DEF FlushAllCmd, ReqOK, Kind
  <2> QED BY <1>5, <2>3, Kept DEF FlushAllCmd
<1> QED BY <1>1, <1>2, <1>3, <1>4, <1>5 DEF Invoke

\* A new request is appended to the active queue of its type.
LEMMA AsyncInsertNewParts ==
  ASSUME TypeInv, NEW t \in Thread, AsyncInsertNew(t)
  PROVE  ReqOK' /\ MemqOK'
<1> USE DEF TypeInv
<1>1. me[t] \in OpId BY DEF AsyncInsertNew, ThrInv
<1>2. Enqueue(me[t], FALSE) BY DEF AsyncInsertNew
<1>3. MemqOK' /\ memq' \in [OpId -> Memq \cup {NULL}] BY <1>1, <1>2, EnqueueType
<1> QED BY <1>3 DEF AsyncInsertNew, ReqOK

\* kv_hash_insert with the request it found and locked: restart, displace or merge.
LEMMA AsyncInsertLockedType ==
  ASSUME TypeInv, NEW t \in Thread, AsyncInsertLocked(t)
  PROVE  TypeInv'
<1> USE DEF TypeInv, reqVars, hashVars, memqVars, thrVars, subVars, compVars, devVars,
            histVars
<1> DEFINE b == buf[t]  n == me[t]
<1>1. b \in OpId /\ n \in OpId BY DEF AsyncInsertLocked, ThrInv
<1>2. CASE UnlockAndRestart(t, b, "insert")
  <2>1. ReqOK' BY <1>1, <1>2 DEF AsyncInsertLocked, UnlockAndRestart, DecRef, ReqOK
  <2>2. HashOK' BY <1>1, <1>2 DEF AsyncInsertLocked, UnlockAndRestart, HashOK
  <2>3. ThrInv' BY <1>1, <1>2, Facts DEF UnlockAndRestart, Goto, ThrInv, ThrOK, ThreadPc
  <2> QED BY <1>2, <2>1, <2>2, <2>3, Kept DEF AsyncInsertLocked, UnlockAndRestart
<1>3. CASE InsertBehind(t, b)
  <2>1. MemqOK' /\ memq' \in [OpId -> Memq \cup {NULL}]
    BY <1>1, <1>3, EnqueueType DEF InsertBehind
  <2>2. /\ blk' \in [OpId -> Ptr]
        /\ bits' \in [OpId -> SUBSET Bit]
        /\ ref' \in [OpId -> Int]
    <3>1. blk' \in [OpId -> Ptr] BY <1>1, <1>3, Facts DEF InsertBehind, ReqOK
    <3>2. bits' \in [OpId -> SUBSET Bit]
      BY <1>1, <1>3 DEF InsertBehind, MarkBlocking, ReqOK, Bit
    <3>3. ref' \in [OpId -> Int] BY <1>1, <1>3 DEF InsertBehind, DecRef, ReqOK
    <3> QED BY <3>1, <3>2, <3>3
  <2>3. ReqOK' BY <1>3, <2>1, <2>2 DEF AsyncInsertLocked, InsertBehind, ReqOK
  <2>4. HashOK' BY <1>1, <1>3 DEF AsyncInsertLocked, InsertBehind, Displace, HashOK
  <2>5. ThrInv'
    BY <1>1, <1>3, Facts DEF InsertBehind, Goto, AfterEnqueue, ThrInv, ThrOK, ThreadPc
  <2> QED BY <1>3, <2>1, <2>3, <2>4, <2>5, Kept DEF AsyncInsertLocked, InsertBehind
<1>4. CASE InsertMerge(t, b)
  <2>1. ref' \in [OpId -> Int] BY <1>1, <1>4 DEF InsertMerge, DropBoth, ReqOK
  <2>2. opc' \in [OpId -> Opcode] /\ ver' \in [OpId -> Ptr]
    BY <1>1, <1>4 DEF InsertMerge, MoveCmd, ReqOK
  <2>3. ReqOK' BY <1>4, <2>1, <2>2 DEF AsyncInsertLocked, InsertMerge, ReqOK
  <2>4. HashOK' BY <1>1, <1>4 DEF AsyncInsertLocked, InsertMerge, HashOK
  <2>5. ThrInv' BY <1>1, <1>4, Facts DEF InsertMerge, Return, ThrInv, ThrOK, ThreadPc
  <2>6. HistOK' BY <1>1, <1>4 DEF AsyncInsertLocked, InsertMerge, Return, HistOK
  <2> QED BY <1>4, <2>3, <2>4, <2>5, <2>6, Kept DEF AsyncInsertLocked, InsertMerge
<1> QED BY <1>2, <1>3, <1>4 DEF AsyncInsertLocked

\* The steps of the asynchronous commands preserve the types.
LEMMA AsyncType ==
  ASSUME TypeInv, NEW t \in Thread, AsyncStep(t)
  PROVE  TypeInv'
<1> USE DEF TypeInv, reqVars, hashVars, memqVars, thrVars, subVars, compVars, devVars,
            histVars
<1>1. CASE AsyncRaMiss(t)
  <2>1. ReqOK' BY <1>1 DEF AsyncRaMiss, Hashed, AllocRq, ReqOK, ThrInv
  <2>2. ThrInv' BY <1>1 DEF AsyncRaMiss, Hashed, Goto, ThrInv, ThrOK, ThreadPc
  <2> QED BY <1>1, <2>1, <2>2, Kept DEF AsyncRaMiss
<1>2. CASE AsyncRaFound(t)
  <2>1. ReqOK' BY <1>2 DEF AsyncRaFound, Hashed, IncRef, ReqOK, ThrInv, HashOK
  <2>2. ThrInv' BY <1>2, Facts DEF AsyncRaFound, Hashed, Goto, ThrInv, ThrOK,
        ThreadPc, HashOK
  <2> QED BY <1>2, <2>1, <2>2, Kept DEF AsyncRaFound
<1>3. CASE AsyncRaHit(t)
  <2>1. ReqOK' BY <1>3 DEF AsyncRaHit, DecRef, ReqOK, ThrInv
  <2>2. ThrInv' BY <1>3, Facts DEF AsyncRaHit, Goto, Return, ThrInv, ThrOK,
        ThreadPc
  <2>3. HistOK' BY <1>3 DEF AsyncRaHit, Return, HistOK, ThrInv
  <2> QED BY <1>3, <2>1, <2>2, <2>3, Kept DEF AsyncRaHit
<1>4. CASE AsyncInsertNew(t)
  <2>1. ReqOK' BY <1>4, AsyncInsertNewParts
  <2>2. HashOK' BY <1>4 DEF AsyncInsertNew, Hashed, HashOK, ThrInv
  <2>3. MemqOK' BY <1>4, AsyncInsertNewParts
  <2>4. ThrInv' BY <1>4 DEF AsyncInsertNew, Hashed, Goto, AfterEnqueue, ThrInv,
        ThrOK, ThreadPc
  <2> QED BY <1>4, <2>1, <2>2, <2>3, <2>4, Kept DEF AsyncInsertNew
<1>5. CASE AsyncInsertFound(t)
  <2>1. ReqOK' BY <1>5 DEF AsyncInsertFound, Hashed, IncRef, ReqOK, ThrInv,
        ThrOK, HashOK
  <2>2. HashOK' BY <1>5 DEF AsyncInsertFound, Hashed, HashOK, ThrInv, ReqOK
  <2>3. ThrInv' BY <1>5, Facts DEF AsyncInsertFound, Hashed, Goto, ThrInv,
        ThrOK, ThreadPc, HashOK
  <2> QED BY <1>5, <2>1, <2>2, <2>3, Kept DEF AsyncInsertFound
<1>6. CASE AsyncInsertLocked(t) BY <1>6, AsyncInsertLockedType
<1>7. CASE AsyncRaDel(t)
  <2>1. HashOK' BY <1>7 DEF AsyncRaDel, TakeReadahead, Hashed, HashOK, ThrInv
  <2>2. ThrInv' BY <1>7, Facts DEF AsyncRaDel, TakeReadahead, Goto, Hashed,
        ThrInv, ThrOK, ThreadPc, HashOK
  <2> QED BY <1>7, <2>1, <2>2, Kept DEF AsyncRaDel
<1>8. CASE AsyncRaPut(t)
  <2>1. ReqOK' BY <1>8 DEF AsyncRaPut, DecRef, ReqOK, ThrInv
  <2>2. ThrInv' BY <1>8, Facts DEF AsyncRaPut, Goto, ThrInv, ThrOK, ThreadPc
  <2> QED BY <1>8, <2>1, <2>2, Kept DEF AsyncRaPut
<1>9. CASE AsyncWake(t)
  <2>1. ThrInv' BY <1>9, Facts DEF AsyncWake, Goto, Return, ThrInv, ThrOK,
        ThreadPc
  <2>2. SubInv' BY <1>9 DEF AsyncWake, TypeOf, SubInv, SubOK, SubmitPc, ThrInv,
        HistOK, Type
  <2>3. HistOK' BY <1>9 DEF AsyncWake, Return, HistOK, ThrInv
  <2> QED BY <1>9, <2>1, <2>2, <2>3, Kept DEF AsyncWake
<1>10. CASE AsyncFullSet(t)
  <2>1. ThrInv' BY <1>10 DEF AsyncFullSet, Goto, ThrInv, ThrOK, ThreadPc
  <2>2. CompInv' BY <1>10 DEF AsyncFullSet, CompInv, CompOK, CompletePc, ThrInv
  <2> QED BY <1>10, <2>1, <2>2, Kept DEF AsyncFullSet
<1>11. CASE AsyncFullWait(t)
  <2>1. ThrInv' BY <1>11, Facts DEF AsyncFullWait, Return, ThrInv, ThrOK,
        ThreadPc
  <2>2. HistOK' BY <1>11 DEF AsyncFullWait, Return, HistOK, ThrInv
  <2> QED BY <1>11, <2>1, <2>2, Kept DEF AsyncFullWait
<1> QED BY <1>1, <1>2, <1>3, <1>4, <1>5, <1>6, <1>7, <1>8, <1>9, <1>10, <1>11
        DEF AsyncStep

\* A get answered from the read-ahead hash returns the version it held.
LEMMA SyncReadaheadPutHist ==
  ASSUME TypeInv, NEW t \in Thread, SyncReadaheadPut(t)
  PROVE  HistOK'
<1> USE DEF TypeInv, reqVars, hashVars, memqVars, thrVars, subVars, compVars, devVars,
            histVars
<1>1. me[t] \in OpId /\ buf[t] \in OpId BY DEF SyncReadaheadPut, ThrInv
<1>2. ver[buf[t]] \in -1..MaxOps BY <1>1, Facts DEF ReqOK
<1>3. res' \in [OpId -> -1..MaxOps] BY <1>1, <1>2 DEF SyncReadaheadPut, HistOK
<1>4. done' \subseteq OpId BY <1>1 DEF SyncReadaheadPut, Return, HistOK
<1> QED BY <1>3, <1>4 DEF SyncReadaheadPut, HistOK

\* The answer of a synchronous command is a version.
LEMMA SyncIssueHist ==
  ASSUME TypeInv, NEW t \in Thread, SyncIssue(t)
  PROVE  HistOK'
<1> USE DEF TypeInv, reqVars, hashVars, memqVars, thrVars, subVars, compVars, devVars,
            histVars
<1> DEFINE n == me[t]
<1>1. n \in OpId BY DEF SyncIssue, ThrInv
<1>2. ver[n] \in -1..MaxOps /\ dev[key[n]] \in -1..MaxOps BY <1>1, Facts DEF ReqOK, DevOK
<1>3. res' \in [OpId -> -1..MaxOps] BY <1>1, <1>2 DEF SyncIssue, HistOK
<1>4. done' \subseteq OpId BY <1>1 DEF SyncIssue, Return, HistOK
<1> QED BY <1>3, <1>4 DEF SyncIssue, HistOK

\* The steps of the synchronous commands preserve the types.
LEMMA SyncType ==
  ASSUME TypeInv, NEW t \in Thread, SyncStep(t)
  PROVE  TypeInv'
<1> USE DEF TypeInv, reqVars, hashVars, memqVars, thrVars, subVars, compVars, devVars,
            histVars
<1>1. CASE SyncReadahead(t)
  <2>1. HashOK' BY <1>1 DEF SyncReadahead, TakeReadahead, Hashed, HashOK, ThrInv
  <2>2. ThrInv' BY <1>1, Facts DEF SyncReadahead, TakeReadahead, Hashed, Goto,
        ThrInv, ThrOK, ThreadPc, HashOK
  <2> QED BY <1>1, <2>1, <2>2, Kept DEF SyncReadahead
<1>2. CASE SyncReadaheadPut(t)
  <2>1. ReqOK' BY <1>2 DEF SyncReadaheadPut, DecRef, ReqOK, ThrInv
  <2>2. ThrInv' BY <1>2, Facts DEF SyncReadaheadPut, Goto, Return, ThrInv,
        ThrOK, ThreadPc
  <2>3. HistOK' BY <1>2, SyncReadaheadPutHist
  <2> QED BY <1>2, <2>1, <2>2, <2>3, Kept DEF SyncReadaheadPut
<1>3. CASE SyncFindNone(t)
  <2>1. ThrInv' BY <1>3 DEF SyncFindNone, Hashed, Goto, ThrInv, ThrOK, ThreadPc
  <2> QED BY <1>3, <2>1, Kept DEF SyncFindNone
<1>4. CASE SyncFind(t)
  <2>1. ReqOK' BY <1>4 DEF SyncFind, Hashed, IncRef, ReqOK, ThrInv, ThrOK,
        HashOK
  <2>2. HashOK' BY <1>4 DEF SyncFind, Hashed, HashOK, ThrInv, ReqOK
  <2>3. ThrInv' BY <1>4, Facts DEF SyncFind, Hashed, Goto, ThrInv, ThrOK,
        ThreadPc, HashOK
  <2> QED BY <1>4, <2>1, <2>2, <2>3, Kept DEF SyncFind
<1>5. CASE SyncFindLocked(t)
  <2>1. ReqOK' BY <1>5 DEF SyncFindLocked, UnlockAndRestart, FindBusy,
        FindBuffered, DecRef, Invalidate, ReqOK, ThrInv, Bit
  <2>2. HashOK' BY <1>5 DEF SyncFindLocked, UnlockAndRestart, FindBusy,
        FindBuffered, Invalidate, HashOK, ThrInv
  <2>3. ThrInv' BY <1>5, Facts DEF SyncFindLocked, UnlockAndRestart, FindBusy,
        FindBuffered, Goto, ThrInv, ThrOK, ThreadPc
  <2> QED BY <1>5, <2>1, <2>2, <2>3, Kept DEF SyncFindLocked, UnlockAndRestart
<1>6. CASE SyncWait(t)
  <2>1. ThrInv' BY <1>6, Facts DEF SyncWait, Goto, ThrInv, ThrOK, ThreadPc
  <2> QED BY <1>6, <2>1, Kept DEF SyncWait
<1>7. CASE SyncReadBlocking(t)
  <2>1. ThrInv' BY <1>7 DEF SyncReadBlocking, Goto, ThrInv, ThrOK, ThreadPc,
        ReqOK, NULL, OpId, Ptr
  <2> QED BY <1>7, <2>1, Kept DEF SyncReadBlocking
<1>8. CASE SyncWaitBlocking(t)
  <2>1. ThrInv' BY <1>8, Facts DEF SyncWaitBlocking, Goto, ThrInv, ThrOK,
        ThreadPc
  <2> QED BY <1>8, <2>1, Kept DEF SyncWaitBlocking
<1>9. CASE SyncIssue(t)
  <2>1. ThrInv' BY <1>9, Facts DEF SyncIssue, Return, ThrInv, ThrOK, ThreadPc
  <2>2. DevOK' BY <1>9 DEF SyncIssue, DevOK, ThrInv, ReqOK
  <2>3. HistOK' BY <1>9, SyncIssueHist
  <2> QED BY <1>9, <2>1, <2>2, <2>3, Kept DEF SyncIssue
<1> QED BY <1>1, <1>2, <1>3, <1>4, <1>5, <1>6, <1>7, <1>8, <1>9 DEF SyncStep

\* The flush without a key picks a request of the last queue of the write daemon.
LEMMA FlushAllPickParts ==
  ASSUME TypeInv, NEW t \in Thread, FlushAllPick(t)
  PROVE  ReqOK' /\ ThrInv'
<1> USE DEF TypeInv, reqVars, hashVars, memqVars, thrVars, subVars, compVars, devVars,
            histVars
<1> DEFINE l == mlist["WRITE"]
           q == mrq[l[Len(l)]]
           r == q[Len(q)]
<1>1. l \in Seq(Memq) /\ l # <<>> BY DEF FlushAllPick, MemqOK, Type
<1>2. l[Len(l)] \in Memq BY <1>1, SeqFacts
<1>3. q \in Seq(OpId) /\ q # <<>> BY <1>2 DEF FlushAllPick, MemqOK
<1>4. r \in OpId BY <1>3, SeqFacts
<1>5. AskWakeup(t, r) /\ buf' = [buf EXCEPT ![t] = r] /\ Goto(t, "fa_wait") /\ me' = me /\ pc[t] = "fa_pick"
  BY DEF FlushAllPick
<1>6. ReqOK' BY <1>4, <1>5 DEF FlushAllPick, AskWakeup, ReqOK, Bit
<1> HIDE DEF r
<1>7. ThrInv' BY <1>4, <1>5, Facts DEF Goto, ThrInv, ThrOK, ThreadPc
<1> QED BY <1>6, <1>7

\* The steps of the flush commands preserve the types.
LEMMA FlushStepType ==
  ASSUME TypeInv, NEW t \in Thread, FlushStep(t)
  PROVE  TypeInv'
<1> USE DEF TypeInv, reqVars, hashVars, memqVars, thrVars, subVars, compVars, devVars,
            histVars
<1>1. CASE FlushNone(t)
  <2>1. ThrInv' BY <1>1, Facts DEF FlushNone, Hashed, Return, ThrInv, ThrOK,
        ThreadPc
  <2>2. HistOK' BY <1>1 DEF FlushNone, Return, HistOK, ThrInv
  <2> QED BY <1>1, <2>1, <2>2, Kept DEF FlushNone
<1>2. CASE FlushFind(t)
  <2>1. ReqOK' BY <1>2 DEF FlushFind, Hashed, IncRef, ReqOK, ThrInv, ThrOK,
        HashOK
  <2>2. ThrInv' BY <1>2, Facts DEF FlushFind, Hashed, Goto, ThrInv, ThrOK,
        ThreadPc, HashOK
  <2> QED BY <1>2, <2>1, <2>2, Kept DEF FlushFind
<1>3. CASE FlushMark(t)
  <2>1. ReqOK' BY <1>3 DEF FlushMark, AskWakeup, ReqOK, ThrInv, Bit
  <2>2. ThrInv' BY <1>3 DEF FlushMark, Goto, ThrInv, ThrOK, ThreadPc
  <2> QED BY <1>3, <2>1, <2>2, Kept DEF FlushMark
<1>4. CASE FlushCompleted(t)
  <2>1. ReqOK' BY <1>4 DEF FlushCompleted, DecRef, ReqOK, ThrInv
  <2>2. ThrInv' BY <1>4, Facts DEF FlushCompleted, Return, ThrInv, ThrOK,
        ThreadPc
  <2>3. HistOK' BY <1>4 DEF FlushCompleted, Return, HistOK, ThrInv
  <2> QED BY <1>4, <2>1, <2>2, <2>3, Kept DEF FlushCompleted
<1>5. CASE FlushPush(t)
  <2>1. ThrInv' BY <1>5 DEF FlushPush, Goto, ThrInv, ThrOK, ThreadPc
  <2>2. SubInv' BY <1>5 DEF FlushPush, FlushType, TypeOf, SubInv, SubOK,
        SubmitPc, ThrInv, HistOK, Type
  <2> QED BY <1>5, <2>1, <2>2, Kept DEF FlushPush
<1>6. CASE FlushDrain(t)
  <2>1. ThrInv' BY <1>6 DEF FlushDrain, Goto, ThrInv, ThrOK, ThreadPc
  <2> QED BY <1>6, <2>1, Kept DEF FlushDrain
<1>7. CASE FlushDone(t)
  <2>1. ReqOK' BY <1>7 DEF FlushDone, DecRef, ReqOK, ThrInv
  <2>2. ThrInv' BY <1>7, Facts DEF FlushDone, Return, ThrInv, ThrOK, ThreadPc
  <2>3. HistOK' BY <1>7 DEF FlushDone, Return, HistOK, ThrInv
  <2> QED BY <1>7, <2>1, <2>2, <2>3, Kept DEF FlushDone
<1>8. CASE FlushAllEmpty(t)
  <2>1. ThrInv' BY <1>8, Facts DEF FlushAllEmpty, Return, ThrInv, ThrOK,
        ThreadPc
  <2>2. HistOK' BY <1>8 DEF FlushAllEmpty, Return, HistOK, ThrInv
  <2> QED BY <1>8, <2>1, <2>2, Kept DEF FlushAllEmpty
<1>9. CASE FlushAllPick(t)
  <2>1. ReqOK' BY <1>9, FlushAllPickParts
  <2>2. ThrInv' BY <1>9, FlushAllPickParts
  <2> QED BY <1>9, <2>1, <2>2, Kept DEF FlushAllPick
<1>10. CASE FlushAllDone(t)
  <2>1. ThrInv' BY <1>10, Facts DEF FlushAllDone, Return, ThrInv, ThrOK,
        ThreadPc
  <2>2. HistOK' BY <1>10 DEF FlushAllDone, Return, HistOK, ThrInv
  <2> QED BY <1>10, <2>1, <2>2, Kept DEF FlushAllDone
<1> QED BY <1>1, <1>2, <1>3, <1>4, <1>5, <1>6, <1>7, <1>8, <1>9, <1>10 DEF
        FlushStep

-----------------------------------------------------------------------------
(* The daemons and the device. *)

\* The scheduling daemon moves an active queue to the list of its submission daemon.
LEMMA ScheduleMemq ==
  ASSUME TypeInv, NEW y \in Type, Schedule(y)
  PROVE  MemqOK'
<1> USE DEF TypeInv, reqVars, hashVars, memqVars, thrVars, subVars, compVars, devVars,
            histVars
<1>1. CASE mrq[active[y]] = <<>> BY <1>1 DEF Schedule, MemqOK
<1>2. CASE mrq[active[y]] # <<>>
  <2>1. nmemq + 1 \in Memq BY <1>2, ConstantsAssumption DEF Schedule, MemqOK, Memq, MaxMemq
  <2>2. active[y] \in Memq /\ mlist[y] \in Seq(Memq) BY DEF MemqOK
  <2>3. Append(mlist[y], active[y]) \in Seq(Memq) BY <2>2
  <2> QED BY <1>2, <2>1, <2>3 DEF Schedule, MemqOK
<1> QED BY <1>1, <1>2

\* The scheduling daemon preserves the types.
LEMMA ScheduleType ==
  ASSUME TypeInv, NEW y \in Type, Schedule(y)
  PROVE  TypeInv'
<1> USE DEF TypeInv, reqVars, hashVars, memqVars, thrVars, subVars, compVars, devVars,
            histVars
<1>1. MemqOK' BY ScheduleMemq
<1>2. SubInv' BY DEF Schedule, SubInv, SubOK, SubmitPc
<1> QED BY <1>1, <1>2, Kept DEF Schedule

\* The request a submission daemon looks at next.
LEMMA SubmitHead ==
  ASSUME TypeInv, NEW y \in Type, subPc[y] = "submit", mrq[subCur[y]] # <<>>
  PROVE  Head(mrq[subCur[y]]) \in OpId
<1>1. mrq[subCur[y]] \in Seq(OpId) BY DEF TypeInv, SubInv, MemqOK
<1> QED BY <1>1, SeqFacts

\* The submission daemon takes the first queue of its list.
LEMMA SubmitTakeSub ==
  ASSUME TypeInv, NEW y \in Type, SubmitTake(y)
  PROVE  SubInv'
<1> USE DEF TypeInv, reqVars, hashVars, memqVars, thrVars, subVars, compVars, devVars,
            histVars
<1>1. Head(mlist[y]) \in Memq BY SeqFacts DEF SubmitTake, MemqOK
<1> QED BY <1>1 DEF SubmitTake, SubInv, SubOK, SubmitPc

\* An invalid request is dropped from the queue.
LEMMA SubmitInvalidReq ==
  ASSUME TypeInv, NEW y \in Type, SubmitInvalid(y)
  PROVE  ReqOK'
<1> USE DEF TypeInv, reqVars, hashVars, memqVars, thrVars, subVars, compVars, devVars,
            histVars
<1> DEFINE r == Head(mrq[subCur[y]])
<1>1. r \in OpId BY SubmitHead DEF SubmitInvalid
<1>2. bits' = [bits EXCEPT ![r] = @ \ {"flush_wakeup"}] /\ DecRef(r) BY DEF SubmitInvalid
<1> HIDE DEF r
<1>3. bits' \in [OpId -> SUBSET Bit] /\ ref' \in [OpId -> Int]
   BY <1>1, <1>2 DEF DecRef, ReqOK
<1> QED BY <1>3 DEF SubmitInvalid, ReqOK

\* A request is submitted, or kept by the daemon while the device is congested.
LEMMA SubmitRqParts ==
  ASSUME TypeInv, NEW y \in Type, SubmitRq(y)
  PROVE  ReqOK' /\ SubInv'
<1> USE DEF TypeInv, reqVars, hashVars, memqVars, thrVars, subVars, compVars, devVars,
            histVars
<1> DEFINE r == Head(mrq[subCur[y]])
<1>1. r \in OpId BY SubmitHead DEF SubmitRq
<1>2. bits' = [bits EXCEPT ![r] = @ \cup {"inFlight"}] BY DEF SubmitRq
<1>3. subRq' \in {subRq, [subRq EXCEPT ![y] = r]} BY DEF SubmitRq
<1>4. \/ subRq' = [subRq EXCEPT ![y] = r] /\ subPc' = [subPc EXCEPT ![y] = "cong_set"]
      \/ subRq' = subRq /\ subPc' = subPc BY DEF SubmitRq
<1>5. subPc[y] = "submit" BY DEF SubmitRq
<1> HIDE DEF r
<1>6. ReqOK' BY <1>1, <1>2 DEF SubmitRq, ReqOK, Bit
<1>7. SubInv' BY <1>1, <1>4, <1>5, Facts DEF SubmitRq, SubInv, SubOK, SubmitPc
<1> QED BY <1>6, <1>7

\* The steps of a submission daemon preserve the types.
LEMMA SubmitType ==
  ASSUME TypeInv, NEW y \in Type, SubmitStep(y)
  PROVE  TypeInv'
<1> USE DEF TypeInv, reqVars, hashVars, memqVars, thrVars, subVars, compVars, devVars,
            histVars
<1>1. CASE SubmitStart(y)
  <2>1. SubInv' BY <1>1 DEF SubmitStart, SubInv, SubOK, SubmitPc
  <2> QED BY <1>1, <2>1, Kept DEF SubmitStart
<1>2. CASE SubmitEnd(y)
  <2>1. SubInv' BY <1>2 DEF SubmitEnd, SubInv, SubOK, SubmitPc
  <2> QED BY <1>2, <2>1, Kept DEF SubmitEnd
<1>3. CASE SubmitPark(y)
  <2>1. MemqOK' BY <1>3 DEF SubmitPark, MemqOK, SubInv
  <2>2. SubInv' BY <1>3 DEF SubmitPark, SubInv, SubOK, SubmitPc
  <2> QED BY <1>3, <2>1, <2>2, Kept DEF SubmitPark
<1>4. CASE SubmitKick(y)
  <2>1. SubInv' BY <1>4 DEF SubmitKick, SubInv, SubOK, SubmitPc
  <2>2. CompInv' BY <1>4 DEF SubmitKick, CompInv, CompOK, CompletePc, SubInv
  <2> QED BY <1>4, <2>1, <2>2, Kept DEF SubmitKick
<1>5. CASE SubmitSleep(y)
  <2>1. SubInv' BY <1>5, Facts DEF SubmitSleep, SubInv, SubOK, SubmitPc
  <2> QED BY <1>5, <2>1, Kept DEF SubmitSleep
<1>6. CASE SubmitTake(y)
  <2>1. MemqOK' BY <1>6 DEF SubmitTake, MemqOK, SubInv
  <2>2. SubInv' BY <1>6, SubmitTakeSub
  <2> QED BY <1>6, <2>1, <2>2, Kept DEF SubmitTake
<1>7. CASE SubmitInvalid(y)
  <2>1. ReqOK' BY <1>7, SubmitInvalidReq
  <2>2. MemqOK' BY <1>7 DEF SubmitInvalid, MemqOK, SubInv
  <2> QED BY <1>7, <2>1, <2>2, Kept DEF SubmitInvalid
<1>8. CASE SubmitRq(y)
  <2>1. ReqOK' BY <1>8, SubmitRqParts
  <2>2. MemqOK' BY <1>8 DEF SubmitRq, MemqOK, SubInv
  <2>3. SubInv' BY <1>8, SubmitRqParts
  <2>4. CompInv' BY <1>8 DEF SubmitRq, CompInv, CompOK, CompletePc, SubInv
  <2>5. DevOK'
    <3>1. Head(mrq[subCur[y]]) \in OpId BY <1>8 DEF SubmitRq, SubInv, MemqOK
    <3>2. devQ' \subseteq OpId BY <1>8, <3>1 DEF SubmitRq, DevOK
    <3>3. dev' = dev /\ isr' = isr BY <1>8 DEF SubmitRq
    <3> QED BY <3>2, <3>3 DEF DevOK
  <2> QED BY <1>8, <2>1, <2>2, <2>3, <2>4, <2>5, Kept DEF SubmitRq
<1>9. CASE SubmitCongested(y)
  <2>1. SubInv' BY <1>9 DEF SubmitCongested, SubInv, SubOK, SubmitPc
  <2>2. CompInv' BY <1>9 DEF SubmitCongested, CompInv, CompOK, CompletePc,
        SubInv
  <2> QED BY <1>9, <2>1, <2>2, Kept DEF SubmitCongested
<1>10. CASE SubmitResume(y)
  <2>1. MemqOK' BY <1>10 DEF SubmitResume, MemqOK, SubInv
  <2>2. SubInv' BY <1>10, Facts DEF SubmitResume, SubInv, SubOK, SubmitPc
  <2>3. DevOK' BY <1>10 DEF SubmitResume, DevOK, SubInv
  <2> QED BY <1>10, <2>1, <2>2, <2>3, Kept DEF SubmitResume
<1>11. CASE SubmitDone(y)
  <2>1. MemqOK' BY <1>11 DEF SubmitDone, MemqOK, SubInv
  <2>2. SubInv' BY <1>11 DEF SubmitDone, SubInv, SubOK, SubmitPc
  <2> QED BY <1>11, <2>1, <2>2, Kept DEF SubmitDone
<1> QED BY <1>1, <1>2, <1>3, <1>4, <1>5, <1>6, <1>7, <1>8, <1>9, <1>10, <1>11
        DEF SubmitStep

\* The device, and the interrupt that fills the fifo, preserve the types.
LEMMA DeviceType ==
  ASSUME TypeInv, NEW r \in OpId, DeviceExec(r)
  PROVE  TypeInv'
<1> USE DEF TypeInv, reqVars, hashVars, memqVars, thrVars, subVars, compVars, devVars,
            histVars
<1>1. ver' \in [OpId -> Ptr] /\ dev' \in [Key -> Ptr] BY DEF DeviceExec, ReqOK, DevOK
<1>2. ReqOK' BY <1>1 DEF DeviceExec, ReqOK
<1>3. DevOK' BY <1>1, Facts DEF DeviceExec, DevOK
<1>4. Append(fifo, r) \in Seq(OpId) BY DEF CompInv, CompOK
<1>5. CompInv' BY <1>4 DEF DeviceExec, CompInv, CompOK
<1> QED BY <1>2, <1>3, <1>5, Kept DEF DeviceExec

\* The end of the interrupt handler preserves the types.
LEMMA InterruptType ==
  ASSUME TypeInv, InterruptWake
  PROVE  TypeInv'
<1> USE DEF TypeInv, reqVars, hashVars, memqVars, thrVars, subVars, compVars, devVars,
            histVars
<1>1. DevOK' BY Facts DEF InterruptWake, DevOK
<1>2. CompInv' BY DEF InterruptWake, CompInv, CompOK
<1> QED BY <1>1, <1>2, Kept DEF InterruptWake

\* The completion daemon starts.
LEMMA CompleteStartComp ==
  ASSUME TypeInv, CompleteStart
  PROVE  CompInv'
<1> USE DEF TypeInv, reqVars, hashVars, memqVars, thrVars, subVars, compVars, devVars,
            histVars
<1> QED BY DEF CompleteStart, CompInv, CompOK, CompletePc

\* The completion daemon takes the head of the fifo.
LEMMA CompleteDequeueComp ==
  ASSUME TypeInv, CompleteDequeue
  PROVE  CompInv'
<1> USE DEF TypeInv, reqVars, hashVars, memqVars, thrVars, subVars, compVars, devVars,
            histVars
<1>1. Head(fifo) \in OpId /\ Tail(fifo) \in Seq(OpId)
   BY SeqFacts DEF CompleteDequeue, CompInv, CompOK
<1>2. inflight' \in Int BY DEF CompleteDequeue, CompInv, CompOK
<1>3. compPc' = "unhash" /\ compCur' \in OpId /\ fifo' \in Seq(OpId) /\ congested' \in BOOLEAN
  BY <1>1 DEF CompleteDequeue
<1>4. compQ' \in BOOLEAN /\ compBuf' \in Ptr /\ queueFull' \in BOOLEAN
  BY DEF CompleteDequeue, CompInv, CompOK
<1> QED BY <1>2, <1>3, <1>4, Facts DEF CompInv, CompOK, CompletePc

\* The completion daemon locks and marks the request.
LEMMA CompleteLockReq ==
  ASSUME TypeInv, CompleteLock
  PROVE  ReqOK'
<1> USE DEF TypeInv, reqVars, hashVars, memqVars, thrVars, subVars, compVars, devVars,
            histVars
<1>1. compCur \in OpId BY DEF CompleteLock, CompInv
<1>2. \A x \in Hashed(raHash, key[compCur]) : x \in OpId BY DEF Hashed, HashOK
<1>3. ref' \in [OpId -> Int] BY <1>2 DEF CompleteLock, IncRef, ReqOK
<1>4. bits' \in [OpId -> SUBSET Bit] BY <1>1 DEF CompleteLock, ReqOK, Bit, Signalled
<1>5. locked' \subseteq Ptr BY <1>1, Facts DEF CompleteLock, ReqOK
<1> QED BY <1>3, <1>4, <1>5 DEF CompleteLock, ReqOK

\* The steps of the completion daemon preserve the types.
LEMMA CompleteType ==
  ASSUME TypeInv, CompleteStep
  PROVE  TypeInv'
<1> USE DEF TypeInv, reqVars, hashVars, memqVars, thrVars, subVars, compVars, devVars,
            histVars
<1>1. CASE CompleteStart
  <2>1. CompInv' BY <1>1, CompleteStartComp
  <2> QED BY <1>1, <2>1, Kept DEF CompleteStart
<1>2. CASE CompleteDequeue
  <2>1. CompInv' BY <1>2, CompleteDequeueComp
  <2> QED BY <1>2, <2>1, Kept DEF CompleteDequeue
<1>3. CASE CompleteUnhash
  <2>1. HashOK' BY <1>3 DEF CompleteUnhash, HashOK, CompInv
  <2>2. CompInv' BY <1>3 DEF CompleteUnhash, CompInv, CompOK, CompletePc
  <2> QED BY <1>3, <2>1, <2>2, Kept DEF CompleteUnhash
<1>4. CASE CompleteLowWatermark
  <2>1. CompInv' BY <1>4 DEF CompleteLowWatermark, CompInv, CompOK, CompletePc
  <2> QED BY <1>4, <2>1, Kept DEF CompleteLowWatermark
<1>5. CASE CompleteLock
  <2>1. ReqOK' BY <1>5, CompleteLockReq
  <2>2. HashOK' BY <1>5 DEF CompleteLock, Hashed, HashOK, CompInv
  <2>3. CompInv' BY <1>5, Facts DEF CompleteLock, Hashed, AfterSignal, CompInv,
        CompOK, CompletePc, ThrOK, HashOK
  <2> QED BY <1>5, <2>1, <2>2, <2>3, Kept DEF CompleteLock
<1>6. CASE CompleteDuplicate
  <2>1. ReqOK' BY <1>6 DEF CompleteDuplicate, DecRef, Signalled, ReqOK, CompInv
  <2>2. CompInv' BY <1>6, Facts DEF CompleteDuplicate, AfterSignal, CompInv,
        CompOK, CompletePc
  <2> QED BY <1>6, <2>1, <2>2, Kept DEF CompleteDuplicate
<1>7. CASE CompleteFindPending
  <2>1. ReqOK' BY <1>7 DEF CompleteFindPending, Hashed, IncRef, ReqOK, CompInv
  <2>2. CompInv' BY <1>7, Facts DEF CompleteFindPending, Hashed, CompInv,
        CompOK, CompletePc, ThrOK, HashOK
  <2> QED BY <1>7, <2>1, <2>2, Kept DEF CompleteFindPending
<1>8. CASE CompleteUnblock
  <2>1. ReqOK' BY <1>8, Facts DEF CompleteUnblock, DecRef, ReqOK, CompInv, NULL,
        OpId, Ptr
  <2>2. MemqOK' BY <1>8 DEF CompleteUnblock, MemqOK, CompInv
  <2>3. CompInv' BY <1>8, Facts DEF CompleteUnblock, CompInv, CompOK, CompletePc
  <2> QED BY <1>8, <2>1, <2>2, <2>3, Kept DEF CompleteUnblock
<1>9. CASE CompleteFini
  <2>1. ReqOK' BY <1>9 DEF CompleteFini, DecRef, ReqOK, CompInv
  <2>2. CompInv' BY <1>9, Facts DEF CompleteFini, CompInv, CompOK, CompletePc
  <2> QED BY <1>9, <2>1, <2>2, Kept DEF CompleteFini
<1>10. CASE \E y \in Type : CompleteWake(y)
  <2>1. PICK y \in Type : CompleteWake(y) BY <1>10
  <2>2. SubInv' BY <2>1 DEF CompleteWake, SubInv, SubOK
  <2>3. CompInv' BY <2>1 DEF CompleteWake, CompInv, CompOK, CompletePc
  <2> QED BY <2>1, <2>2, <2>3, Kept DEF CompleteWake
<1> QED BY <1>1, <1>2, <1>3, <1>4, <1>5, <1>6, <1>7, <1>8, <1>9, <1>10 DEF
        CompleteStep

-----------------------------------------------------------------------------
\* kv_iosched_init gives every variable its type.
LEMMA TypeInit == Init => TypeInv
<1> SUFFICES ASSUME Init PROVE TypeInv OBVIOUS
<1>1. 0 \in Ptr /\ 1 \in Memq /\ 2 \in Memq /\ -1 \in -1..MaxOps
  BY ConstantsAssumption DEF Ptr, Memq, MaxMemq
<1>2. ReqOK
  <2>1. key \in [OpId -> Key] BY ConstantsAssumption DEF Init
  <2> QED BY <1>1, <2>1 DEF Init, ReqOK, NULL, Opcode
<1>3. HashOK BY DEF Init, HashOK
<1>4. MemqOK
  <2>1. <<>> \in Seq(OpId) /\ <<>> \in Seq(Memq) OBVIOUS
  <2> QED BY <1>1, <2>1 DEF Init, MemqOK
<1>5. ThrInv BY <1>1 DEF Init, ThrInv, ThrOK, ThreadPc, NULL
<1>6. SubInv BY <1>1 DEF Init, SubInv, SubOK, SubmitPc, NULL
<1>7. CompInv
  <2>1. compQ \in BOOLEAN /\ congested \in BOOLEAN /\ queueFull \in BOOLEAN
    BY DEF Init
  <2>2. compPc = "idle" /\ compCur \in Ptr /\ compBuf \in Ptr /\ inflight \in Int
    BY <1>1 DEF Init, NULL
  <2>3. fifo \in Seq(OpId) BY DEF Init
  <2> QED BY <2>1, <2>2, <2>3 DEF CompInv, CompOK, CompletePc
<1>8. DevOK BY <1>1, Facts DEF Init, DevOK
<1>9. HistOK BY <1>1 DEF Init, HistOK, Kind, Opcode
<1> QED BY <1>2, <1>3, <1>4, <1>5, <1>6, <1>7, <1>8, <1>9 DEF TypeInv

\* Every step of the driver preserves the types.
LEMMA TypeStep == TypeInv /\ [Next]_vars => TypeInv'
<1> SUFFICES ASSUME TypeInv, [Next]_vars
             PROVE  TypeInv'
  OBVIOUS
<1>1. ASSUME UNCHANGED vars PROVE TypeInv'
  BY <1>1, Kept DEF vars, TypeInv
<1>2. ASSUME NEW t \in Thread, Invoke(t) \/ ThreadStep(t) PROVE TypeInv'
  BY <1>2, InvokeType, AsyncType, SyncType, FlushStepType DEF ThreadStep
<1>3. ASSUME NEW y \in Type, Schedule(y) \/ SubmitStep(y) PROVE TypeInv'
  BY <1>3, ScheduleType, SubmitType
<1>4. ASSUME Device PROVE TypeInv'
  BY <1>4, DeviceType, InterruptType DEF Device
<1>5. ASSUME CompleteStep PROVE TypeInv'
  BY <1>5, CompleteType
<1>6. ASSUME Quiescent PROVE TypeInv'
  BY <1>6, <1>1 DEF Quiescent
<1> QED BY <1>1, <1>2, <1>3, <1>4, <1>5, <1>6 DEF Next

\* Every variable always has its type, whatever the numbers of keys, threads and
\* commands and the limits: in particular every pointer the daemons and threads
\* follow names a request or a queue, except blocking_rq in kv_hash_find_and_lock,
\* whose NULL leads to the position oops.
THEOREM TypeCorrect == Spec => []TypeOK
<1>1. Init => TypeInv BY TypeInit
<1>2. TypeInv /\ [Next]_vars => TypeInv' BY TypeStep
<1>3. TypeInv => TypeOK BY DEF TypeInv, ThrInv, SubInv, CompInv, TypeOK
<1> QED BY <1>1, <1>2, <1>3, PTL DEF Spec

-----------------------------------------------------------------------------
(* The request hash holds at most one request per key (HashUnique) and     *)
(* none that is completed, invalid or blocking (HashUsable).  Both depend  *)
(* on who may still hold a request that is not in the hash yet, on the     *)
(* bucket lock that a thread keeps while it waits for the request it       *)
(* found, and on the completion daemon unhashing a request before it marks *)
(* it; HashInv states these.                                               *)

\* Positions of an asynchronous command whose request is not in the hash yet.
Early == {"ra_check", "ra_find", "insert", "ins_lock"}

\* Commands that were issued and are past that point.
Inserted ==
    {r \in OpId : r <= nops /\ \A t \in Thread : pc[t] \in Early => me[t] # r}

\* Every thread inside an ioctl has a command of its own.
OwnCommand ==
    /\ \A t \in Thread : pc[t] # "idle" => me[t] <= nops
    /\ \A t, u \in Thread :
          t # u /\ pc[t] # "idle" /\ pc[u] # "idle" => me[t] # me[u]

\* A request is known to the hash, the queues, the daemons and the device, and
\* changes its state, only after it was inserted.
InsertedFirst ==
    /\ rqHash \subseteq Inserted
    /\ devQ \subseteq Inserted
    /\ \A r \in OpId : Unusable(r) => r \in Inserted
    /\ fifo \in Seq(Inserted)
    /\ mrq \in [Memq -> Seq(Inserted)]
    /\ compCur \in Inserted \cup {NULL}
    /\ subRq \in [Type -> Inserted \cup {NULL}]

\* A thread that waits for the lock of the request it found holds the bucket, so
\* the request stays in the hash.
BucketHeld ==
    \A t \in Thread : pc[t] \in {"ins_lock", "s_lock"} =>
        /\ hashLock[key[me[t]]] = t
        /\ buf[t] \in rqHash
        /\ key[buf[t]] = key[me[t]]

\* The completion daemon marks a request only after it has unhashed it.
UnhashedFirst == compPc \in {"low", "lock"} => compCur \notin rqHash

\* The inductive strengthening of HashUsable and HashUnique.
HashInv ==
    /\ OwnCommand
    /\ InsertedFirst
    /\ BucketHeld
    /\ UnhashedFirst
    /\ HashUsable
    /\ HashUnique

-----------------------------------------------------------------------------
(* Steps that do not touch the hash. *)

\* A command that was inserted stays inserted.
LEMMA InsertedGrows ==
  ASSUME TypeInv, nops' \in Int, nops <= nops',
         \A u \in Thread : pc'[u] \in Early =>
            (pc[u] \in Early /\ me'[u] = me[u]) \/ me'[u] = nops + 1
  PROVE  Inserted \subseteq Inserted'
<1> SUFFICES ASSUME NEW r \in Inserted PROVE r \in Inserted' OBVIOUS
<1>1. r \in OpId /\ r <= nops /\ nops \in Int /\ r \in Int
  BY Facts DEF Inserted, TypeInv, HistOK
<1>2. r <= nops' BY <1>1
<1>3. \A u \in Thread : pc'[u] \in Early => me'[u] # r
  BY <1>1 DEF Inserted
<1> QED BY <1>1, <1>2, <1>3 DEF Inserted

\* Sequences over a larger set.
LEMMA SeqMono ==
  ASSUME NEW S, NEW T, S \subseteq T, NEW q \in Seq(S)
  PROVE  q \in Seq(T)
  OBVIOUS

\* What lies in Inserted lies in any larger set.
LEMMA PlacesMono ==
  ASSUME TypeInv, HashInv, NEW T, Inserted \subseteq T
  PROVE  /\ rqHash \subseteq T
         /\ devQ \subseteq T
         /\ \A r \in OpId : Unusable(r) => r \in T
         /\ fifo \in Seq(T)
         /\ mrq \in [Memq -> Seq(T)]
         /\ compCur \in T \cup {NULL}
         /\ subRq \in [Type -> T \cup {NULL}]
<1> USE DEF HashInv, InsertedFirst
<1>1. fifo \in Seq(T) BY SeqMono
<1>2. \A m \in Memq : mrq[m] \in Seq(T) BY SeqMono
<1>3. mrq \in [Memq -> Seq(T)] BY <1>2
<1>4. subRq \in [Type -> T \cup {NULL}] OBVIOUS
<1> QED BY <1>1, <1>3, <1>4

\* A thread goes on to another position, without a bucket lock.
Moves(t) ==
    /\ UNCHANGED <<key, rqHash, hashLock, mrq, fifo, devQ, compCur, compPc, subRq,
                   nops>>
    /\ \A r \in OpId : Unusable(r)' => Unusable(r)
    /\ \A u \in Thread \ {t} : pc'[u] = pc[u] /\ me'[u] = me[u] /\ buf'[u] = buf[u]
    /\ pc'[t] \notin {"ins_lock", "s_lock"}
    /\ pc'[t] \in Early => pc[t] \in Early
    /\ pc[t] # "idle"
    /\ pc'[t] # "idle" => me'[t] = me[t]

\* Such a step preserves the invariant.
LEMMA MovesKeep ==
  ASSUME TypeInv, HashInv, NEW t \in Thread, Moves(t)
  PROVE  HashInv'
<1>1. Inserted \subseteq Inserted'
  <2>1. nops' \in Int /\ nops <= nops' BY Facts DEF Moves, TypeInv, HistOK
  <2>2. \A u \in Thread : pc'[u] \in Early => pc[u] \in Early /\ me'[u] = me[u]
    BY DEF Moves, Early
  <2> QED BY <2>1, <2>2, InsertedGrows
<1>2. OwnCommand' BY DEF HashInv, OwnCommand, Moves
<1>3. InsertedFirst'
  <2>1. /\ rqHash \subseteq Inserted'
        /\ devQ \subseteq Inserted'
        /\ \A r \in OpId : Unusable(r) => r \in Inserted'
        /\ fifo \in Seq(Inserted')
        /\ mrq \in [Memq -> Seq(Inserted')]
        /\ compCur \in Inserted' \cup {NULL}
        /\ subRq \in [Type -> Inserted' \cup {NULL}]
    BY <1>1, PlacesMono
  <2> QED BY <2>1 DEF Moves, InsertedFirst
<1>4. BucketHeld'
  BY DEF HashInv, BucketHeld, Moves
<1>5. UnhashedFirst' BY DEF HashInv, UnhashedFirst, Moves
<1>6. HashUsable'
  <2>1. rqHash \subseteq OpId BY DEF TypeInv, HashOK
  <2> QED BY <2>1 DEF HashInv, HashUsable, Moves
<1>7. HashUnique' BY DEF HashInv, HashUnique, Moves
<1> QED BY <1>2, <1>3, <1>4, <1>5, <1>6, <1>7 DEF HashInv

\* A daemon or the device passes requests on.
Passes ==
    /\ UNCHANGED <<key, rqHash, hashLock, pc, me, buf, nops>>
    /\ \A r \in OpId : Unusable(r)' => Unusable(r) \/ (r \in Inserted /\ r \notin rqHash)
    /\ devQ' \subseteq Inserted
    /\ fifo' \in Seq(Inserted)
    /\ mrq' \in [Memq -> Seq(Inserted)]
    /\ compCur' \in Inserted \cup {NULL}
    /\ subRq' \in [Type -> Inserted \cup {NULL}]
    /\ compPc' \in {"low", "lock"} => compCur' \notin rqHash

\* Such a step preserves the invariant.
LEMMA PassesKeep ==
  ASSUME TypeInv, HashInv, Passes
  PROVE  HashInv'
<1>1. Inserted' = Inserted BY DEF Passes, Inserted
<1>2. OwnCommand' BY DEF HashInv, OwnCommand, Passes
<1>3. InsertedFirst' BY <1>1 DEF HashInv, InsertedFirst, Passes
<1>4. BucketHeld' BY DEF HashInv, BucketHeld, Passes
<1>5. UnhashedFirst' BY DEF UnhashedFirst, Passes
<1>6. HashUsable'
  <2>1. rqHash \subseteq OpId BY DEF TypeInv, HashOK
  <2> QED BY <2>1 DEF HashInv, HashUsable, Passes
<1>7. HashUnique' BY DEF HashInv, HashUnique, Passes
<1> QED BY <1>2, <1>3, <1>4, <1>5, <1>6, <1>7 DEF HashInv

\* Steps of the asynchronous commands that leave the hash alone.
LEMMA AsyncMoves ==
  ASSUME TypeInv, NEW t \in Thread,
         AsyncRaMiss(t) \/ AsyncRaFound(t) \/ AsyncRaHit(t) \/ AsyncRaDel(t)
           \/ AsyncRaPut(t) \/ AsyncWake(t) \/ AsyncFullSet(t) \/ AsyncFullWait(t)
  PROVE  Moves(t)
<1> USE DEF TypeInv, Moves, Early, reqVars, hashVars, memqVars, subVars, compVars,
            devVars, histVars
<1>0. pc \in [Thread -> ThreadPc] /\ me \in [Thread -> Ptr] /\ buf \in [Thread -> Ptr]
  BY DEF ThrInv, ThrOK
<1>1. CASE AsyncRaMiss(t) BY <1>0, <1>1 DEF AsyncRaMiss, Goto, Unusable
<1>2. CASE AsyncRaFound(t) BY <1>0, <1>2 DEF AsyncRaFound, Goto, Unusable
<1>3. CASE AsyncRaHit(t) BY <1>0, <1>3 DEF AsyncRaHit, Goto, Return, Unusable
<1>4. CASE AsyncRaDel(t) BY <1>0, <1>4 DEF AsyncRaDel, TakeReadahead, Goto, Unusable
<1>5. CASE AsyncRaPut(t) BY <1>0, <1>5 DEF AsyncRaPut, Goto, Unusable
<1>6. CASE AsyncWake(t) BY <1>0, <1>6 DEF AsyncWake, Goto, Return, Unusable
<1>7. CASE AsyncFullSet(t) BY <1>0, <1>7 DEF AsyncFullSet, Goto, Unusable
<1>8. CASE AsyncFullWait(t) BY <1>0, <1>8 DEF AsyncFullWait, Return, Unusable
<1> QED BY <1>1, <1>2, <1>3, <1>4, <1>5, <1>6, <1>7, <1>8

\* Steps of the synchronous commands that leave the hash alone.
LEMMA SyncMoves ==
  ASSUME TypeInv, NEW t \in Thread,
         SyncReadahead(t) \/ SyncReadaheadPut(t) \/ SyncFindNone(t) \/ SyncWait(t)
           \/ SyncReadBlocking(t) \/ SyncWaitBlocking(t) \/ SyncIssue(t)
  PROVE  Moves(t)
<1> USE DEF TypeInv, Moves, Early, reqVars, hashVars, memqVars, subVars, compVars,
            devVars, histVars
<1>0. pc \in [Thread -> ThreadPc] /\ me \in [Thread -> Ptr] /\ buf \in [Thread -> Ptr]
  BY DEF ThrInv, ThrOK
<1>1. CASE SyncReadahead(t) BY <1>0, <1>1 DEF SyncReadahead, TakeReadahead, Goto, Unusable
<1>2. CASE SyncReadaheadPut(t) BY <1>0, <1>2 DEF SyncReadaheadPut, Goto, Return, Unusable
<1>3. CASE SyncFindNone(t) BY <1>0, <1>3 DEF SyncFindNone, Goto, Unusable
<1>4. CASE SyncWait(t) BY <1>0, <1>4 DEF SyncWait, Goto, Unusable
<1>5. CASE SyncReadBlocking(t) BY <1>0, <1>5 DEF SyncReadBlocking, Goto, Unusable
<1>6. CASE SyncWaitBlocking(t) BY <1>0, <1>6 DEF SyncWaitBlocking, Goto, Unusable
<1>7. CASE SyncIssue(t) BY <1>0, <1>7 DEF SyncIssue, Return, Unusable
<1> QED BY <1>1, <1>2, <1>3, <1>4, <1>5, <1>6, <1>7

\* Steps of the flush commands that leave the hash alone.
LEMMA FlushMoves ==
  ASSUME TypeInv, NEW t \in Thread,
         FlushNone(t) \/ FlushFind(t) \/ FlushMark(t) \/ FlushCompleted(t)
           \/ FlushPush(t) \/ FlushDrain(t) \/ FlushDone(t) \/ FlushAllEmpty(t)
           \/ FlushAllPick(t) \/ FlushAllDone(t)
  PROVE  Moves(t)
<1> USE DEF TypeInv, Moves, Early, reqVars, hashVars, memqVars, subVars, compVars,
            devVars, histVars
<1>0. pc \in [Thread -> ThreadPc] /\ me \in [Thread -> Ptr] /\ buf \in [Thread -> Ptr]
  BY DEF ThrInv, ThrOK
<1>1. CASE FlushNone(t) BY <1>0, <1>1 DEF FlushNone, Return, Unusable
<1>2. CASE FlushFind(t) BY <1>0, <1>2 DEF FlushFind, Goto, Unusable
<1>3. CASE FlushMark(t)
  <2>1. \A r \in OpId : bits'[r] \subseteq bits[r] \cup {"flush_wakeup"}
    BY <1>3 DEF FlushMark, AskWakeup, ReqOK
  <2>2. \A r \in OpId : Unusable(r)' => Unusable(r) BY <2>1 DEF Unusable
  <2> QED BY <1>0, <1>3, <2>2 DEF FlushMark, Goto
<1>4. CASE FlushCompleted(t) BY <1>0, <1>4 DEF FlushCompleted, Return, Unusable
<1>5. CASE FlushPush(t) BY <1>0, <1>5 DEF FlushPush, Goto, Unusable
<1>6. CASE FlushDrain(t) BY <1>0, <1>6 DEF FlushDrain, Goto, Unusable
<1>7. CASE FlushDone(t) BY <1>0, <1>7 DEF FlushDone, Return, Unusable
<1>8. CASE FlushAllEmpty(t) BY <1>0, <1>8 DEF FlushAllEmpty, Return, Unusable
<1>9. CASE FlushAllPick(t)
  <2>1. \A r \in OpId : bits'[r] \subseteq bits[r] \cup {"flush_wakeup"}
    BY <1>9 DEF FlushAllPick, AskWakeup, ReqOK
  <2>2. \A r \in OpId : Unusable(r)' => Unusable(r) BY <2>1 DEF Unusable
  <2> QED BY <1>0, <1>9, <2>2 DEF FlushAllPick, Goto
<1>10. CASE FlushAllDone(t) BY <1>0, <1>10 DEF FlushAllDone, Return, Unusable
<1> QED BY <1>1, <1>2, <1>3, <1>4, <1>5, <1>6, <1>7, <1>8, <1>9, <1>10
\* Entering an ioctl.
LEMMA NewCmdKeep ==
  ASSUME TypeInv, HashInv, NEW t \in Thread, NEW kind, NEW k \in Key, NEW o \in Opcode,
         NEW label \in {"insert", "ra_check", "s_ra", "f_find", "fa_push"},
         NewCmd(t, kind, k, o), Goto(t, label),
         UNCHANGED <<bits, hashVars, memqVars, buf, subVars, compVars, devVars>>
  PROVE  HashInv'
<1> DEFINE n == nops + 1
<1>1. n \in OpId /\ nops \in Int /\ nops < n
  BY ConstantsAssumption DEF NewCmd, TypeInv, HistOK, OpId, Ptr
<1>2. /\ nops' = n /\ key' = [key EXCEPT ![n] = k] /\ me' = [me EXCEPT ![t] = n]
      /\ pc' = [pc EXCEPT ![t] = label] /\ pc[t] = "idle"
  BY DEF NewCmd, Goto
<1> HIDE DEF n
<1>3. /\ pc \in [Thread -> ThreadPc] /\ me \in [Thread -> Ptr]
      /\ key \in [OpId -> Key] /\ Ptr \subseteq Int
  BY Facts DEF TypeInv, ThrInv, ThrOK, ReqOK
<1>4. Inserted \subseteq Inserted'
  <2>1. nops' \in Int /\ nops <= nops' BY <1>1, <1>2 DEF n
  <2>2. \A u \in Thread : pc'[u] \in Early =>
            (pc[u] \in Early /\ me'[u] = me[u]) \/ me'[u] = nops + 1
    BY <1>2, <1>3 DEF n
  <2> QED BY <2>1, <2>2, InsertedGrows
<1>5. n \notin rqHash /\ rqHash \subseteq OpId
  <2>1. n \notin Inserted
    <3>1. ~(n <= nops) BY <1>1 DEF n
    <3> QED BY <3>1 DEF Inserted
  <2>2. Inserted \subseteq OpId BY DEF Inserted
  <2> QED BY <2>1, <2>2 DEF HashInv, InsertedFirst
<1>6. \A r \in rqHash : key'[r] = key[r]
  <2>1. \A r \in OpId : r # n => key'[r] = key[r] BY <1>1, <1>2, <1>3
  <2> QED BY <1>5, <2>1
<1>7. \A u \in Thread : u # t => pc'[u] = pc[u] /\ me'[u] = me[u]
  BY <1>2, <1>3
<1>8. \A u \in Thread : pc[u] # "idle" => me[u] <= nops /\ me[u] # n
  <2>1. \A u \in Thread : me[u] \in Int BY <1>3
  <2>2. \A u \in Thread : pc[u] # "idle" => me[u] <= nops BY DEF HashInv, OwnCommand
  <2>3. \A i \in Int : i <= nops => i # n BY <1>1 DEF n
  <2> QED BY <2>1, <2>2, <2>3
<1>9. OwnCommand'
  <2>1. \A u \in Thread : pc'[u] # "idle" => me'[u] <= nops'
    <3>1. me'[t] = n /\ n <= n BY <1>1, <1>2, <1>3 DEF n
    <3>2. \A i \in Int : i <= nops => i <= n BY <1>1 DEF n
    <3>3. \A u \in Thread : me[u] \in Int BY <1>3
    <3> QED BY <1>2, <1>7, <1>8, <3>1, <3>2, <3>3
  <2>2. ASSUME NEW u \in Thread, NEW v \in Thread, u # v, pc'[u] # "idle", pc'[v] # "idle"
        PROVE  me'[u] # me'[v]
    <3>1. me'[t] = n BY <1>2, <1>3
    <3>2. CASE u = t BY <1>7, <1>8, <2>2, <3>1, <3>2
    <3>3. CASE v = t BY <1>7, <1>8, <2>2, <3>1, <3>3
    <3>4. CASE u # t /\ v # t BY <1>7, <2>2, <3>4 DEF HashInv, OwnCommand
    <3> QED BY <3>2, <3>3, <3>4
  <2> QED BY <2>1, <2>2 DEF OwnCommand
<1>10. InsertedFirst'
  <2>1. /\ rqHash \subseteq Inserted'
        /\ devQ \subseteq Inserted'
        /\ \A r \in OpId : Unusable(r) => r \in Inserted'
        /\ fifo \in Seq(Inserted')
        /\ mrq \in [Memq -> Seq(Inserted')]
        /\ compCur \in Inserted' \cup {NULL}
        /\ subRq \in [Type -> Inserted' \cup {NULL}]
    BY <1>4, PlacesMono
  <2>2. \A r \in OpId : Unusable(r)' => Unusable(r) BY DEF Unusable
  <2> QED BY <2>1, <2>2 DEF InsertedFirst, hashVars, memqVars, subVars, compVars, devVars
<1>11. BucketHeld'
  <2> SUFFICES ASSUME NEW u \in Thread, pc'[u] \in {"ins_lock", "s_lock"}
               PROVE  /\ hashLock'[key'[me'[u]]] = u
                      /\ buf'[u] \in rqHash'
                      /\ key'[buf'[u]] = key'[me'[u]]
    BY DEF BucketHeld
  <2>1. u # t BY <1>2, <1>3
  <2>2. pc[u] = pc'[u] /\ me'[u] = me[u] /\ me[u] # n BY <1>7, <1>8, <2>1
  <2>3. me[u] \in OpId BY <2>2 DEF TypeInv, ThrInv
  <2>4. key'[me[u]] = key[me[u]] BY <1>2, <1>3, <2>2, <2>3
  <2> QED BY <1>6, <2>2, <2>4 DEF HashInv, BucketHeld, hashVars
<1>12. UnhashedFirst' BY DEF HashInv, UnhashedFirst, hashVars, compVars
<1>13. HashUsable' BY DEF HashInv, HashUsable, Unusable, hashVars
<1>14. HashUnique' BY <1>6 DEF HashInv, HashUnique, hashVars
<1> QED BY <1>9, <1>10, <1>11, <1>12, <1>13, <1>14 DEF HashInv

\* No command that enters the driver disturbs the hash.
LEMMA InvokeKeep ==
  ASSUME TypeInv, HashInv, NEW t \in Thread, Invoke(t)
  PROVE  HashInv'
<1>1. ASSUME NEW k \in Key, NEW o \in AsyncOps, AsyncWriteCmd(t, k, o) PROVE HashInv'
  BY <1>1, OpsAssumption, NewCmdKeep DEF AsyncWriteCmd
<1>2. ASSUME NEW k \in Key, AsyncGetCmd(t, k) PROVE HashInv'
  BY <1>2, NewCmdKeep DEF AsyncGetCmd, Opcode
<1>3. ASSUME NEW k \in Key, NEW o \in SyncOps, SyncCmd(t, k, o) PROVE HashInv'
  BY <1>3, OpsAssumption, NewCmdKeep DEF SyncCmd
<1>4. ASSUME NEW k \in Key, NEW o \in FlushOps, FlushKeyCmd(t, k, o) PROVE HashInv'
  BY <1>4, OpsAssumption, NewCmdKeep DEF FlushKeyCmd
<1>5. ASSUME NEW o \in FlushAllOps, FlushAllCmd(t, o) PROVE HashInv'
  <2>1. nops + 1 \in OpId
    BY <1>5, ConstantsAssumption DEF FlushAllCmd, NewCmd, TypeInv, HistOK, OpId, Ptr
  <2>2. key[nops + 1] \in Key BY <2>1 DEF TypeInv, ReqOK
  <2> QED BY <1>5, <2>2, OpsAssumption, NewCmdKeep DEF FlushAllCmd
<1> QED BY <1>1, <1>2, <1>3, <1>4, <1>5 DEF Invoke

-----------------------------------------------------------------------------
(* The daemons and the device. *)

\* The scheduling and submission daemons pass on what is in their queues.
LEMMA SubmitPasses ==
  ASSUME TypeInv, HashInv, NEW y \in Type, Schedule(y) \/ SubmitStep(y)
  PROVE  Passes
<1> USE DEF TypeInv, HashInv, InsertedFirst, UnhashedFirst, Passes, reqVars, hashVars,
            memqVars, thrVars, subVars, compVars, devVars, histVars
<1>1. CASE Schedule(y) BY <1>1 DEF Schedule, Unusable
<1>2. CASE SubmitStart(y) BY <1>2 DEF SubmitStart, Unusable
<1>3. CASE SubmitEnd(y) BY <1>3 DEF SubmitEnd, Unusable
<1>4. CASE SubmitPark(y) BY <1>4 DEF SubmitPark, Unusable
<1>5. CASE SubmitKick(y) BY <1>5 DEF SubmitKick, Unusable
<1>6. CASE SubmitSleep(y) BY <1>6 DEF SubmitSleep, Unusable
<1>7. CASE SubmitTake(y) BY <1>7 DEF SubmitTake, Unusable
<1>8. CASE SubmitCongested(y) BY <1>8 DEF SubmitCongested, Unusable
<1>9. CASE SubmitDone(y) BY <1>9 DEF SubmitDone, Unusable
<1>10. CASE SubmitResume(y)
  <2>1. subRq[y] \in Inserted
    BY <1>10, Facts DEF SubmitResume, SubInv
  <2>2. subRq' \in [Type -> Inserted \cup {NULL}] BY <1>10 DEF SubmitResume
  <2> QED BY <1>10, <2>1, <2>2 DEF SubmitResume, Unusable
<1>11. CASE SubmitInvalid(y)
  <2> DEFINE m == subCur[y]  r == Head(mrq[m])
  <2>1. m \in Memq BY <1>11 DEF SubmitInvalid, SubInv
  <2>2. r \in Inserted /\ Tail(mrq[m]) \in Seq(Inserted)
    BY <1>11, <2>1, SeqFacts DEF SubmitInvalid
  <2>3. mrq' \in [Memq -> Seq(Inserted)] BY <1>11, <2>1, <2>2 DEF SubmitInvalid
  <2>4. \A x \in OpId : Unusable(x)' => Unusable(x)
    BY <1>11 DEF SubmitInvalid, ReqOK, Unusable
  <2> QED BY <1>11, <2>3, <2>4 DEF SubmitInvalid
<1>12. CASE SubmitRq(y)
  <2> DEFINE m == subCur[y]  r == Head(mrq[m])
  <2>1. m \in Memq BY <1>12 DEF SubmitRq, SubInv
  <2>2. r \in Inserted /\ Tail(mrq[m]) \in Seq(Inserted)
    BY <1>12, <2>1, SeqFacts DEF SubmitRq
  <2>3. mrq' \in [Memq -> Seq(Inserted)] BY <1>12, <2>1, <2>2 DEF SubmitRq
  <2>4. \A x \in OpId : Unusable(x)' => Unusable(x)
    BY <1>12 DEF SubmitRq, ReqOK, Unusable
  <2>5. devQ' \subseteq Inserted BY <1>12, <2>2 DEF SubmitRq
  <2>6. subRq' \in [Type -> Inserted \cup {NULL}] BY <1>12, <2>2 DEF SubmitRq
  <2> QED BY <1>12, <2>3, <2>4, <2>5, <2>6 DEF SubmitRq
<1> QED BY <1>1, <1>2, <1>3, <1>4, <1>5, <1>6, <1>7, <1>8, <1>9, <1>10, <1>11, <1>12
        DEF SubmitStep

\* The device and its interrupt.
LEMMA DevicePasses ==
  ASSUME TypeInv, HashInv, NEW r \in OpId, DeviceExec(r)
  PROVE  Passes
<1> USE DEF TypeInv, HashInv, InsertedFirst, UnhashedFirst, Passes, reqVars, hashVars,
            memqVars, thrVars, subVars, compVars, devVars, histVars
<1>1. r \in Inserted BY DEF DeviceExec
<1>2. fifo' \in Seq(Inserted) BY <1>1 DEF DeviceExec
<1> QED BY <1>2 DEF DeviceExec, Unusable

\* The end of the interrupt handler.
LEMMA InterruptPasses ==
  ASSUME TypeInv, HashInv, InterruptWake
  PROVE  Passes
<1> USE DEF TypeInv, HashInv, InsertedFirst, UnhashedFirst, Passes, reqVars, hashVars,
            memqVars, thrVars, subVars, compVars, devVars, histVars
<1> QED BY DEF InterruptWake, Unusable

\* The completion daemon, except when it unhashes.
LEMMA CompletePasses ==
  ASSUME TypeInv, HashInv, CompleteStep, ~CompleteUnhash
  PROVE  Passes
<1> USE DEF TypeInv, HashInv, InsertedFirst, UnhashedFirst, Passes, reqVars, hashVars,
            memqVars, thrVars, subVars, compVars, devVars, histVars
<1>1. CASE CompleteStart BY <1>1 DEF CompleteStart, Unusable
<1>2. CASE CompleteDequeue
  <2>1. Head(fifo) \in Inserted /\ Tail(fifo) \in Seq(Inserted)
    BY <1>2, SeqFacts DEF CompleteDequeue
  <2> QED BY <1>2, <2>1 DEF CompleteDequeue, Unusable
<1>3. CASE CompleteLowWatermark BY <1>3 DEF CompleteLowWatermark, Unusable
<1>4. CASE CompleteLock
  <2>1. compCur \in OpId /\ compCur \in Inserted /\ compCur \notin rqHash
    BY <1>4, Facts DEF CompleteLock, CompInv
  <2>2. \A x \in OpId : x # compCur => bits'[x] = bits[x]
    BY <1>4, <2>1 DEF CompleteLock, ReqOK
  <2>3. \A x \in OpId : Unusable(x)' => Unusable(x) \/ (x \in Inserted /\ x \notin rqHash)
    BY <2>1, <2>2 DEF Unusable
  <2>4. compPc' \notin {"low", "lock"} BY <1>4 DEF CompleteLock, AfterSignal
  <2> QED BY <1>4, <2>3, <2>4 DEF CompleteLock
<1>5. CASE CompleteDuplicate
  <2>1. \A x \in OpId : bits'[x] \subseteq bits[x]
    BY <1>5 DEF CompleteDuplicate, Signalled, ReqOK
  <2>2. \A x \in OpId : Unusable(x)' => Unusable(x) BY <2>1 DEF Unusable
  <2>3. compPc' \notin {"low", "lock"} BY <1>5 DEF CompleteDuplicate, AfterSignal
  <2> QED BY <1>5, <2>2, <2>3 DEF CompleteDuplicate
<1>6. CASE CompleteFindPending BY <1>6 DEF CompleteFindPending, Unusable
<1>7. CASE CompleteUnblock BY <1>7 DEF CompleteUnblock, Unusable
<1>8. CASE CompleteFini BY <1>8 DEF CompleteFini, Unusable
<1>9. CASE \E y \in Type : CompleteWake(y) BY <1>9 DEF CompleteWake, Unusable
<1> QED BY <1>1, <1>2, <1>3, <1>4, <1>5, <1>6, <1>7, <1>8, <1>9 DEF CompleteStep

\* kv_hash_delete needs the bucket lock, so nobody waits for the request.
LEMMA CompleteUnhashKeep ==
  ASSUME TypeInv, HashInv, CompleteUnhash
  PROVE  HashInv'
<1> USE DEF thrVars, reqVars, memqVars, subVars, devVars, histVars
<1>1. /\ UNCHANGED <<key, hashLock, bits, pc, me, buf, nops, mrq, devQ, fifo, compCur, subRq>>
      /\ rqHash' = rqHash \ {compCur} /\ hashLock[key[compCur]] = "none"
  BY DEF CompleteUnhash
<1>2. Inserted' = Inserted BY <1>1 DEF Inserted
<1>3. OwnCommand' BY <1>1 DEF HashInv, OwnCommand
<1>4. InsertedFirst' BY <1>1, <1>2 DEF HashInv, InsertedFirst, Unusable
<1>5. BucketHeld'
  <2> SUFFICES ASSUME NEW u \in Thread, pc[u] \in {"ins_lock", "s_lock"}
               PROVE  /\ hashLock[key[me[u]]] = u
                      /\ buf[u] \in rqHash \ {compCur}
                      /\ key[buf[u]] = key[me[u]]
    BY <1>1 DEF BucketHeld
  <2>1. u # "none" BY ConstantsAssumption
  <2> QED BY <1>1, <2>1 DEF HashInv, BucketHeld
<1>6. UnhashedFirst' BY <1>1 DEF UnhashedFirst
<1>7. HashUsable' BY <1>1 DEF HashInv, HashUsable, Unusable
<1>8. HashUnique' BY <1>1 DEF HashInv, HashUnique
<1> QED BY <1>3, <1>4, <1>5, <1>6, <1>7, <1>8 DEF HashInv

-----------------------------------------------------------------------------
(* Steps of a thread that find, insert or remove a request. *)

\* kv_hash_insert and kv_hash_find_and_lock find a request and keep the bucket.
TakesBucket(t, from, label) ==
    /\ UNCHANGED <<key, rqHash, mrq, fifo, devQ, compCur, compPc, subRq, nops, bits, me>>
    /\ pc[t] = from
    /\ hashLock[key[me[t]]] = "none"
    /\ hashLock' = [hashLock EXCEPT ![key[me[t]]] = t]
    /\ pc' = [pc EXCEPT ![t] = label]
    /\ buf'[t] \in Hashed(rqHash, key[me[t]])
    /\ \A u \in Thread \ {t} : buf'[u] = buf[u]

\* Such a step preserves the invariant: the bucket was free.
LEMMA TakesBucketKeep ==
  ASSUME TypeInv, HashInv, NEW t \in Thread,
         TakesBucket(t, "insert", "ins_lock") \/ TakesBucket(t, "s_find", "s_lock")
  PROVE  HashInv'
<1>1. /\ UNCHANGED <<key, rqHash, mrq, fifo, devQ, compCur, compPc, subRq, nops, bits, me>>
      /\ pc[t] # "idle" /\ (pc'[t] \in Early => pc[t] \in Early)
      /\ \A u \in Thread \ {t} : pc'[u] = pc[u] /\ buf'[u] = buf[u]
      /\ hashLock[key[me[t]]] = "none"
      /\ hashLock' = [hashLock EXCEPT ![key[me[t]]] = t]
      /\ buf'[t] \in rqHash /\ key[buf'[t]] = key[me[t]]
  BY DEF TakesBucket, Hashed, Early, TypeInv, ThrInv, ThrOK
<1>2. key[me[t]] \in Key /\ hashLock \in [Key -> Thread \cup {"none"}]
  BY <1>1 DEF TypeInv, ThrInv, ReqOK, HashOK
<1>3. Inserted \subseteq Inserted'
  <2>1. nops' \in Int /\ nops <= nops' BY <1>1, Facts DEF TypeInv, HistOK
  <2>2. \A u \in Thread : pc'[u] \in Early => pc[u] \in Early /\ me'[u] = me[u]
    BY <1>1
  <2> QED BY <2>1, <2>2, InsertedGrows
<1>4. OwnCommand' BY <1>1 DEF HashInv, OwnCommand
<1>5. InsertedFirst'
  <2>1. /\ rqHash \subseteq Inserted'
        /\ devQ \subseteq Inserted'
        /\ \A r \in OpId : Unusable(r) => r \in Inserted'
        /\ fifo \in Seq(Inserted')
        /\ mrq \in [Memq -> Seq(Inserted')]
        /\ compCur \in Inserted' \cup {NULL}
        /\ subRq \in [Type -> Inserted' \cup {NULL}]
    BY <1>3, PlacesMono
  <2> QED BY <1>1, <2>1 DEF InsertedFirst, Unusable
<1>6. BucketHeld'
  <2> SUFFICES ASSUME NEW u \in Thread, pc'[u] \in {"ins_lock", "s_lock"}
               PROVE  /\ hashLock'[key[me[u]]] = u
                      /\ buf'[u] \in rqHash
                      /\ key[buf'[u]] = key[me[u]]
    BY <1>1 DEF BucketHeld
  <2>1. CASE u = t BY <1>1, <1>2, <2>1
  <2>2. CASE u # t
    <3>1. hashLock[key[me[u]]] = u /\ buf[u] \in rqHash /\ key[buf[u]] = key[me[u]]
      BY <1>1, <2>2 DEF HashInv, BucketHeld
    <3>2. key[me[u]] # key[me[t]] BY <1>1, <3>1, ConstantsAssumption
    <3> QED BY <1>1, <1>2, <2>2, <3>1, <3>2
  <2> QED BY <2>1, <2>2
<1>7. UnhashedFirst' BY <1>1 DEF HashInv, UnhashedFirst
<1>8. HashUsable' BY <1>1 DEF HashInv, HashUsable, Unusable
<1>9. HashUnique' BY <1>1 DEF HashInv, HashUnique
<1> QED BY <1>4, <1>5, <1>6, <1>7, <1>8, <1>9 DEF HashInv

\* A thread that is done with the request it found releases the bucket, and may
\* have invalidated and unhashed the request.
Releases(t) ==
    /\ UNCHANGED <<key, mrq, fifo, devQ, compCur, compPc, subRq, nops>>
    /\ pc[t] \in {"ins_lock", "s_lock"}
    /\ hashLock' = [hashLock EXCEPT ![key[me[t]]] = "none"]
    /\ rqHash' = rqHash \/ rqHash' = rqHash \ {buf[t]}
    /\ \A r \in OpId : Unusable(r)' => Unusable(r) \/ (r = buf[t] /\ r \notin rqHash')
    /\ \A u \in Thread \ {t} : pc'[u] = pc[u] /\ me'[u] = me[u] /\ buf'[u] = buf[u]
    /\ pc'[t] \notin {"ins_lock", "s_lock"} \cup Early
    /\ pc'[t] # "idle" => me'[t] = me[t]

\* Such a step preserves the invariant: the thread held the bucket.
LEMMA ReleasesKeep ==
  ASSUME TypeInv, HashInv, NEW t \in Thread, Releases(t)
  PROVE  HashInv'
<1>1. /\ hashLock[key[me[t]]] = t /\ buf[t] \in rqHash /\ key[buf[t]] = key[me[t]]
      /\ pc[t] # "idle"
  BY DEF Releases, HashInv, BucketHeld
<1>2. key[me[t]] \in Key /\ hashLock \in [Key -> Thread \cup {"none"}]
  BY <1>1 DEF TypeInv, ThrInv, ReqOK, HashOK
<1>3. Inserted \subseteq Inserted'
  <2>1. nops' \in Int /\ nops <= nops' BY Facts DEF Releases, TypeInv, HistOK
  <2>2. \A u \in Thread : pc'[u] \in Early => pc[u] \in Early /\ me'[u] = me[u]
    BY DEF Releases
  <2> QED BY <2>1, <2>2, InsertedGrows
<1>4. OwnCommand' BY <1>1 DEF HashInv, OwnCommand, Releases
<1>5. InsertedFirst'
  <2>1. /\ rqHash \subseteq Inserted'
        /\ devQ \subseteq Inserted'
        /\ \A r \in OpId : Unusable(r) => r \in Inserted'
        /\ fifo \in Seq(Inserted')
        /\ mrq \in [Memq -> Seq(Inserted')]
        /\ compCur \in Inserted' \cup {NULL}
        /\ subRq \in [Type -> Inserted' \cup {NULL}]
    BY <1>3, PlacesMono
  <2>2. rqHash' \subseteq Inserted' BY <2>1 DEF Releases
  <2>3. \A r \in OpId : Unusable(r)' => r \in Inserted' BY <1>1, <2>1 DEF Releases
  <2> QED BY <2>1, <2>2, <2>3 DEF InsertedFirst, Releases
<1>6. BucketHeld'
  <2> SUFFICES ASSUME NEW u \in Thread, pc'[u] \in {"ins_lock", "s_lock"}
               PROVE  /\ hashLock'[key'[me'[u]]] = u
                      /\ buf'[u] \in rqHash'
                      /\ key'[buf'[u]] = key'[me'[u]]
    BY DEF BucketHeld
  <2>1. u # t BY DEF Releases
  <2>2. pc'[u] = pc[u] /\ me'[u] = me[u] /\ buf'[u] = buf[u] BY <2>1 DEF Releases
  <2>3. hashLock[key[me[u]]] = u /\ buf[u] \in rqHash /\ key[buf[u]] = key[me[u]]
    BY <2>2 DEF HashInv, BucketHeld
  <2>4. key[me[u]] # key[me[t]] /\ buf[u] # buf[t] BY <1>1, <2>1, <2>3
  <2>5. hashLock'[key[me[u]]] = u BY <1>2, <2>3, <2>4 DEF Releases
  <2> QED BY <2>2, <2>3, <2>4, <2>5 DEF Releases
<1>7. UnhashedFirst' BY DEF HashInv, UnhashedFirst, Releases
<1>8. HashUsable'
  <2>1. rqHash \subseteq OpId BY DEF TypeInv, HashOK
  <2> QED BY <2>1 DEF HashInv, HashUsable, Releases
<1>9. HashUnique' BY DEF HashInv, HashUnique, Releases
<1> QED BY <1>4, <1>5, <1>6, <1>7, <1>8, <1>9 DEF HashInv

\* The request of a thread that inserts it is new to everyone else, and is
\* inserted when the thread goes on.
LEMMA NewInserted ==
  ASSUME TypeInv, HashInv, NEW t \in Thread, pc[t] \in {"insert", "ins_lock"},
         NEW label \in {"ra_del", "wake"}, Goto(t, label), UNCHANGED <<me, nops>>
  PROVE  /\ me[t] \in OpId /\ me[t] \notin Inserted
         /\ Inserted \subseteq Inserted' /\ me[t] \in Inserted'
         /\ OwnCommand'
         /\ \A u \in Thread \ {t} : pc'[u] = pc[u]
         /\ pc'[t] = label
<1>1. pc \in [Thread -> ThreadPc] /\ pc' = [pc EXCEPT ![t] = label]
  BY DEF TypeInv, ThrInv, ThrOK, Goto
<1>2. pc'[t] = label /\ \A u \in Thread \ {t} : pc'[u] = pc[u] BY <1>1
<1>3. me[t] \in OpId BY DEF TypeInv, ThrInv
<1>4. me[t] \notin Inserted BY DEF Inserted, Early
<1>5. Inserted \subseteq Inserted'
  <2>1. nops' \in Int /\ nops <= nops' BY Facts DEF TypeInv, HistOK
  <2>2. \A u \in Thread : pc'[u] \in Early => pc[u] \in Early /\ me'[u] = me[u]
    BY <1>2 DEF Early
  <2> QED BY <2>1, <2>2, InsertedGrows
<1>6. me[t] \in Inserted'
  <2>1. me[t] <= nops' BY DEF HashInv, OwnCommand
  <2>2. \A u \in Thread : pc'[u] \in Early => me'[u] # me[t]
    BY <1>2 DEF HashInv, OwnCommand, Early
  <2> QED BY <1>3, <2>1, <2>2 DEF Inserted
<1>7. OwnCommand' BY <1>2 DEF HashInv, OwnCommand
<1> QED BY <1>2, <1>3, <1>4, <1>5, <1>6, <1>7

\* Enqueueing keeps the queues within a set that holds the request.
LEMMA EnqueuePlace ==
  ASSUME TypeInv, NEW n \in OpId, NEW p \in BOOLEAN, Enqueue(n, p),
         NEW T, mrq \in [Memq -> Seq(T)], n \in T
  PROVE  mrq' \in [Memq -> Seq(T)]
<1> DEFINE m == active[TypeOf(opc[n])]
<1>1. m \in Memq BY DEF TypeInv, MemqOK, TypeOf, Type
<1>2. mrq[m] \in Seq(T) BY <1>1
<1>3. <<n>> \o mrq[m] \in Seq(T) BY <1>2
<1> QED BY <1>1, <1>3 DEF Enqueue

\* A request enters the hash: nothing with its key is there, or what was there
\* (buf[t], in flight) is displaced and marked by the thread that holds the bucket.
LEMMA JoinsKeep ==
  ASSUME TypeInv, HashInv, NEW t \in Thread, NEW label \in {"ra_del", "wake"},
         NEW pending \in BOOLEAN, NEW old \in SUBSET rqHash,
         pc[t] \in {"insert", "ins_lock"}, Goto(t, label), UNCHANGED <<me, nops>>,
         Enqueue(me[t], pending),
         old = Hashed(rqHash, key[me[t]]),
         rqHash' = (rqHash \ old) \cup {me[t]},
         UNCHANGED <<key, fifo, devQ, compCur, compPc, subRq>>,
         \A r \in OpId : Unusable(r)' => Unusable(r) \/ r \in old,
         \A u \in Thread \ {t} : buf'[u] = buf[u],
         \A u \in Thread \ {t} : pc[u] \in {"ins_lock", "s_lock"} =>
            hashLock'[key[me[u]]] = u /\ key[me[u]] # key[me[t]]
  PROVE  HashInv'
<1> DEFINE n == me[t]
<1>1. /\ n \in OpId /\ n \notin Inserted
      /\ Inserted \subseteq Inserted' /\ n \in Inserted'
      /\ OwnCommand'
      /\ \A u \in Thread \ {t} : pc'[u] = pc[u]
      /\ pc'[t] = label
  BY NewInserted
<1>2. n \notin rqHash /\ ~Unusable(n) /\ compCur # n
  <2>1. n \notin rqHash BY <1>1 DEF HashInv, InsertedFirst
  <2>2. ~Unusable(n) BY <1>1 DEF HashInv, InsertedFirst
  <2>3. compCur # n BY <1>1, Facts DEF HashInv, InsertedFirst
  <2> QED BY <2>1, <2>2, <2>3
<1>3. rqHash \subseteq OpId BY DEF TypeInv, HashOK
<1>4. InsertedFirst'
  <2>1. /\ rqHash \subseteq Inserted'
        /\ devQ \subseteq Inserted'
        /\ \A r \in OpId : Unusable(r) => r \in Inserted'
        /\ fifo \in Seq(Inserted')
        /\ mrq \in [Memq -> Seq(Inserted')]
        /\ compCur \in Inserted' \cup {NULL}
        /\ subRq \in [Type -> Inserted' \cup {NULL}]
    BY <1>1, PlacesMono
  <2>2. mrq' \in [Memq -> Seq(Inserted')] BY <1>1, <2>1, EnqueuePlace
  <2>3. rqHash' \subseteq Inserted' BY <1>1, <2>1
  <2>4. \A r \in OpId : Unusable(r)' => r \in Inserted' BY <2>1
  <2> QED BY <2>1, <2>2, <2>3, <2>4 DEF InsertedFirst
<1>5. BucketHeld'
  <2> SUFFICES ASSUME NEW u \in Thread, pc'[u] \in {"ins_lock", "s_lock"}
               PROVE  /\ hashLock'[key[me[u]]] = u
                      /\ buf'[u] \in rqHash'
                      /\ key[buf'[u]] = key[me[u]]
    BY DEF BucketHeld
  <2>1. u # t BY <1>1
  <2>2. pc[u] \in {"ins_lock", "s_lock"} /\ buf'[u] = buf[u] BY <1>1, <2>1
  <2>3. buf[u] \in rqHash /\ key[buf[u]] = key[me[u]] BY <2>2 DEF HashInv, BucketHeld
  <2>4. hashLock'[key[me[u]]] = u /\ key[me[u]] # key[n] BY <2>1, <2>2
  <2>5. buf[u] \notin old BY <2>3, <2>4 DEF Hashed
  <2> QED BY <2>2, <2>3, <2>4, <2>5
<1>6. UnhashedFirst' BY <1>2 DEF HashInv, UnhashedFirst
<1>7. HashUsable' BY <1>1, <1>2, <1>3 DEF HashInv, HashUsable
<1>8. HashUnique' BY DEF HashInv, HashUnique, Hashed
<1> QED BY <1>1, <1>4, <1>5, <1>6, <1>7, <1>8 DEF HashInv

\* The steps of the asynchronous commands.
LEMMA AsyncKeep ==
  ASSUME TypeInv, HashInv, NEW t \in Thread, AsyncStep(t)
  PROVE  HashInv'
<1> USE DEF reqVars, hashVars, memqVars, subVars, compVars, devVars, histVars
<1>1. CASE AsyncInsertNew(t)
  <2>1. AfterEnqueue(me[t]) \in {"ra_del", "wake"} BY DEF AfterEnqueue
  <2>2. \A u \in Thread : pc[u] \in {"ins_lock", "s_lock"} =>
            hashLock[key[me[u]]] = u /\ key[me[u]] # key[me[t]]
    BY <1>1, ConstantsAssumption DEF AsyncInsertNew, HashInv, BucketHeld
  <2>3. \A r \in OpId : Unusable(r)' => Unusable(r) BY <1>1 DEF AsyncInsertNew, Unusable
  <2>4. rqHash' = (rqHash \ {}) \cup {me[t]} BY <1>1 DEF AsyncInsertNew
  <2>5. /\ pc[t] = "insert" /\ Goto(t, AfterEnqueue(me[t])) /\ Enqueue(me[t], FALSE)
        /\ {} = Hashed(rqHash, key[me[t]])
        /\ UNCHANGED <<key, fifo, devQ, compCur, compPc, subRq, me, nops, buf, hashLock>>
    BY <1>1 DEF AsyncInsertNew
  <2> HIDE DEF reqVars, hashVars, memqVars, subVars, compVars, devVars, histVars
  <2> QED BY <2>1, <2>2, <2>3, <2>4, <2>5, JoinsKeep
<1>2. CASE AsyncInsertFound(t)
  <2>1. TakesBucket(t, "insert", "ins_lock")
    BY <1>2 DEF AsyncInsertFound, TakesBucket, Goto, TypeInv, ThrInv, ThrOK, HashOK,
                ReqOK
  <2> QED BY <2>1, TakesBucketKeep
<1>3. CASE AsyncInsertLocked(t)
  <2> DEFINE b == buf[t]  n == me[t]
  <2>1. /\ pc[t] = "ins_lock" /\ b \in rqHash /\ key[b] = key[n] /\ hashLock[key[n]] = t
        /\ b \in OpId /\ n \in OpId /\ key[n] \in Key
    BY <1>3 DEF AsyncInsertLocked, HashInv, BucketHeld, TypeInv, ThrInv, ReqOK
  <2>2. ~Unusable(b) BY <2>1 DEF HashInv, HashUsable
  <2>3. CASE InsertBehind(t, b)
    <3>1. AfterEnqueue(n) \in {"ra_del", "wake"} BY DEF AfterEnqueue
    <3>2. {b} = Hashed(rqHash, key[n]) BY <2>1 DEF Hashed, HashInv, HashUnique
    <3>3. \A u \in Thread \ {t} : pc[u] \in {"ins_lock", "s_lock"} =>
              hashLock'[key[me[u]]] = u /\ key[me[u]] # key[n]
      <4>1. \A u \in Thread \ {t} : pc[u] \in {"ins_lock", "s_lock"} =>
              hashLock[key[me[u]]] = u /\ key[me[u]] # key[n]
        BY <2>1 DEF HashInv, BucketHeld
      <4>2. hashLock' = [hashLock EXCEPT ![key[n]] = "none"] BY <2>3 DEF InsertBehind
      <4>3. \A u \in Thread : pc[u] \in {"ins_lock", "s_lock"} => key[me[u]] \in Key
        BY DEF TypeInv, ThrInv, ReqOK
      <4>4. hashLock \in [Key -> Thread \cup {"none"}] BY DEF TypeInv, HashOK
      <4> QED BY <4>1, <4>2, <4>3, <4>4
    <3>4. \A r \in OpId : Unusable(r)' => Unusable(r) \/ r \in {b}
      BY <2>1, <2>3 DEF InsertBehind, MarkBlocking, Unusable, TypeInv, ReqOK
    <3>5. rqHash' = (rqHash \ {b}) \cup {n} BY <2>3 DEF InsertBehind, Displace
    <3>6. /\ Goto(t, AfterEnqueue(n)) /\ Enqueue(n, TRUE)
          /\ UNCHANGED <<key, fifo, devQ, compCur, compPc, subRq, me, nops>>
      BY <1>3, <2>3 DEF AsyncInsertLocked, InsertBehind
    <3>7. \A u \in Thread \ {t} : buf'[u] = buf[u]
      BY <2>3 DEF InsertBehind, TypeInv, ThrInv, ThrOK
    <3>8. {b} \in SUBSET rqHash BY <2>1
    <3> HIDE DEF b, n, reqVars, hashVars, memqVars, subVars, compVars, devVars, histVars
    <3> QED BY <2>1, <3>1, <3>2, <3>3, <3>4, <3>5, <3>6, <3>7, <3>8, JoinsKeep DEF n
  <2>4. CASE InsertMerge(t, b)
    <3>1. Releases(t)
      BY <1>3, <2>1, <2>4 DEF AsyncInsertLocked, InsertMerge, Return, Releases, Unusable,
                              Early, TypeInv, ThrInv, ThrOK
    <3> QED BY <3>1, ReleasesKeep
  <2> QED BY <1>3, <2>2, <2>3, <2>4 DEF AsyncInsertLocked
<1> QED BY <1>1, <1>2, <1>3, AsyncMoves, MovesKeep DEF AsyncStep

\* The steps of the synchronous commands.
LEMMA SyncKeep ==
  ASSUME TypeInv, HashInv, NEW t \in Thread, SyncStep(t)
  PROVE  HashInv'
<1> USE DEF reqVars, hashVars, memqVars, subVars, compVars, devVars, histVars
<1>1. CASE SyncFind(t)
  <2>1. TakesBucket(t, "s_find", "s_lock")
    BY <1>1 DEF SyncFind, TakesBucket, Goto, TypeInv, ThrInv, ThrOK, HashOK, ReqOK
  <2> QED BY <2>1, TakesBucketKeep
<1>2. CASE SyncFindLocked(t)
  <2> DEFINE b == buf[t]
  <2>1. pc[t] = "s_lock" /\ b \in rqHash /\ b \in OpId
    BY <1>2 DEF SyncFindLocked, HashInv, BucketHeld, TypeInv, ThrInv
  <2>2. ~Unusable(b) BY <2>1 DEF HashInv, HashUsable
  <2>3. ASSUME NEW label \in {"s_wait", "s_blk"}, FindBusy(t, b, label) PROVE Releases(t)
    BY <1>2, <2>1, <2>3 DEF SyncFindLocked, FindBusy, Goto, Releases, Unusable, Early,
                            TypeInv, ThrInv, ThrOK
  <2>4. ASSUME FindBuffered(t, b) PROVE Releases(t)
    <3>1. \A r \in OpId : Unusable(r)' => Unusable(r) \/ r = b
      BY <2>1, <2>4 DEF FindBuffered, Invalidate, Unusable, TypeInv, ReqOK
    <3>2. rqHash' = rqHash \ {b} BY <2>4 DEF FindBuffered, Invalidate
    <3> QED BY <1>2, <2>1, <2>4, <3>1, <3>2 DEF SyncFindLocked, FindBuffered, Goto, Releases,
                                       Early, TypeInv, ThrInv, ThrOK
  <2>5. Releases(t) BY <1>2, <2>2, <2>3, <2>4 DEF SyncFindLocked
  <2> QED BY <2>5, ReleasesKeep
<1> QED BY <1>1, <1>2, SyncMoves, MovesKeep DEF SyncStep

-----------------------------------------------------------------------------
\* The initial state satisfies the invariant.
LEMMA HashInit == Init => HashInv
<1> SUFFICES ASSUME Init PROVE HashInv OBVIOUS
<1>1. OwnCommand BY DEF Init, OwnCommand
<1>2. InsertedFirst
  <2>1. <<>> \in Seq(Inserted) OBVIOUS
  <2>2. \A r \in OpId : ~Unusable(r) BY DEF Init, Unusable
  <2> QED BY <2>1, <2>2 DEF Init, InsertedFirst, NULL
<1>3. BucketHeld BY DEF Init, BucketHeld
<1>4. UnhashedFirst BY DEF Init, UnhashedFirst
<1>5. HashUsable BY DEF Init, HashUsable
<1>6. HashUnique BY DEF Init, HashUnique
<1> QED BY <1>1, <1>2, <1>3, <1>4, <1>5, <1>6 DEF HashInv

\* Every step preserves the invariant.
LEMMA HashStep == TypeInv /\ HashInv /\ [Next]_vars => HashInv'
<1> SUFFICES ASSUME TypeInv, HashInv, [Next]_vars
             PROVE  HashInv'
  OBVIOUS
<1>1. ASSUME UNCHANGED vars PROVE HashInv'
  <2>1. Passes
    BY <1>1 DEF Passes, HashInv, InsertedFirst, UnhashedFirst, Unusable, vars, reqVars,
                hashVars, memqVars, thrVars, subVars, compVars, devVars, histVars
  <2> QED BY <2>1, PassesKeep
<1>2. ASSUME NEW t \in Thread, Invoke(t) PROVE HashInv' BY <1>2, InvokeKeep
<1>3. ASSUME NEW t \in Thread, ThreadStep(t) PROVE HashInv'
  <2>1. CASE AsyncStep(t) BY <2>1, AsyncKeep
  <2>2. CASE SyncStep(t) BY <2>2, SyncKeep
  <2>3. CASE FlushStep(t) BY <2>3, FlushMoves, MovesKeep DEF FlushStep
  <2> QED BY <1>3, <2>1, <2>2, <2>3 DEF ThreadStep
<1>4. ASSUME NEW y \in Type, Schedule(y) \/ SubmitStep(y) PROVE HashInv'
  BY <1>4, SubmitPasses, PassesKeep
<1>5. ASSUME Device PROVE HashInv'
  BY <1>5, DevicePasses, InterruptPasses, PassesKeep DEF Device
<1>6. ASSUME CompleteStep PROVE HashInv'
  BY <1>6, CompletePasses, PassesKeep, CompleteUnhashKeep
<1>7. ASSUME Quiescent PROVE HashInv' BY <1>7, <1>1 DEF Quiescent
<1> QED BY <1>1, <1>2, <1>3, <1>4, <1>5, <1>6, <1>7 DEF Next

\* The strengthened invariants hold in every behaviour.
LEMMA HashInvariant == Spec => [](TypeInv /\ HashInv)
<1>1. Init => TypeInv /\ HashInv BY TypeInit, HashInit
<1>2. (TypeInv /\ HashInv) /\ [Next]_vars => (TypeInv /\ HashInv)' BY TypeStep, HashStep
<1> QED BY <1>1, <1>2, PTL DEF Spec

\* No lookup of kv_hash.c ever finds a completed, invalid or blocking request in
\* the request hash: the restart branches of kv_hash_insert and
\* kv_hash_find_and_lock, whose unlock would hit the wrong bucket, are dead.
THEOREM HashUsableAlways == Spec => []HashUsable
<1>1. TypeInv /\ HashInv => HashUsable BY DEF HashInv
<1> QED BY <1>1, HashInvariant, PTL

\* The request hash never holds two requests of one key, whatever the threads,
\* the daemons and the device do.
THEOREM HashUniqueAlways == Spec => []HashUnique
<1>1. TypeInv /\ HashInv => HashUnique BY DEF HashInv
<1> QED BY <1>1, HashInvariant, PTL
=============================================================================
