---------------------------- MODULE KVOrderProofs ----------------------------
(***************************************************************************)
(* Proofs about the writes of KVIosched at the device.                     *)
(*                                                                         *)
(* They reach it in an order their callers can observe (WriteOrder), as    *)
(* long as no get is synchronous.  A write is in the request hash, then on *)
(* its way to the device; no write there is older than what the device     *)
(* holds or than the one in front of it, and what a synchronous write has  *)
(* passed is not older than it.                                            *)
(*                                                                         *)
(* Without synchronous commands the asynchronous ones implement the        *)
(* write-back buffer of KVCoalesce, whatever flush commands run beside     *)
(* them: a request that the hash holds and that is not in flight is the    *)
(* waiting slot of its key, the request the device or a congested daemon   *)
(* has is the flying slot.  What is accepted last is last in the buffer,   *)
(* so a flush that waited for the request in the hash waited for           *)
(* everything that had returned before it.                                 *)
(***************************************************************************)
EXTENDS KVRefProofs

\* A write that the device, or a daemon that holds it back, has; and one in the request
\* hash that may still be replaced.
Launched(r) == IsWrite(opc[r]) /\ (r \in devQ \/ Held(r))
Waiting(r) == IsWrite(opc[r]) /\ r \in rqHash /\ "inFlight" \notin bits[r]
Pending(r) == Launched(r) \/ Waiting(r)

\* A command that a thread is in has not returned, and what had returned before a
\* command has returned.
ReturnedFirst ==
    /\ \A n \in done : n <= nops
    /\ \A t \in Thread : pc[t] # "idle" => me[t] \notin done
    /\ \A n \in OpId : before[n] \subseteq done

\* Values are commands that have been issued; a write has one.
Versions ==
    /\ \A r \in OpId : ver[r] <= nops /\ (IsWrite(opc[r]) => ver[r] # 0)
    /\ \A k \in Key : dev[k] <= nops

\* The request hash holds asynchronous commands; a command that has not entered it, and
\* a synchronous one, which is a write, still have their own value.
SyncPc == {"s_ra", "s_ra_put", "s_find", "s_lock", "s_wait", "s_blk", "s_wait_blk", "s_ra2",
           "s_ra2_put", "s_issue"}
OwnValue ==
    /\ \A r \in rqHash : cmd[r].kind = "async"
    /\ \A t \in Thread : pc[t] \in Early =>
          /\ cmd[me[t]].kind = "async" /\ cmd[me[t]].op = opc[me[t]]
          /\ IsWrite(opc[me[t]]) => ver[me[t]] = me[t]
    /\ \A t \in Thread : pc[t] \in SyncPc =>
          /\ cmd[me[t]].kind = "sync"
          /\ IsWrite(opc[me[t]]) /\ ver[me[t]] = me[t]

\* The writes of a key are in order.
Ordered ==
    /\ \A r \in OpId : Pending(r) => ~Older(ver[r], dev[key[r]])
    /\ \A u, w \in OpId :
          Launched(u) /\ Waiting(w) /\ key[u] = key[w] => ~Older(ver[w], ver[u])

\* When a synchronous write has dealt with the request it found, no write of the key is
\* left that had returned before it; while it waits for the request in flight, only that.
Passed(t, r) ==
    Pending(r) /\ key[r] = key[me[t]] => ver[r] \notin before[me[t]]
Apart(t) ==
    /\ pc[t] \in {"s_ra2", "s_ra2_put", "s_issue"} => \A r \in OpId : Passed(t, r)
    /\ pc[t] = "s_wait" =>
          /\ buf[t] \in rqHash => "inFlight" \in bits[buf[t]]
          /\ \A r \in OpId : r # buf[t] => Passed(t, r)
SyncApart == \A t \in Thread : Apart(t)

OrderInv == ReturnedFirst /\ Versions /\ OwnValue /\ Ordered /\ SyncApart

-----------------------------------------------------------------------------
(* Histories and values. *)

HistInv == ReturnedFirst /\ Versions /\ OwnValue

\* Commands go on, or return.
Continues ==
    /\ UNCHANGED <<nops, cmd, before>>
    /\ \A u \in Thread : pc'[u] # "idle" =>
          /\ me'[u] = me[u] /\ pc[u] # "idle"
          /\ pc'[u] \in Early => pc[u] \in Early
          /\ pc'[u] \in SyncPc => pc[u] \in SyncPc
    /\ done \subseteq done'
    /\ \A n \in done' : n \in done \/ \E u \in Thread :
          n = me[u] /\ pc[u] # "idle" /\ pc'[u] = "idle"

\* The values of the commands under way stay.
OwnKept ==
    \A u \in Thread : pc[u] \in Early \cup SyncPc =>
        /\ opc'[me[u]] = opc[me[u]]
        /\ IsWrite(opc[me[u]]) => ver'[me[u]] = ver[me[u]]

\* Histories and values stay right when commands go on.
LEMMA ContinuesKeep ==
  ASSUME TypeInv, HashInv, HistInv, Continues, Versions', OwnKept,
         \A r \in rqHash' : r \in rqHash \/ cmd[r].kind = "async"
  PROVE  HistInv'
<1> USE DEF HistInv
<1>1. ReturnedFirst'
  <2>1. nops' = nops /\ before' = before BY DEF Continues
  <2>2. ASSUME NEW u \in Thread, pc[u] # "idle" PROVE me[u] <= nops
    BY <2>2 DEF HashInv, OwnCommand
  <2>3. \A n \in done' : n <= nops' BY <2>1, <2>2 DEF ReturnedFirst, Continues
  <2>4. ASSUME NEW u \in Thread, pc'[u] # "idle" PROVE me'[u] \notin done'
    <3>1. me'[u] = me[u] /\ pc[u] # "idle" BY <2>4 DEF Continues
    <3>2. me[u] \notin done BY <3>1 DEF ReturnedFirst
    <3>3. ASSUME NEW v \in Thread, me[u] = me[v], pc[v] # "idle", pc'[v] = "idle" PROVE FALSE
      BY <2>4, <3>1, <3>3 DEF HashInv, OwnCommand
    <3> QED BY <3>1, <3>2, <3>3 DEF Continues
  <2>5. \A n \in OpId : before'[n] \subseteq done' BY <2>1 DEF ReturnedFirst, Continues
  <2> QED BY <2>3, <2>4, <2>5 DEF ReturnedFirst
<1>2. OwnValue'
  <2>1. cmd' = cmd BY DEF Continues
  <2>2. \A r \in rqHash' : cmd'[r].kind = "async" BY <2>1 DEF OwnValue
  <2>3. ASSUME NEW u \in Thread, pc'[u] \in Early \cup SyncPc
        PROVE  /\ me'[u] = me[u]
               /\ pc'[u] \in Early => pc[u] \in Early
               /\ pc'[u] \in SyncPc => pc[u] \in SyncPc
               /\ opc'[me[u]] = opc[me[u]]
               /\ IsWrite(opc[me[u]]) => ver'[me[u]] = ver[me[u]]
    <3>1. pc'[u] # "idle" BY <2>3 DEF Early, SyncPc
    <3> QED BY <2>3, <3>1 DEF Continues, OwnKept
  <2>4. ASSUME NEW u \in Thread, pc'[u] \in Early
        PROVE  /\ cmd'[me'[u]].kind = "async" /\ cmd'[me'[u]].op = opc'[me'[u]]
               /\ IsWrite(opc'[me'[u]]) => ver'[me'[u]] = me'[u]
    BY <2>1, <2>3, <2>4 DEF OwnValue
  <2>5. ASSUME NEW u \in Thread, pc'[u] \in SyncPc
        PROVE  cmd'[me'[u]].kind = "sync" /\ IsWrite(opc'[me'[u]]) /\ ver'[me'[u]] = me'[u]
    BY <2>1, <2>3, <2>5 DEF OwnValue
  <2> QED BY <2>2, <2>4, <2>5 DEF OwnValue
<1> QED BY <1>1, <1>2

\* Values that stay are right.
LEMMA VersionsKeep ==
  ASSUME Versions, UNCHANGED <<ver, opc, dev, nops>>
  PROVE  Versions' /\ OwnKept
BY DEF Versions, OwnKept

\* A thread goes on with its command, or returns.
Steps(t) ==
    /\ pc[t] # "idle"
    /\ UNCHANGED <<nops, cmd, before>>
    /\ \A u \in Thread \ {t} : pc'[u] = pc[u] /\ me'[u] = me[u]
    /\ \/ pc'[t] = "idle" /\ done' = done \cup {me[t]}
       \/ /\ done' = done /\ me'[t] = me[t]
          /\ pc'[t] \in Early => pc[t] \in Early
          /\ pc'[t] \in SyncPc => pc[t] \in SyncPc

\* Such a step continues every command.
LEMMA StepsContinue ==
  ASSUME NEW t \in Thread, Steps(t)
  PROVE  Continues
<1>1. \A n \in done' : n \in done \/ (n = me[t] /\ pc'[t] = "idle") BY DEF Steps
<1>2. \A u \in Thread : pc'[u] # "idle" =>
        /\ me'[u] = me[u] /\ pc[u] # "idle"
        /\ pc'[u] \in Early => pc[u] \in Early
        /\ pc'[u] \in SyncPc => pc[u] \in SyncPc
  BY DEF Steps
<1> QED BY <1>1, <1>2 DEF Steps, Continues

\* The steps of a thread in an asynchronous command.
LEMMA AsyncSteps ==
  ASSUME TypeInv, HashInv, NEW t \in Thread, AsyncStep(t)
  PROVE  Steps(t)
<1> USE DEF Steps, Goto, Return, Early, SyncPc, TypeInv, ThrInv, ThrOK, histVars, thrVars
<1>1. CASE AsyncRaMiss(t) BY <1>1 DEF AsyncRaMiss
<1>2. CASE AsyncRaFound(t) BY <1>2 DEF AsyncRaFound
<1>3. CASE AsyncRaHit(t) BY <1>3 DEF AsyncRaHit
<1>4. CASE AsyncInsertNew(t) BY <1>4 DEF AsyncInsertNew, AfterEnqueue
<1>5. CASE AsyncInsertFound(t) BY <1>5 DEF AsyncInsertFound
<1>6. CASE AsyncInsertLocked(t)
  <2>1. ~Unusable(buf[t])
    BY <1>6 DEF AsyncInsertLocked, HashInv, BucketHeld, HashUsable
  <2>2. CASE InsertBehind(t, buf[t])
    BY <1>6, <2>2 DEF AsyncInsertLocked, InsertBehind, AfterEnqueue
  <2>3. CASE InsertMerge(t, buf[t])
    BY <1>6, <2>3 DEF AsyncInsertLocked, InsertMerge
  <2> QED BY <1>6, <2>1, <2>2, <2>3 DEF AsyncInsertLocked
<1>7. CASE AsyncRaDel(t)
  <2>1. PICK label \in {"ra_put", "wake", "oops"} : Goto(t, label)
    BY <1>7 DEF AsyncRaDel, TakeReadahead
  <2> QED BY <1>7, <2>1 DEF AsyncRaDel
<1>8. CASE AsyncRaPut(t) BY <1>8 DEF AsyncRaPut
<1>9. CASE AsyncWake(t) BY <1>9 DEF AsyncWake
<1>10. CASE AsyncFullSet(t) BY <1>10 DEF AsyncFullSet
<1>11. CASE AsyncFullWait(t) BY <1>11 DEF AsyncFullWait
<1> QED BY <1>1, <1>2, <1>3, <1>4, <1>5, <1>6, <1>7, <1>8, <1>9, <1>10, <1>11 DEF AsyncStep

\* The steps of a thread in a synchronous command.
LEMMA SyncSteps ==
  ASSUME TypeInv, HashInv, NEW t \in Thread, SyncStep(t)
  PROVE  Steps(t)
<1> USE DEF Steps, Goto, Return, Early, SyncPc, TypeInv, ThrInv, ThrOK, histVars, thrVars
<1>1. CASE SyncReadahead(t)
  <2>1. PICK label \in {"s_ra_put", "s_find", "s_ra2_put", "s_issue"} : Goto(t, label)
    BY <1>1 DEF SyncReadahead, TakeReadahead
  <2>2. pc[t] \in SyncPc BY <1>1 DEF SyncReadahead
  <2> QED BY <1>1, <2>1, <2>2 DEF SyncReadahead
<1>2. CASE SyncReadaheadPut(t) BY <1>2 DEF SyncReadaheadPut
<1>3. CASE SyncFindNone(t) BY <1>3 DEF SyncFindNone
<1>4. CASE SyncFind(t) BY <1>4 DEF SyncFind
<1>5. CASE SyncFindLocked(t)
  <2>1. ~Unusable(buf[t])
    BY <1>5 DEF SyncFindLocked, HashInv, BucketHeld, HashUsable
  <2>2. PICK label \in {"s_wait", "s_blk", "s_issue"} : Goto(t, label)
    BY <1>5, <2>1 DEF SyncFindLocked, FindBusy, FindBuffered
  <2> QED BY <1>5, <2>2 DEF SyncFindLocked
<1>6. CASE SyncWait(t) BY <1>6 DEF SyncWait
<1>7. CASE SyncReadBlocking(t) BY <1>7 DEF SyncReadBlocking
<1>8. CASE SyncWaitBlocking(t) BY <1>8 DEF SyncWaitBlocking
<1>9. CASE SyncIssue(t) BY <1>9 DEF SyncIssue
<1> QED BY <1>1, <1>2, <1>3, <1>4, <1>5, <1>6, <1>7, <1>8, <1>9 DEF SyncStep

\* The steps of a thread in a flush command.
LEMMA FlushSteps ==
  ASSUME TypeInv, NEW t \in Thread, FlushStep(t)
  PROVE  Steps(t)
<1> USE DEF Steps, Goto, Return, Early, SyncPc, TypeInv, ThrInv, ThrOK, histVars, thrVars
<1>1. CASE FlushNone(t) BY <1>1 DEF FlushNone
<1>2. CASE FlushFind(t) BY <1>2 DEF FlushFind
<1>3. CASE FlushMark(t) BY <1>3 DEF FlushMark
<1>4. CASE FlushCompleted(t) BY <1>4 DEF FlushCompleted
<1>5. CASE FlushPush(t) BY <1>5 DEF FlushPush
<1>6. CASE FlushDrain(t) BY <1>6 DEF FlushDrain
<1>7. CASE FlushDone(t) BY <1>7 DEF FlushDone
<1>8. CASE FlushAllEmpty(t) BY <1>8 DEF FlushAllEmpty
<1>9. CASE FlushAllPick(t) BY <1>9 DEF FlushAllPick
<1>10. CASE FlushAllDone(t) BY <1>10 DEF FlushAllDone
<1> QED BY <1>1, <1>2, <1>3, <1>4, <1>5, <1>6, <1>7, <1>8, <1>9, <1>10 DEF FlushStep

\* A put or delete is merged into the buffered request.
Merges(t) ==
    /\ AsyncInsertLocked(t)
    /\ InsertMerge(t, buf[t])
    /\ "inFlight" \notin bits[buf[t]]

\* What a thread does to commands and values: nothing, but for a merge and for the
\* synchronous command at the device.
LEMMA ThreadValues ==
  ASSUME TypeInv, HashInv, OwnValue, NEW t \in Thread, ThreadStep(t)
  PROVE  \/ UNCHANGED <<key, opc, ver, dev>>
         \/ Merges(t)
         \/ SyncIssue(t)
<1> USE DEF reqVars, devVars
<1>1. CASE FlushStep(t)
  BY <1>1 DEF FlushStep, FlushNone, FlushFind, FlushMark, FlushCompleted, FlushPush,
              FlushDrain, FlushDone, FlushAllEmpty, FlushAllPick, FlushAllDone
<1>2. CASE AsyncInsertLocked(t)
  <2>1. ~Unusable(buf[t])
    BY <1>2 DEF AsyncInsertLocked, HashInv, BucketHeld, HashUsable
  <2>2. CASE "inFlight" \in bits[buf[t]]
    BY <1>2, <2>1, <2>2 DEF AsyncInsertLocked, InsertBehind
  <2>3. CASE "inFlight" \notin bits[buf[t]]
    BY <1>2, <2>1, <2>3 DEF AsyncInsertLocked, Merges
  <2> QED BY <2>2, <2>3
<1>3. CASE AsyncStep(t) /\ ~AsyncInsertLocked(t)
  BY <1>3 DEF AsyncStep, AsyncRaMiss, AsyncRaFound, AsyncRaHit, AsyncInsertNew,
              AsyncInsertFound, AsyncRaDel, AsyncRaPut, AsyncWake, AsyncFullSet, AsyncFullWait
<1>4. CASE SyncFindLocked(t)
  <2>1. ~Unusable(buf[t])
    BY <1>4 DEF SyncFindLocked, HashInv, BucketHeld, HashUsable
  <2>2. ~TakesOver(me[t], buf[t])
    BY <1>4 DEF SyncFindLocked, OwnValue, SyncPc, TakesOver
  <2> QED BY <1>4, <2>1, <2>2 DEF SyncFindLocked, FindBusy, FindBuffered
<1>5. CASE SyncStep(t) /\ ~SyncFindLocked(t)
  BY <1>5 DEF SyncStep, SyncReadahead, SyncReadaheadPut, SyncFindNone, SyncFind, SyncWait,
              SyncReadBlocking, SyncWaitBlocking
<1> QED BY <1>1, <1>2, <1>3, <1>4, <1>5 DEF ThreadStep, AsyncStep, SyncStep

\* A merge gives the buffered request the value of the command.
LEMMA MergesValue ==
  ASSUME TypeInv, HashInv, HistInv, NEW t \in Thread, Merges(t), NEW b, b = buf[t],
         NEW n, n = me[t]
  PROVE  /\ b \in rqHash /\ b \in OpId /\ n \in OpId /\ key[b] = key[n]
         /\ \/ UNCHANGED <<opc, ver>>
            \/ /\ opc' = [opc EXCEPT ![b] = opc[n]] /\ ver' = [ver EXCEPT ![b] = n]
               /\ IsWrite(opc[n])
         /\ n \notin done /\ n <= nops
         /\ UNCHANGED <<key, dev, nops>>
<1>1. pc[t] = "ins_lock" BY DEF Merges, AsyncInsertLocked
<1>2. b \in rqHash /\ b \in OpId /\ key[b] = key[n]
  BY <1>1 DEF HashInv, BucketHeld, TypeInv, HashOK
<1>3. n \in OpId /\ n \notin done /\ n <= nops
  BY <1>1 DEF TypeInv, ThrInv, HistInv, ReturnedFirst, HashInv, OwnCommand
<1>4. IsWrite(opc[n]) => ver[n] = n BY <1>1 DEF HistInv, OwnValue, Early
<1>5. UNCHANGED <<key, dev, nops>> BY DEF Merges, AsyncInsertLocked, devVars
<1>6. MoveCmd(b, n) BY DEF Merges, InsertMerge
<1> QED BY <1>2, <1>3, <1>4, <1>5, <1>6 DEF MoveCmd

\* Histories and values stay right in the steps of a thread.
LEMMA ThreadHist ==
  ASSUME TypeInv, HashInv, HistInv, NEW t \in Thread, ThreadStep(t)
  PROVE  HistInv' /\ Steps(t)
<1>1. Steps(t) BY AsyncSteps, SyncSteps, FlushSteps DEF ThreadStep
<1>2. Continues BY <1>1, StepsContinue
<1>3. nops' = nops BY <1>1 DEF Steps
<1>4. \A r \in rqHash' : r \in rqHash \/ cmd[r].kind = "async"
  <2>1. CASE Steady BY <2>1 DEF Steady, steadyVars
  <2>2. CASE Joins(t)
    <3>1. pc[t] \in Early /\ rqHash' \subseteq rqHash \cup {me[t]}
      BY <2>2 DEF Joins, AsyncInsertNew, AsyncInsertLocked, InsertBehind, Displace, Early
    <3> QED BY <3>1 DEF HistInv, OwnValue
  <2>3. CASE Cancels(t) BY <2>3 DEF Cancels, FindBuffered, Invalidate
  <2> QED BY <2>1, <2>2, <2>3, ThreadClasses
<1>5. Versions' /\ OwnKept
  <2>1. CASE UNCHANGED <<key, opc, ver, dev>>
    BY <1>3, <2>1, VersionsKeep DEF HistInv
  <2>2. CASE Merges(t)
    <3>1. PICK b, n : b = buf[t] /\ n = me[t] OBVIOUS
    <3>2. /\ b \in rqHash /\ b \in OpId /\ n \in OpId
          /\ \/ UNCHANGED <<opc, ver>>
             \/ /\ opc' = [opc EXCEPT ![b] = opc[n]] /\ ver' = [ver EXCEPT ![b] = n]
                /\ IsWrite(opc[n])
          /\ n <= nops /\ UNCHANGED dev
      BY <2>2, <3>1, MergesValue
    <3>3. CASE UNCHANGED <<opc, ver>> BY <1>3, <3>2, <3>3, VersionsKeep DEF HistInv
    <3>4. CASE opc' = [opc EXCEPT ![b] = opc[n]] /\ ver' = [ver EXCEPT ![b] = n]
      <4>1. n # 0 BY <3>2, Facts DEF NULL
      <4>2. opc \in [OpId -> Opcode] /\ ver \in [OpId -> Ptr] BY DEF TypeInv, ReqOK
      <4>3. Versions' BY <1>3, <3>2, <3>4, <4>1, <4>2 DEF HistInv, Versions
      <4>4. ASSUME NEW u \in Thread, pc[u] \in Early \cup SyncPc PROVE me[u] # b
        <5>1. pc[u] \in Early => me[u] \notin Inserted BY DEF Inserted
        <5>2. b \in Inserted BY <3>2 DEF HashInv, InsertedFirst
        <5>3. cmd[b].kind = "async" BY <3>2 DEF HistInv, OwnValue
        <5>4. pc[u] \in SyncPc => cmd[me[u]].kind = "sync" BY DEF HistInv, OwnValue
        <5> QED BY <4>4, <5>1, <5>2, <5>3, <5>4
      <4>5. ASSUME NEW u \in Thread, pc[u] \in Early \cup SyncPc PROVE me[u] \in OpId
        BY <4>5 DEF TypeInv, ThrInv, Early, SyncPc
      <4>6. OwnKept BY <3>4, <4>2, <4>4, <4>5 DEF OwnKept
      <4> QED BY <4>3, <4>6
    <3> QED BY <3>2, <3>3, <3>4
  <2>3. CASE SyncIssue(t)
    <3>1. PICK n \in OpId : n = me[t] BY <2>3 DEF SyncIssue, TypeInv, ThrInv
    <3>2. UNCHANGED <<opc, ver>> /\ \A k \in Key : dev'[k] = dev[k] \/ dev'[k] = ver[n]
      BY <2>3, <3>1 DEF SyncIssue, reqVars, TypeInv, DevOK
    <3>3. Versions' BY <1>3, <3>2 DEF HistInv, Versions
    <3> QED BY <3>2, <3>3 DEF OwnKept
  <2> QED BY <2>1, <2>2, <2>3, ThreadValues DEF HistInv
<1> QED BY <1>1, <1>2, <1>4, <1>5, ContinuesKeep

\* A thread enters an ioctl with command n.
Enters(t, n) ==
    /\ n = nops + 1 /\ n \in OpId /\ pc[t] = "idle"
    /\ nops' = n /\ me'[t] = n /\ pc'[t] \in {"insert", "ra_check", "s_ra", "f_find", "fa_push"}
    /\ \A u \in Thread \ {t} : pc'[u] = pc[u] /\ me'[u] = me[u]
    /\ \A r \in OpId : r # n =>
          /\ key'[r] = key[r] /\ opc'[r] = opc[r] /\ ver'[r] = ver[r]
          /\ cmd'[r] = cmd[r] /\ before'[r] = before[r]
    /\ before'[n] \subseteq done
    /\ ver'[n] = IF IsWrite(opc'[n]) THEN n ELSE 0
    /\ pc'[t] \in Early => cmd'[n].kind = "async" /\ cmd'[n].op = opc'[n]
    /\ pc'[t] \in SyncPc => cmd'[n].kind = "sync" /\ IsWrite(opc'[n])
    /\ UNCHANGED <<buf, bits, rqHash, subRq, devQ, dev, done>>

\* So do all the commands, if no get is synchronous.
LEMMA InvokeEnters ==
  ASSUME TypeInv, "retrieve" \notin SyncOps, NEW t \in Thread, Invoke(t), NEW n, n = nops + 1
  PROVE  Enters(t, n)
<1>1. ASSUME NEW kind, NEW k, NEW o, NEW label, NewCmd(t, kind, k, o), Goto(t, label),
             label \in {"insert", "ra_check", "s_ra", "f_find", "fa_push"},
             label \in Early => kind = "async",
             label \in SyncPc => kind = "sync" /\ IsWrite(o),
             UNCHANGED <<buf, bits, rqHash, subRq, devQ, dev, done>>
      PROVE  Enters(t, n)
  <2>1. n \in OpId
    BY <1>1, ConstantsAssumption DEF NewCmd, TypeInv, HistOK, OpId, Ptr
  <2>2. /\ pc \in [Thread -> ThreadPc] /\ me \in [Thread -> Ptr] /\ key \in [OpId -> Key]
        /\ opc \in [OpId -> Opcode] /\ ver \in [OpId -> Ptr]
        /\ cmd \in [OpId -> [kind : Kind, op : Opcode]] /\ before \in [OpId -> SUBSET OpId]
    BY DEF TypeInv, ThrInv, ThrOK, ReqOK, HistOK
  <2>3. /\ pc[t] = "idle" /\ nops' = n /\ me' = [me EXCEPT ![t] = n]
        /\ key' = [key EXCEPT ![n] = k] /\ opc' = [opc EXCEPT ![n] = o]
        /\ ver' = [ver EXCEPT ![n] = IF IsWrite(o) THEN n ELSE 0]
        /\ cmd' = [cmd EXCEPT ![n] = [kind |-> kind, op |-> o]]
        /\ before' = [before EXCEPT ![n] = {w \in done \cap Writes : key[w] = k}]
        /\ pc' = [pc EXCEPT ![t] = label]
    BY <1>1 DEF NewCmd, Goto
  <2>4. me'[t] = n /\ pc'[t] = label /\ opc'[n] = o /\ cmd'[n] = [kind |-> kind, op |-> o]
    BY <2>1, <2>2, <2>3
  <2>5. ver'[n] = IF IsWrite(opc'[n]) THEN n ELSE 0 BY <2>1, <2>2, <2>3, <2>4
  <2>6. before'[n] \subseteq done BY <2>1, <2>2, <2>3
  <2>7. \A u \in Thread \ {t} : pc'[u] = pc[u] /\ me'[u] = me[u] BY <2>2, <2>3
  <2>8. \A r \in OpId : r # n =>
          /\ key'[r] = key[r] /\ opc'[r] = opc[r] /\ ver'[r] = ver[r]
          /\ cmd'[r] = cmd[r] /\ before'[r] = before[r]
    BY <2>2, <2>3
  <2> QED BY <1>1, <2>1, <2>3, <2>4, <2>5, <2>6, <2>7, <2>8 DEF Enters
<1> USE DEF Early, SyncPc, hashVars, subVars, devVars
<1>2. ASSUME NEW k \in Key, NEW o \in AsyncOps, AsyncWriteCmd(t, k, o) PROVE Enters(t, n)
  BY <1>1, <1>2 DEF AsyncWriteCmd
<1>3. ASSUME NEW k \in Key, AsyncGetCmd(t, k) PROVE Enters(t, n)
  BY <1>1, <1>3 DEF AsyncGetCmd
<1>4. ASSUME NEW k \in Key, NEW o \in SyncOps, SyncCmd(t, k, o) PROVE Enters(t, n)
  <2>1. IsWrite(o) BY OpsAssumption DEF IsWrite, Opcode
  <2> QED BY <1>1, <1>4, <2>1 DEF SyncCmd
<1>5. ASSUME NEW k \in Key, NEW o \in FlushOps, FlushKeyCmd(t, k, o) PROVE Enters(t, n)
  BY <1>1, <1>5 DEF FlushKeyCmd
<1>6. ASSUME NEW o \in FlushAllOps, FlushAllCmd(t, o) PROVE Enters(t, n)
  BY <1>1, <1>6 DEF FlushAllCmd
<1> QED BY <1>2, <1>3, <1>4, <1>5, <1>6 DEF Invoke

\* A new command is newer than everything.
LEMMA EntersHist ==
  ASSUME TypeInv, HashInv, HistInv, NEW t \in Thread, NEW n, Enters(t, n)
  PROVE  HistInv'
<1> USE DEF HistInv
<1>1. n \in Int /\ nops \in Int /\ n # 0 /\ n = nops + 1 /\ nops' = n
  BY Facts DEF Enters, TypeInv, HistOK, OpId, Ptr
<1>2. done \subseteq OpId /\ done' = done /\ OpId \subseteq Int
  BY Facts DEF Enters, TypeInv, HistOK
<1>0. \A i \in Int : i <= nops => i # n /\ i <= n BY <1>1
<1>3. \A m \in done : m # n /\ m <= nops'
  <2>1. \A m \in done : m \in Int /\ m <= nops BY <1>2 DEF ReturnedFirst
  <2> QED BY <1>0, <1>1, <2>1
<1>4. ReturnedFirst'
  <2>1. \A u \in Thread : pc'[u] # "idle" => me'[u] \notin done'
    BY <1>2, <1>3 DEF Enters, ReturnedFirst
  <2>2. \A m \in OpId : before'[m] \subseteq done'
    BY <1>2 DEF Enters, ReturnedFirst
  <2> QED BY <1>2, <1>3, <2>1, <2>2 DEF ReturnedFirst
<1>5. Versions'
  <2>1. ver \in [OpId -> Int] /\ dev \in [Key -> Int] BY Facts DEF TypeInv, ReqOK, DevOK
  <2>2. ASSUME NEW r \in OpId PROVE ver'[r] <= nops' /\ (IsWrite(opc'[r]) => ver'[r] # 0)
    <3>1. CASE r = n
      <4>1. 0 <= n BY <1>1 DEF Enters, OpId
      <4> QED BY <1>1, <3>1, <4>1 DEF Enters
    <3>2. CASE r # n BY <1>1, <2>1, <3>2 DEF Enters, Versions
    <3> QED BY <3>1, <3>2
  <2>3. \A k \in Key : dev'[k] <= nops' BY <1>1, <2>1 DEF Enters, Versions
  <2> QED BY <2>2, <2>3 DEF Versions
<1>6. OwnValue'
  <2>1. \A r \in Inserted : r # n /\ r \in OpId
    <3>1. \A r \in Inserted : r \in OpId /\ r \in Int /\ r <= nops BY <1>2 DEF Inserted
    <3> QED BY <1>0, <3>1
  <2>0. /\ \A r \in OpId : r # n => opc'[r] = opc[r] /\ ver'[r] = ver[r] /\ cmd'[r] = cmd[r]
        /\ rqHash' = rqHash /\ rqHash \subseteq Inserted
    BY DEF Enters, HashInv, InsertedFirst
  <2>2. \A r \in rqHash' : cmd'[r].kind = "async" BY <2>0, <2>1 DEF OwnValue
  <2>3. ASSUME NEW u \in Thread, u # t, pc[u] # "idle" PROVE me[u] # n /\ me[u] \in OpId
    <3>1. me[u] \in OpId BY <2>3 DEF TypeInv, ThrInv
    <3>2. me[u] <= nops BY <2>3 DEF HashInv, OwnCommand
    <3> QED BY <1>0, <1>2, <3>1, <3>2
  <2>4. ASSUME NEW u \in Thread, pc'[u] \in Early
        PROVE  /\ cmd'[me'[u]].kind = "async" /\ cmd'[me'[u]].op = opc'[me'[u]]
               /\ IsWrite(opc'[me'[u]]) => ver'[me'[u]] = me'[u]
    <3>1. CASE u = t BY <2>4, <3>1 DEF Enters
    <3>2. CASE u # t
      <4>1. pc[u] \in Early /\ pc[u] # "idle" /\ me'[u] = me[u] BY <2>4, <3>2 DEF Enters, Early
      <4>2. PICK m \in OpId : m = me[u] /\ m # n BY <2>3, <3>2, <4>1
      <4>3. opc'[m] = opc[m] /\ ver'[m] = ver[m] /\ cmd'[m] = cmd[m] BY <2>0, <4>2
      <4> QED BY <4>1, <4>2, <4>3 DEF OwnValue
    <3> QED BY <3>1, <3>2
  <2>5. ASSUME NEW u \in Thread, pc'[u] \in SyncPc
        PROVE  cmd'[me'[u]].kind = "sync" /\ IsWrite(opc'[me'[u]]) /\ ver'[me'[u]] = me'[u]
    <3>1. CASE u = t BY <2>5, <3>1 DEF Enters
    <3>2. CASE u # t
      <4>1. pc[u] \in SyncPc /\ pc[u] # "idle" /\ me'[u] = me[u] BY <2>5, <3>2 DEF Enters, SyncPc
      <4>2. PICK m \in OpId : m = me[u] /\ m # n BY <2>3, <3>2, <4>1
      <4>3. opc'[m] = opc[m] /\ ver'[m] = ver[m] /\ cmd'[m] = cmd[m] BY <2>0, <4>2
      <4> QED BY <4>1, <4>2, <4>3 DEF OwnValue
    <3> QED BY <3>1, <3>2
  <2> QED BY <2>2, <2>4, <2>5 DEF OwnValue
<1> QED BY <1>4, <1>5, <1>6

\* The steps of the daemons and of the device.
DaemonStep ==
    \/ \E y \in Type : Schedule(y) \/ SubmitStep(y)
    \/ Device \/ CompleteStep

\* They leave the threads and the commands alone.
LEMMA DaemonRuns ==
  ASSUME DaemonStep
  PROVE  /\ UNCHANGED <<thrVars, nops, cmd, done, before, key, opc>>
         /\ rqHash' \subseteq rqHash
         /\ UNCHANGED <<ver, dev>> \/ \E r \in OpId : DeviceExec(r)
<1> USE DEF reqVars, hashVars, devVars, histVars
<1> DEFINE Runs == /\ UNCHANGED <<thrVars, nops, cmd, done, before, key, opc>>
                   /\ rqHash' \subseteq rqHash
                   /\ UNCHANGED <<ver, dev>> \/ \E r \in OpId : DeviceExec(r)
<1>1. ASSUME NEW y \in Type, Schedule(y) PROVE Runs BY <1>1 DEF Schedule
<1>2. ASSUME NEW y \in Type, SubmitStart(y) \/ SubmitEnd(y) \/ SubmitPark(y) PROVE Runs
  BY <1>2 DEF SubmitStart, SubmitEnd, SubmitPark
<1>3. ASSUME NEW y \in Type, SubmitKick(y) \/ SubmitSleep(y) \/ SubmitTake(y) PROVE Runs
  BY <1>3 DEF SubmitKick, SubmitSleep, SubmitTake
<1>4. ASSUME NEW y \in Type, SubmitInvalid(y) \/ SubmitRq(y) PROVE Runs
  BY <1>4 DEF SubmitInvalid, SubmitRq
<1>5. ASSUME NEW y \in Type, SubmitCongested(y) \/ SubmitResume(y) \/ SubmitDone(y) PROVE Runs
  BY <1>5 DEF SubmitCongested, SubmitResume, SubmitDone
<1>6. CASE InterruptWake BY <1>6 DEF InterruptWake
<1>7. ASSUME NEW r \in OpId, DeviceExec(r) PROVE Runs BY <1>7 DEF DeviceExec
<1>8. CASE CompleteStart \/ CompleteDequeue \/ CompleteUnhash \/ CompleteLowWatermark
  BY <1>8 DEF CompleteStart, CompleteDequeue, CompleteUnhash, CompleteLowWatermark
<1>9. CASE CompleteLock \/ CompleteDuplicate \/ CompleteFindPending
  BY <1>9 DEF CompleteLock, CompleteDuplicate, CompleteFindPending
<1>10. CASE CompleteUnblock \/ CompleteFini BY <1>10 DEF CompleteUnblock, CompleteFini
<1>11. ASSUME NEW y \in Type, CompleteWake(y) PROVE Runs BY <1>11 DEF CompleteWake
<1> QED BY <1>1, <1>2, <1>3, <1>4, <1>5, <1>6, <1>7, <1>8, <1>9, <1>10, <1>11
        DEF DaemonStep, SubmitStep, Device, CompleteStep

\* Histories and values stay right in those steps.
LEMMA DaemonHist ==
  ASSUME TypeInv, HashInv, HistInv, DaemonStep
  PROVE  HistInv'
<1>1. UNCHANGED <<pc, me, buf, nops, cmd, done, before, key, opc>> /\ rqHash' \subseteq rqHash
  BY DaemonRuns DEF thrVars
<1>2. Continues BY <1>1 DEF Continues
<1>3. CASE UNCHANGED <<ver, dev>>
  <2>1. Versions' /\ OwnKept BY <1>1, <1>3, VersionsKeep DEF HistInv
  <2> QED BY <1>1, <1>2, <2>1, ContinuesKeep
<1>4. ASSUME NEW r \in OpId, DeviceExec(r) PROVE HistInv'
  <2>1. key[r] \in Key /\ ver \in [OpId -> Ptr] /\ dev \in [Key -> Ptr]
    BY DEF TypeInv, ReqOK, DevOK
  <2>2. CASE IsWrite(opc[r])
    <3>1. dev' = [dev EXCEPT ![key[r]] = ver[r]] /\ UNCHANGED ver BY <1>4, <2>2 DEF DeviceExec
    <3>2. Versions' BY <1>1, <2>1, <3>1 DEF HistInv, Versions
    <3>3. OwnKept BY <1>1, <3>1 DEF OwnKept
    <3> QED BY <1>1, <1>2, <3>2, <3>3, ContinuesKeep
  <2>3. CASE ~IsWrite(opc[r])
    <3>1. ver' = [ver EXCEPT ![r] = dev[key[r]]] /\ UNCHANGED dev BY <1>4, <2>3 DEF DeviceExec
    <3>2. Versions' BY <1>1, <2>1, <2>3, <3>1 DEF HistInv, Versions
    <3>3. ASSUME NEW u \in Thread, pc[u] \in Early \cup SyncPc PROVE me[u] \in OpId
      BY <3>3 DEF TypeInv, ThrInv, Early, SyncPc
    <3>4. OwnKept BY <1>1, <2>1, <2>3, <3>1, <3>3 DEF OwnKept
    <3> QED BY <1>1, <1>2, <3>2, <3>4, ContinuesKeep
  <2> QED BY <2>2, <2>3
<1> QED BY <1>3, <1>4, DaemonRuns

-----------------------------------------------------------------------------
(* Writes on their way. *)

\* A write under way is in the request hash, or in front of one that is.
LEMMA LaunchedPlace ==
  ASSUME TypeInv, PendInv, NEW u \in OpId, Launched(u)
  PROVE  /\ "inFlight" \in bits[u]
         /\ \/ u \in rqHash
            \/ \E q \in rqHash : /\ blk[q] = u /\ key[q] = key[u]
                                 /\ "inFlight" \notin bits[q]
<1>1. Submitted(u) /\ Flying(u) BY DEF Launched, Submitted, Flying
<1>2. "inFlight" \in bits[u] /\ (u \in rqHash \/ "blocking" \in bits[u])
  BY <1>1 DEF PendInv, RequestInv, RequestOK
<1>3. ASSUME "blocking" \in bits[u]
      PROVE  \E q \in rqHash : blk[q] = u /\ key[q] = key[u] /\ "inFlight" \notin bits[q]
  <2>1. PICK q \in OpId : blk[q] = u BY <1>3 DEF PendInv, Behind
  <2> QED BY <2>1, Facts DEF PendInv, Behind
<1> QED BY <1>2, <1>3

\* What the request that a lookup finds says about the other writes of the key.
LEMMA HashTells ==
  ASSUME TypeInv, HashInv, PendInv, NEW r \in OpId, Pending(r)
  PROVE  /\ Hashed(rqHash, key[r]) # {}
         /\ \A b \in rqHash : key[b] = key[r] /\ ("inFlight" \in bits[b] \/ blk[b] = NULL) => r = b
<1>1. CASE r \in rqHash BY <1>1 DEF Hashed, HashInv, HashUnique
<1>2. CASE r \notin rqHash
  <2>1. Launched(r) BY <1>2 DEF Pending, Waiting
  <2>2. PICK q \in rqHash : blk[q] = r /\ key[q] = key[r] /\ "inFlight" \notin bits[q]
    BY <1>2, <2>1, LaunchedPlace
  <2>3. \A b \in rqHash : key[b] = key[r] => b = q BY <2>2 DEF HashInv, HashUnique
  <2>4. blk[q] # NULL BY <2>2, Facts
  <2> QED BY <2>2, <2>3, <2>4 DEF Hashed
<1> QED BY <1>1, <1>2

\* What a step may do to the writes: keep them as they are, or accept a value whose
\* command has not returned.
SameValue(r) == key'[r] = key[r] /\ ver'[r] = ver[r]
Fresh(r) == ver'[r] \notin done /\ ver'[r] # 0
Drift ==
    /\ \A r \in OpId : Launched(r)' => Launched(r) /\ SameValue(r)
    /\ \A r \in OpId : Waiting(r)' => (Waiting(r) /\ SameValue(r)) \/ Fresh(r)

\* Or exactly the writes there were stay.
Remains(r) ==
    /\ Launched(r)' <=> Launched(r)
    /\ Waiting(r)' <=> Waiting(r)
    /\ Pending(r) => SameValue(r)
Rests == \A r \in OpId : Remains(r)

\* This is a special case.
LEMMA RestsDrift == Rests => Drift
  BY DEF Rests, Remains, Drift, Pending

\* What was issued keeps its key and its history.
HistoryKept == \A n \in OpId : n <= nops => before'[n] = before[n] /\ key'[n] = key[n]

\* A fresh value is not older than any.
LEMMA FreshNotOlder ==
  ASSUME TypeInv, ReturnedFirst, HistoryKept, NEW v, v \notin done, v # 0,
         NEW w \in Ptr, w <= nops
  PROVE  ~Older(v, w)'
<1>1. CASE w = 0 BY <1>1 DEF Older
<1>2. CASE w # 0
  <2>1. w \in OpId BY <1>2 DEF Ptr, OpId
  <2> QED BY <2>1 DEF Older, HistoryKept, ReturnedFirst
<1> QED BY <1>1, <1>2

\* The order of values that were issued stays.
LEMMA OlderKept ==
  ASSUME HistoryKept, NEW v, NEW w \in Ptr, w <= nops
  PROVE  Older(v, w)' <=> Older(v, w)
<1>1. CASE w = 0 BY <1>1 DEF Older
<1>2. CASE w # 0
  <2>1. w \in OpId BY <1>2 DEF Ptr, OpId
  <2> QED BY <2>1 DEF Older, HistoryKept
<1> QED BY <1>1, <1>2

\* Such a step keeps the order while the device keeps its values.
LEMMA DriftOrdered ==
  ASSUME TypeInv, TypeInv', HistInv, Ordered, Drift, HistoryKept, UNCHANGED dev
  PROVE  Ordered'
<1>1. /\ key \in [OpId -> Key] /\ key' \in [OpId -> Key] /\ ver \in [OpId -> Ptr]
      /\ dev \in [Key -> Ptr]
  BY DEF TypeInv, ReqOK, DevOK
<1>2. /\ \A r \in OpId : ver[r] <= nops
      /\ \A k \in Key : dev[k] <= nops
      /\ ReturnedFirst
  BY DEF HistInv, Versions
<1>3. ASSUME NEW r \in OpId, Pending(r)' PROVE ~Older(ver[r], dev[key[r]])'
  <2>1. PICK v, w : v = ver'[r] /\ w = dev'[key'[r]] OBVIOUS
  <2>2. w \in Ptr /\ w <= nops BY <1>1, <1>2, <2>1
  <2>3. CASE Pending(r) /\ SameValue(r)
    <3>1. v = ver[r] /\ w = dev[key[r]] BY <2>1, <2>3 DEF SameValue
    <3>2. ~Older(v, w) BY <2>3, <3>1 DEF Ordered
    <3>3. ~Older(v, w)' BY <2>2, <3>2, OlderKept
    <3> QED BY <2>1, <3>3 DEF Older
  <2>4. CASE Fresh(r)
    <3>1. ~Older(v, w)' BY <1>2, <2>1, <2>2, <2>4, FreshNotOlder DEF Fresh
    <3> QED BY <2>1, <3>1 DEF Older
  <2> QED BY <1>3, <2>3, <2>4 DEF Pending, Drift
<1>4. ASSUME NEW u \in OpId, NEW r \in OpId, Launched(u)', Waiting(r)', key'[u] = key'[r]
      PROVE  ~Older(ver[r], ver[u])'
  <2>1. PICK v, w : v = ver'[r] /\ w = ver'[u] OBVIOUS
  <2>2. Launched(u) /\ SameValue(u) BY <1>4 DEF Drift
  <2>3. w = ver[u] /\ w \in Ptr /\ w <= nops BY <1>1, <1>2, <2>1, <2>2 DEF SameValue
  <2>4. CASE Waiting(r) /\ SameValue(r)
    <3>1. v = ver[r] /\ key[u] = key[r] BY <1>4, <2>1, <2>2, <2>4 DEF SameValue
    <3>2. ~Older(v, w) BY <2>2, <2>3, <2>4, <3>1 DEF Ordered
    <3>3. ~Older(v, w)' BY <2>3, <3>2, OlderKept
    <3> QED BY <2>1, <3>3 DEF Older
  <2>5. CASE Fresh(r)
    <3>1. ~Older(v, w)' BY <1>2, <2>1, <2>3, <2>5, FreshNotOlder DEF Fresh
    <3> QED BY <2>1, <3>1 DEF Older
  <2> QED BY <1>4, <2>4, <2>5 DEF Drift
<1> QED BY <1>3, <1>4 DEF Ordered

\* A buffered write is submitted.
Launches(r) ==
    /\ UNCHANGED <<key, ver, opc, dev, before, rqHash>>
    /\ r \in OpId /\ Waiting(r) /\ blk[r] = NULL /\ Launched(r)' /\ "inFlight" \in bits'[r]
    /\ \A x \in OpId : x # r => (Launched(x)' <=> Launched(x)) /\ (Waiting(x)' <=> Waiting(x))

\* There is no other one behind it.
LEMMA LaunchesOrdered ==
  ASSUME HashInv, Ordered, NEW r, Launches(r)
  PROVE  Ordered'
<1>2. ASSUME NEW x \in OpId, Pending(x)' PROVE ~Older(ver[x], dev[key[x]])'
  <2>1. Pending(x) BY <1>2 DEF Launches, Pending
  <2>2. ~Older(ver[x], dev[key[x]]) BY <2>1 DEF Ordered
  <2> QED BY <2>2 DEF Launches, Older
<1>3. ASSUME NEW u \in OpId, NEW w \in OpId, Launched(u)', Waiting(w)', key'[u] = key'[w]
      PROVE  ~Older(ver[w], ver[u])'
  <2>1. w # r BY <1>3 DEF Launches, Waiting
  <2>2. Waiting(w) BY <1>3, <2>1 DEF Launches
  <2>3. u # r BY <1>3, <2>1, <2>2 DEF Launches, Waiting, HashInv, HashUnique
  <2>4. Launched(u) /\ key[u] = key[w] BY <1>3, <2>3 DEF Launches
  <2>5. ~Older(ver[w], ver[u]) BY <2>2, <2>4 DEF Ordered
  <2> QED BY <2>5 DEF Launches, Older
<1> QED BY <1>2, <1>3 DEF Ordered

\* The device executes a write.
Lands(r) ==
    /\ UNCHANGED <<key, ver, opc, before, rqHash, bits>>
    /\ r \in OpId /\ Launched(r) /\ ~Launched(r)'
    /\ dev' = [dev EXCEPT ![key[r]] = ver[r]]
    /\ \A x \in OpId : Waiting(x)' <=> Waiting(x)
    /\ \A x \in OpId : x # r => (Launched(x)' <=> Launched(x))

\* It is the only write of the key under way, and what waits is not older.
LEMMA LandsOrdered ==
  ASSUME TypeInv, OneInFlight, Ordered, NEW r, Lands(r)
  PROVE  Ordered'
<1>1. key \in [OpId -> Key] /\ dev \in [Key -> Ptr] BY DEF TypeInv, ReqOK, DevOK
<1>2. ASSUME NEW x \in OpId, Pending(x)' PROVE ~Older(ver[x], dev[key[x]])'
  <2>1. Pending(x) BY <1>2 DEF Lands, Pending
  <2>2. CASE key[x] # key[r]
    <3>1. dev'[key[x]] = dev[key[x]] BY <1>1, <2>2 DEF Lands
    <3>2. ~Older(ver[x], dev[key[x]]) BY <2>1 DEF Ordered
    <3> QED BY <3>1, <3>2 DEF Lands, Older
  <2>3. CASE key[x] = key[r]
    <3>1. dev'[key[x]] = ver[r] BY <1>1, <2>3 DEF Lands
    <3>2. ASSUME Launched(x)' PROVE FALSE
      <4>1. Launched(x) /\ x # r /\ Launched(r) BY <3>2 DEF Lands
      <4>2. \A z \in OpId : Launched(z) => z \in devQ \cup ({subRq[y] : y \in Type} \ {NULL})
        BY Facts DEF Launched, Held
      <4>3. r \in OpId BY DEF Lands
      <4> QED BY <2>3, <4>1, <4>2, <4>3 DEF OneInFlight
    <3>3. Waiting(x) BY <1>2, <3>2 DEF Pending, Lands
    <3>4. ~Older(ver[x], ver[r]) BY <2>3, <3>3 DEF Ordered, Lands
    <3> QED BY <3>1, <3>4 DEF Lands, Older
  <2> QED BY <2>2, <2>3
<1>3. ASSUME NEW u \in OpId, NEW w \in OpId, Launched(u)', Waiting(w)', key'[u] = key'[w]
      PROVE  ~Older(ver[w], ver[u])'
  <2>1. ~Older(ver[w], ver[u]) BY <1>3 DEF Lands, Ordered
  <2> QED BY <2>1 DEF Lands, Older
<1> QED BY <1>2, <1>3 DEF Ordered

\* A synchronous write reaches the device: it has passed the others.
LEMMA IssueOrdered ==
  ASSUME TypeInv, HashInv, HistInv, Ordered, SyncApart, NEW t \in Thread, SyncIssue(t)
  PROVE  Ordered'
<1>1. PICK n \in OpId : n = me[t] BY DEF SyncIssue, TypeInv, ThrInv
<1>2. IsWrite(opc[n]) /\ ver[n] = n BY <1>1 DEF SyncIssue, HistInv, OwnValue, SyncPc
<1>3. /\ dev' = [dev EXCEPT ![key[n]] = n] /\ pc[t] = "s_issue"
      /\ UNCHANGED <<key, ver, opc, bits, rqHash, devQ, subRq, before>>
  BY <1>1, <1>2 DEF SyncIssue, reqVars, hashVars, subVars
<1>4. \A x : (Launched(x)' <=> Launched(x)) /\ (Waiting(x)' <=> Waiting(x))
  BY <1>3 DEF Launched, Waiting, Held
<1>5. key \in [OpId -> Key] /\ dev \in [Key -> Ptr] BY DEF TypeInv, ReqOK, DevOK
<1>6. ASSUME NEW x \in OpId, Pending(x)' PROVE ~Older(ver[x], dev[key[x]])'
  <2>1. Pending(x) BY <1>4, <1>6 DEF Pending
  <2>2. CASE key[x] # key[n]
    <3>1. dev'[key[x]] = dev[key[x]] BY <1>3, <1>5, <2>2
    <3>2. ~Older(ver[x], dev[key[x]]) BY <2>1 DEF Ordered
    <3> QED BY <1>3, <3>1, <3>2 DEF Older
  <2>3. CASE key[x] = key[n]
    <3>1. dev'[key[x]] = n BY <1>3, <1>5, <2>3
    <3>2. Passed(t, x) BY <1>3 DEF SyncApart, Apart
    <3>3. ver[x] \notin before[n] BY <1>1, <2>1, <2>3, <3>2 DEF Passed
    <3>4. IsWrite(opc[x]) BY <2>1 DEF Pending, Launched, Waiting
    <3>5. ver[x] # 0 BY <3>4 DEF HistInv, Versions
    <3>6. ~Older(ver[x], n) BY <3>3, <3>5 DEF Older
    <3> QED BY <1>3, <3>1, <3>6 DEF Older
  <2> QED BY <2>2, <2>3
<1>7. ASSUME NEW u \in OpId, NEW w \in OpId, Launched(u)', Waiting(w)', key'[u] = key'[w]
      PROVE  ~Older(ver[w], ver[u])'
  <2>1. ~Older(ver[w], ver[u]) BY <1>3, <1>4, <1>7 DEF Ordered
  <2> QED BY <1>3, <2>1 DEF Older
<1> QED BY <1>6, <1>7 DEF Ordered

-----------------------------------------------------------------------------
(* Synchronous writes pass the others. *)

\* Every write of a step is an old one, or fresh.
OldOrFresh == \A r \in OpId : Pending(r)' => (Pending(r) /\ SameValue(r)) \/ Fresh(r)

\* A request that was inserted does not come back to the hash, and stays in flight there.
HashKept ==
    \A b \in Inserted : b \in rqHash' =>
        b \in rqHash /\ ("inFlight" \in bits[b] => "inFlight" \in bits'[b])

\* What is passed stays passed.
LEMMA PassedKept ==
  ASSUME TypeInv, ReturnedFirst, HistoryKept, OldOrFresh, NEW t \in Thread, NEW r \in OpId,
         me[t] \in OpId, me[t] <= nops, me'[t] = me[t], Passed(t, r)
  PROVE  Passed(t, r)'
<1>1. PICK n \in OpId : n = me[t] /\ n = me'[t] OBVIOUS
<1>2. before'[n] = before[n] /\ key'[n] = key[n] /\ before[n] \subseteq done
  BY <1>1 DEF HistoryKept, ReturnedFirst
<1>3. CASE ~Pending(r)' BY <1>3 DEF Passed
<1>4. CASE Pending(r) /\ SameValue(r) BY <1>1, <1>2, <1>4 DEF Passed, SameValue
<1>5. CASE Fresh(r) BY <1>1, <1>2, <1>5 DEF Passed, Fresh
<1> QED BY <1>3, <1>4, <1>5 DEF OldOrFresh

\* A synchronous command is under way.
LEMMA SyncMe ==
  ASSUME TypeInv, HashInv, NEW t \in Thread, pc[t] \in SyncPc
  PROVE  me[t] \in OpId /\ me[t] <= nops
  BY DEF TypeInv, ThrInv, HashInv, OwnCommand, SyncPc

\* A thread that does not move stays apart.
LEMMA OtherApart ==
  ASSUME TypeInv, HashInv, RefInv, HistInv, HistoryKept, OldOrFresh, HashKept,
         NEW t \in Thread, Apart(t), pc'[t] = pc[t], me'[t] = me[t], buf'[t] = buf[t]
  PROVE  Apart(t)'
<1>1. ASSUME pc[t] \in {"s_ra2", "s_ra2_put", "s_issue"}, NEW r \in OpId PROVE Passed(t, r)'
  <2>1. me[t] \in OpId /\ me[t] <= nops BY <1>1, SyncMe DEF SyncPc
  <2> QED BY <1>1, <2>1, PassedKept DEF Apart, HistInv
<1>2. ASSUME pc[t] = "s_wait", NEW r \in OpId, r # buf[t] PROVE Passed(t, r)'
  <2>1. me[t] \in OpId /\ me[t] <= nops BY <1>2, SyncMe DEF SyncPc
  <2> QED BY <1>2, <2>1, PassedKept DEF Apart, HistInv
<1>3. ASSUME pc[t] = "s_wait", buf[t] \in rqHash' PROVE "inFlight" \in bits'[buf[t]]
  <2>1. buf[t] \in Inserted
    BY <1>3, Facts DEF TypeInv, ThrInv, RefInv, PointersInserted
  <2> QED BY <1>3, <2>1 DEF Apart, HashKept
<1> QED BY <1>1, <1>2, <1>3 DEF Apart

\* A step of the thread itself.
LEMMA OwnApart ==
  ASSUME TypeInv, HashInv, CountInv, PendInv, HistInv, HistoryKept, OldOrFresh,
         NEW t \in Thread, Apart(t), ThreadStep(t), Steps(t)
  PROVE  Apart(t)'
<1>1. CASE AsyncStep(t) \/ FlushStep(t)
  <2>1. CASE AsyncStep(t)
    BY <2>1 DEF AsyncStep, AsyncRaMiss, AsyncRaFound, AsyncRaHit, AsyncInsertNew,
                AsyncInsertFound, AsyncInsertLocked, AsyncRaDel, AsyncRaPut, AsyncWake,
                AsyncFullSet, AsyncFullWait, SyncPc, Steps, Apart
  <2>2. CASE FlushStep(t)
    BY <2>2 DEF FlushStep, FlushNone, FlushFind, FlushMark, FlushCompleted, FlushPush,
                FlushDrain, FlushDone, FlushAllEmpty, FlushAllPick, FlushAllDone, SyncPc,
                Steps, Apart
  <2> QED BY <1>1, <2>1, <2>2
<1> USE DEF Goto, TypeInv, ThrInv, ThrOK
<1>2. ASSUME pc[t] \in SyncPc, NEW r \in OpId, Passed(t, r), me'[t] = me[t] PROVE Passed(t, r)'
  BY <1>2, SyncMe, PassedKept DEF HistInv
<1>3. CASE SyncReadahead(t)
  <2>1. me' = me BY <1>3 DEF SyncReadahead
  <2>2. CASE pc[t] = "s_ra"
    <3>1. pc'[t] \in {"s_ra_put", "s_find"} BY <1>3, <2>2 DEF SyncReadahead, TakeReadahead
    <3> QED BY <3>1 DEF Apart
  <2>3. CASE pc[t] = "s_ra2"
    <3>1. pc'[t] \in {"s_ra2_put", "s_issue"} BY <1>3, <2>3 DEF SyncReadahead, TakeReadahead
    <3>2. \A r \in OpId : Passed(t, r)' BY <1>2, <2>1, <2>3 DEF SyncPc, Apart
    <3> QED BY <3>1, <3>2 DEF Apart
  <2> QED BY <1>3, <2>2, <2>3 DEF SyncReadahead
<1>4. CASE SyncReadaheadPut(t)
  <2>1. pc[t] \in SyncPc BY <1>4 DEF SyncReadaheadPut, SyncPc
  <2>2. IsWrite(opc[me[t]]) BY <2>1 DEF HistInv, OwnValue
  <2>3. me' = me /\ pc' = [pc EXCEPT ![t] = IF pc[t] = "s_ra_put" THEN "s_find" ELSE "s_issue"]
    BY <1>4, <2>2 DEF SyncReadaheadPut
  <2>4. CASE pc[t] = "s_ra_put" BY <2>3, <2>4 DEF Apart
  <2>5. CASE pc[t] = "s_ra2_put"
    <3>1. pc'[t] = "s_issue" BY <2>3, <2>5
    <3>2. \A r \in OpId : Passed(t, r)' BY <1>2, <2>1, <2>3, <2>5 DEF Apart
    <3> QED BY <3>1, <3>2 DEF Apart
  <2> QED BY <1>4, <2>4, <2>5 DEF SyncReadaheadPut
<1>5. CASE SyncFindNone(t)
  <2>1. /\ me' = me /\ pc[t] = "s_find" /\ pc' = [pc EXCEPT ![t] = "s_issue"]
        /\ Hashed(rqHash, key[me[t]]) = {}
    BY <1>5 DEF SyncFindNone
  <2>2. \A r \in OpId : Passed(t, r) BY <2>1, HashTells DEF Passed
  <2>3. \A r \in OpId : Passed(t, r)' BY <1>2, <2>1, <2>2 DEF SyncPc
  <2> QED BY <2>1, <2>3 DEF Apart
<1>6. CASE SyncFind(t) BY <1>6 DEF SyncFind, Apart
<1>7. CASE SyncFindLocked(t)
  <2>1. PICK b \in OpId : b = buf[t] BY <1>7 DEF SyncFindLocked
  <2>2. /\ b \in rqHash /\ key[b] = key[me[t]] /\ ~Unusable(b) /\ pc[t] = "s_lock" /\ me' = me
    BY <1>7, <2>1 DEF SyncFindLocked, HashInv, BucketHeld, HashUsable
  <2>3. CASE "inFlight" \in bits[b]
    <3>1. /\ pc' = [pc EXCEPT ![t] = "s_wait"] /\ buf' = buf /\ bits' = bits
      BY <1>7, <2>1, <2>2, <2>3 DEF SyncFindLocked, FindBusy
    <3>2. \A r \in OpId : r # b => Passed(t, r) BY <2>2, <2>3, HashTells DEF Passed
    <3>3. \A r \in OpId : r # b => Passed(t, r)' BY <1>2, <2>2, <3>2 DEF SyncPc
    <3> QED BY <2>1, <2>3, <3>1, <3>3 DEF Apart
  <2>4. CASE "inFlight" \notin bits[b] /\ blk[b] # NULL
    BY <1>7, <2>1, <2>2, <2>4 DEF SyncFindLocked, FindBusy, Apart
  <2>5. CASE "inFlight" \notin bits[b] /\ blk[b] = NULL
    <3>1. pc' = [pc EXCEPT ![t] = "s_issue"] /\ rqHash' = rqHash \ {b} /\ UNCHANGED <<devQ, subRq>>
      BY <1>7, <2>1, <2>2, <2>5
      DEF SyncFindLocked, FindBuffered, Invalidate, devVars, subVars
    <3>2. \A r \in OpId : r # b => Passed(t, r) BY <2>2, <2>5, HashTells DEF Passed
    <3>3. \A r \in OpId : r # b => Passed(t, r)' BY <1>2, <2>2, <3>2 DEF SyncPc
    <3>4. ~Launched(b)'
      <4>1. ~Flying(b) BY <2>5 DEF PendInv, RequestInv, RequestOK
      <4> QED BY <3>1, <4>1 DEF Launched, Flying, Held
    <3>5. ~Waiting(b)' BY <3>1 DEF Waiting
    <3>6. Passed(t, b)' BY <3>4, <3>5 DEF Passed, Pending
    <3> QED BY <3>1, <3>3, <3>6 DEF Apart
  <2> QED BY <2>3, <2>4, <2>5
<1>8. CASE SyncWait(t)
  <2>1. PICK b \in OpId : b = buf[t] BY <1>8 DEF SyncWait
  <2>2. /\ me' = me /\ pc[t] = "s_wait" /\ pc' = [pc EXCEPT ![t] = "s_ra2"]
        /\ "inFlight" \notin bits[b]
    BY <1>8, <2>1 DEF SyncWait
  <2>3. ~Waiting(b) BY <2>1, <2>2 DEF Apart, Waiting
  <2>4. ~Launched(b) BY <2>2, LaunchedPlace
  <2>5. \A r \in OpId : Passed(t, r) BY <2>1, <2>2, <2>3, <2>4 DEF Apart, Passed, Pending
  <2>6. \A r \in OpId : Passed(t, r)' BY <1>2, <2>2, <2>5 DEF SyncPc
  <2> QED BY <2>2, <2>6 DEF Apart
<1>9. CASE SyncReadBlocking(t) \/ SyncWaitBlocking(t)
  BY <1>9 DEF SyncReadBlocking, SyncWaitBlocking, Apart
<1>10. CASE SyncIssue(t) BY <1>10 DEF SyncIssue, Return, Apart
<1> QED BY <1>1, <1>3, <1>4, <1>5, <1>6, <1>7, <1>8, <1>9, <1>10 DEF ThreadStep, SyncStep

-----------------------------------------------------------------------------
(* The steps. *)

\* A step that leaves the requests' places and values.
LEMMA CalmRests ==
  ASSUME TypeInv, HashInv, Calm, UNCHANGED <<key, opc, ver>>
  PROVE  Rests /\ HashKept
<1>1. \A r \in OpId : "inFlight" \in bits'[r] <=> "inFlight" \in bits[r]
  BY BitsKept DEF Calm
<1>2. \A r \in OpId : (Launched(r)' <=> Launched(r)) /\ (Waiting(r)' <=> Waiting(r))
  BY <1>1 DEF Calm, Launched, Waiting, Held
<1>3. Inserted \subseteq OpId BY DEF Inserted
<1> QED BY <1>1, <1>2, <1>3 DEF Rests, Remains, SameValue, HashKept, Calm

\* The steps of the threads keep the writes, or accept one.
LEMMA ThreadDrift ==
  ASSUME TypeInv, HashInv, PendInv, HistInv, NEW t \in Thread, ThreadStep(t)
  PROVE  /\ Drift /\ HashKept
         /\ UNCHANGED dev \/ SyncIssue(t)
         /\ UNCHANGED key
<1>0. OwnValue BY DEF HistInv
<1>1. CASE Merges(t)
  <2>1. PICK b, n : b = buf[t] /\ n = me[t] OBVIOUS
  <2>2. /\ b \in rqHash /\ b \in OpId /\ n \in OpId
        /\ \/ UNCHANGED <<opc, ver>>
           \/ /\ opc' = [opc EXCEPT ![b] = opc[n]] /\ ver' = [ver EXCEPT ![b] = n]
              /\ IsWrite(opc[n])
        /\ n \notin done /\ UNCHANGED <<key, dev>>
    BY <1>1, <2>1, MergesValue
  <2>3. UNCHANGED <<bits, rqHash, devQ, subRq>> /\ "inFlight" \notin bits[b]
    BY <1>1, <2>1 DEF Merges, AsyncInsertLocked, InsertMerge, devVars, subVars
  <2>4. n # 0 BY <2>2, Facts DEF NULL
  <2>5. opc \in [OpId -> Opcode] /\ ver \in [OpId -> Ptr] BY DEF TypeInv, ReqOK
  <2>6. ASSUME NEW r \in OpId, r # b
        PROVE  /\ Launched(r)' <=> Launched(r)
               /\ Waiting(r)' <=> Waiting(r)
               /\ SameValue(r)
    <3>1. opc'[r] = opc[r] /\ ver'[r] = ver[r] BY <2>2, <2>5, <2>6
    <3> QED BY <2>2, <2>3, <3>1 DEF Launched, Waiting, Held, SameValue
  <2>7. ~Launched(b)'
    <3>1. ~Flying(b) BY <2>2, <2>3 DEF PendInv, RequestInv, RequestOK
    <3> QED BY <2>3, <3>1 DEF Launched, Flying, Held
  <2>8. Waiting(b)' => (Waiting(b) /\ SameValue(b)) \/ Fresh(b)
    <3>1. CASE UNCHANGED <<opc, ver>> BY <2>2, <2>3, <3>1 DEF Waiting, SameValue
    <3>2. CASE ver' = [ver EXCEPT ![b] = n] BY <2>2, <2>4, <2>5, <3>2 DEF Fresh
    <3> QED BY <2>2, <3>1, <3>2
  <2>9. Drift BY <2>6, <2>7, <2>8 DEF Drift
  <2>10. HashKept BY <2>3 DEF HashKept
  <2> QED BY <2>2, <2>9, <2>10
<1>2. CASE SyncIssue(t)
  <2>1. UNCHANGED <<key, opc, ver, bits, rqHash, devQ, subRq>>
    BY <1>2 DEF SyncIssue, reqVars, hashVars, subVars
  <2>2. \A r \in OpId : (Launched(r)' <=> Launched(r)) /\ (Waiting(r)' <=> Waiting(r))
    BY <2>1 DEF Launched, Waiting, Held
  <2> QED BY <1>2, <2>1, <2>2 DEF Drift, SameValue, HashKept
<1>3. CASE UNCHANGED <<key, opc, ver, dev>>
  <2>1. CASE Steady BY <1>3, <2>1, SteadyCalm, CalmRests, RestsDrift
  <2>2. CASE Joins(t)
    <3>1. PICK n \in OpId : n = me[t] /\ n \notin Inserted BY <2>2 DEF Joins
    <3>2. pc[t] \in Early /\ rqHash' \subseteq rqHash \cup {n} /\ UNCHANGED <<devQ, subRq>>
      BY <2>2, <3>1
      DEF Joins, AsyncInsertNew, AsyncInsertLocked, InsertBehind, Displace, Early
    <3>3. \A r \in OpId : "inFlight" \in bits'[r] <=> "inFlight" \in bits[r]
      <4>1. CASE AsyncInsertNew(t) BY <4>1 DEF AsyncInsertNew
      <4>2. CASE InsertBehind(t, buf[t])
        <5>1. bits' = [bits EXCEPT ![buf[t]] = @ \cup {"blocking"}] /\ bits \in [OpId -> SUBSET Bit]
          BY <4>2 DEF InsertBehind, MarkBlocking, TypeInv, ReqOK
        <5> QED BY <5>1
      <4> QED BY <2>2, <4>1, <4>2 DEF Joins
    <3>4. n \notin done /\ n # 0 /\ (IsWrite(opc[n]) => ver[n] = n)
      BY <3>1, <3>2, Facts DEF HistInv, ReturnedFirst, OwnValue, Early, NULL
    <3>5. \A r \in OpId : Launched(r)' <=> Launched(r) BY <1>3, <3>2 DEF Launched, Held
    <3>6. \A r \in OpId : r # n => (Waiting(r)' => Waiting(r))
      BY <1>3, <3>2, <3>3 DEF Waiting
    <3>7. Waiting(n)' => Fresh(n) BY <1>3, <3>4 DEF Waiting, Fresh
    <3>8. Drift BY <1>3, <3>1, <3>5, <3>6, <3>7 DEF Drift, SameValue
    <3>9. HashKept BY <3>1, <3>2, <3>3 DEF HashKept, Inserted
    <3> QED BY <1>3, <3>8, <3>9
  <2>3. CASE Cancels(t)
    <3>1. /\ rqHash' \subseteq rqHash /\ UNCHANGED <<devQ, subRq>>
          /\ \A r \in OpId : "inFlight" \in bits'[r] <=> "inFlight" \in bits[r]
      BY <2>3 DEF Cancels, FindBuffered, Invalidate, TypeInv, ReqOK
    <3>2. \A r \in OpId : (Launched(r)' <=> Launched(r)) /\ (Waiting(r)' => Waiting(r))
      BY <1>3, <3>1 DEF Launched, Waiting, Held
    <3> QED BY <1>3, <3>1, <3>2 DEF Drift, SameValue, HashKept, Inserted
  <2> QED BY <2>1, <2>2, <2>3, ThreadClasses
<1> QED BY <1>0, <1>1, <1>2, <1>3, ThreadValues

\* A new command is no write under way yet.
LEMMA EntersRests ==
  ASSUME TypeInv, HashInv, NEW t \in Thread, NEW n, Enters(t, n)
  PROVE  Rests /\ HashKept /\ HistoryKept /\ UNCHANGED dev
<1>1. n \in OpId /\ n \notin Inserted /\ \A m \in OpId : m <= nops => m # n
  <2>1. n \in Int /\ nops \in Int /\ n = nops + 1
    BY Facts DEF Enters, TypeInv, HistOK
  <2>2. ~(n <= nops) BY <2>1
  <2> QED BY <2>2 DEF Enters, Inserted
<1>2. ~Submitted(n) /\ n \notin rqHash BY <1>1, NewRq
<1>3. /\ UNCHANGED <<bits, rqHash, subRq, devQ, dev>>
      /\ \A r \in OpId : r # n =>
          /\ key'[r] = key[r] /\ opc'[r] = opc[r] /\ ver'[r] = ver[r] /\ before'[r] = before[r]
  BY DEF Enters
<1>4. ~Launched(n)' /\ ~Waiting(n)' /\ ~Launched(n) /\ ~Waiting(n)
  BY <1>2, <1>3 DEF Launched, Waiting, Held, Submitted
<1>5. \A r \in OpId : r # n =>
        (Launched(r)' <=> Launched(r)) /\ (Waiting(r)' <=> Waiting(r)) /\ SameValue(r)
  BY <1>3 DEF Launched, Waiting, Held, SameValue
<1>6. Rests BY <1>4, <1>5 DEF Rests, Remains, Pending
<1>7. HistoryKept BY <1>1, <1>3 DEF HistoryKept
<1> QED BY <1>3, <1>6, <1>7 DEF HashKept

\* The steps of the daemons keep the writes, submit one, or let the device execute one.
LEMMA DaemonRests ==
  ASSUME TypeInv, HashInv, CountInv, PendInv, DaemonStep
  PROVE  /\ HashKept
         /\ \/ Rests /\ UNCHANGED dev
            \/ \E r \in OpId : Launches(r) \/ Lands(r)
<1> USE DEF PendInv
<1> DEFINE Goal == /\ HashKept
                   /\ \/ Rests /\ UNCHANGED dev
                      \/ \E r \in OpId : Launches(r) \/ Lands(r)
<1>0. /\ UNCHANGED <<thrVars, nops, cmd, done, before, key, opc>>
      /\ rqHash' \subseteq rqHash
      /\ UNCHANGED <<ver, dev>> \/ \E r \in OpId : DeviceExec(r)
  BY DaemonRuns
<1>1. Inserted \subseteq OpId /\ rqHash \subseteq OpId BY DEF Inserted, TypeInv, HashOK
<1>2. ASSUME UNCHANGED <<ver, dev>>,
             \A r \in OpId : Launched(r)' <=> Launched(r),
             \A r \in OpId : Waiting(r) => r \in rqHash',
             \A r \in rqHash' : "inFlight" \in bits'[r] <=> "inFlight" \in bits[r]
      PROVE  Goal
  <2>1. \A r \in OpId : Waiting(r)' <=> Waiting(r) BY <1>0, <1>2 DEF Waiting
  <2> QED BY <1>0, <1>1, <1>2, <2>1 DEF Rests, Remains, SameValue, HashKept
<1>3. CASE UNCHANGED <<ver, dev>> /\ Calm
  BY <1>0, <1>3, CalmRests
<1>4. CASE UNCHANGED <<ver, dev, bits, subRq, devQ, rqHash>>
  BY <1>0, <1>2, <1>4 DEF Launched, Waiting, Held
<1>5. ASSUME NEW y \in Type, SubmitInvalid(y) PROVE Goal
  <2>1. UNCHANGED <<ver, dev, subRq, devQ, rqHash>>
    BY <1>5 DEF SubmitInvalid, subVars, devVars, hashVars
  <2>2. \A r \in OpId : "inFlight" \in bits'[r] <=> "inFlight" \in bits[r]
    BY <1>5 DEF SubmitInvalid, TypeInv, ReqOK
  <2> QED BY <1>0, <1>1, <1>2, <2>1, <2>2 DEF Launched, Waiting, Held
<1>6. ASSUME NEW y \in Type, SubmitRq(y) PROVE Goal
  <2>1. PICK m \in Memq, r \in OpId : m = subCur[y] /\ r = Head(mrq[m])
    BY <1>6, SubmitHead DEF SubmitRq, TypeInv, SubInv
  <2>2. /\ UNCHANGED <<ver, dev, rqHash>>
        /\ bits' = [bits EXCEPT ![r] = @ \cup {"inFlight"}]
        /\ "invalid" \notin bits[r] /\ mrq[m] # <<>> /\ blk[r] = NULL
        /\ \/ subRq' = [subRq EXCEPT ![y] = r] /\ devQ' = devQ
           \/ devQ' = devQ \cup {r} /\ subRq' = subRq
    BY <1>6, <2>1 DEF SubmitRq, hashVars
  <2>3. subRq \in [Type -> Ptr] /\ bits \in [OpId -> SUBSET Bit]
    BY DEF TypeInv, SubInv, SubOK, ReqOK
  <2>4. \A x \in OpId : x # r => (Launched(x)' <=> Launched(x)) /\ (Waiting(x)' <=> Waiting(x))
    <3>1. subRq[y] = NULL BY <1>6 DEF SubmitRq, CountInv, PlaceInv, DaemonsEmpty
    <3> QED BY <1>0, <2>2, <2>3, <3>1, Facts DEF Launched, Waiting, Held
  <2>5. "inFlight" \in bits'[r] BY <2>2, <2>3
  <2>6. HashKept BY <1>1, <2>2, <2>3, <2>5 DEF HashKept
  <2>7. CASE IsWrite(opc[r])
    <3>1. Queued(r) BY <2>1, <2>2, TailFacts DEF Queued, TypeInv, MemqOK
    <3>2. "inFlight" \notin bits[r] /\ r \in rqHash
      <4>1. ~Flying(r) BY <3>1 DEF CountInv, PlaceInv, OnePlace, Flying
      <4> QED BY <2>2, <3>1, <4>1 DEF RequestInv, RequestOK
    <3>3. Waiting(r) BY <2>7, <3>2 DEF Waiting
    <3>4. Held(r)' \/ r \in devQ' BY <2>2, <2>3 DEF Held
    <3>5. Launched(r)' BY <1>0, <2>7, <3>4 DEF Launched
    <3>6. Launches(r) BY <1>0, <2>2, <2>4, <2>5, <3>3, <3>5 DEF Launches
    <3> QED BY <2>6, <3>6
  <2>8. CASE ~IsWrite(opc[r])
    <3>1. ~Launched(r)' /\ ~Waiting(r)' /\ ~Launched(r) /\ ~Waiting(r)
      BY <1>0, <2>8 DEF Launched, Waiting
    <3>2. Rests BY <1>0, <2>2, <2>4, <3>1 DEF Rests, Remains, SameValue
    <3> QED BY <2>2, <2>6, <3>2
  <2> QED BY <2>7, <2>8
<1>7. ASSUME NEW y \in Type, SubmitResume(y) PROVE Goal
  <2>1. UNCHANGED <<ver, dev, bits>> /\ devQ' = devQ \cup {subRq[y]}
        /\ subRq' = [subRq EXCEPT ![y] = NULL]
    BY <1>7 DEF SubmitResume, reqVars
  <2>2. subRq \in [Type -> Ptr] BY DEF TypeInv, SubInv, SubOK
  <2>3. \A r \in OpId : Launched(r)' <=> Launched(r)
    BY <1>0, <2>1, <2>2, Facts DEF Launched, Held
  <2>4. UNCHANGED rqHash BY <1>7 DEF SubmitResume, hashVars
  <2> QED BY <1>2, <2>1, <2>3, <2>4 DEF Waiting
<1>8. ASSUME NEW r \in OpId, DeviceExec(r) PROVE Goal
  <2>1. /\ r \in devQ /\ devQ' = devQ \ {r} /\ UNCHANGED <<bits, rqHash, subRq>>
    BY <1>8 DEF DeviceExec, hashVars, subVars
  <2>2. \A x \in OpId : /\ x # r => (Launched(x)' <=> Launched(x))
                        /\ Waiting(x)' <=> Waiting(x)
    BY <1>0, <2>1 DEF Launched, Waiting, Held
  <2>3. ~Held(r) BY <2>1 DEF CountInv, PlaceInv, OnePlace
  <2>4. ~Launched(r)' BY <2>1, <2>3 DEF Launched, Held
  <2>5. HashKept BY <2>1 DEF HashKept
  <2>6. CASE IsWrite(opc[r])
    <3>1. UNCHANGED ver /\ dev' = [dev EXCEPT ![key[r]] = ver[r]] BY <1>8, <2>6 DEF DeviceExec
    <3>2. Launched(r) BY <2>1, <2>6 DEF Launched
    <3>3. Lands(r) BY <1>0, <2>1, <2>2, <2>4, <3>1, <3>2 DEF Lands
    <3> QED BY <2>5, <3>3
  <2>7. CASE ~IsWrite(opc[r])
    <3>1. UNCHANGED dev /\ ver' = [ver EXCEPT ![r] = dev[key[r]]] BY <1>8, <2>7 DEF DeviceExec
    <3>2. ~Launched(r) /\ ~Waiting(r) BY <2>7 DEF Launched, Waiting
    <3>3. \A x \in OpId : x # r => SameValue(x)
      BY <1>0, <3>1 DEF SameValue, TypeInv, ReqOK
    <3>4. Rests BY <2>2, <2>4, <3>2, <3>3 DEF Rests, Remains, Pending
    <3> QED BY <2>5, <3>1, <3>4
  <2> QED BY <2>6, <2>7
<1>9. ASSUME CompleteLock \/ CompleteDuplicate PROVE Goal
  <2>1. PICK c \in OpId : c = compCur
    BY <1>9 DEF CompleteLock, CompleteDuplicate, TypeInv, CompInv
  <2>2. UNCHANGED <<ver, dev, subRq, devQ, rqHash>>
    BY <1>9 DEF CompleteLock, CompleteDuplicate, devVars, subVars, hashVars
  <2>3. \A x \in OpId : x # c => bits'[x] = bits[x]
    BY <1>9, <2>1 DEF CompleteLock, CompleteDuplicate, TypeInv, ReqOK
  <2>4. c \notin rqHash
    <3>1. ~Queued(c) /\ ~Submitted(c)
      BY <1>9, <2>1, CurPlace DEF CompleteLock, CompleteDuplicate
    <3> QED BY <3>1 DEF RequestInv, RequestOK
  <2>5. \A x \in rqHash' : "inFlight" \in bits'[x] <=> "inFlight" \in bits[x]
    BY <1>1, <2>2, <2>3, <2>4
  <2> QED BY <1>0, <1>2, <2>2, <2>5 DEF Launched, Waiting, Held
<1>10. CASE CompleteUnhash
  <2>1. UNCHANGED <<ver, dev, bits, subRq, devQ>> /\ rqHash' = rqHash \ {compCur}
    BY <1>10 DEF CompleteUnhash, reqVars, subVars, devVars
  <2>2. Flying(compCur) /\ compCur \in OpId
    BY <1>10 DEF CompleteUnhash, Flying, Completing, TypeInv, CompInv
  <2>3. "inFlight" \in bits[compCur] BY <2>2 DEF RequestInv, RequestOK
  <2> QED BY <1>0, <1>2, <2>1, <2>3 DEF Launched, Waiting, Held
<1>11. CASE CompleteDequeue \/ CompleteFindPending \/ CompleteUnblock
            \/ CompleteFini
  <2>1. UNCHANGED <<ver, dev, bits, subRq, devQ, rqHash>>
    BY <1>11 DEF CompleteDequeue, CompleteFindPending, CompleteUnblock, CompleteFini,
                 reqVars, subVars, devVars, hashVars
  <2> QED BY <1>4, <2>1
<1>12. CASE \/ InterruptWake \/ CompleteStart \/ CompleteLowWatermark
            \/ \E y \in Type : CompleteWake(y)
            \/ \E y \in Type : \/ Schedule(y) \/ SubmitStart(y) \/ SubmitEnd(y)
                               \/ SubmitPark(y) \/ SubmitKick(y) \/ SubmitSleep(y)
                               \/ SubmitTake(y) \/ SubmitCongested(y) \/ SubmitDone(y)
  BY <1>0, <1>3, <1>8, <1>12, DaemonCalm
<1> QED BY <1>5, <1>6, <1>7, <1>8, <1>9, <1>10, <1>11, <1>12
        DEF DaemonStep, SubmitStep, Device, CompleteStep

-----------------------------------------------------------------------------
(* The theorem. *)

\* What the device holds is not overwritten by an older value.
NewerWritten == \A k \in Key : dev'[k] # dev[k] => ~Older(dev'[k], dev[k])

\* Everything known of a state.
SchedInv == TypeInv /\ HashInv /\ CountInv /\ PendInv /\ RefInv

\* The steps of a thread.
LEMMA ThreadOrder ==
  ASSUME SchedInv, TypeInv', OrderInv, NEW t \in Thread, ThreadStep(t)
  PROVE  OrderInv' /\ NewerWritten
<1> USE DEF SchedInv, OrderInv
<1>0. HistInv BY DEF HistInv
<1>1. HistInv' /\ Steps(t) BY <1>0, ThreadHist
<1>2. Drift /\ HashKept /\ UNCHANGED key /\ (UNCHANGED dev \/ SyncIssue(t))
  BY <1>0, ThreadDrift
<1>3. HistoryKept BY <1>1, <1>2 DEF Steps, HistoryKept
<1>4. OldOrFresh BY <1>2 DEF Drift, OldOrFresh, Pending
<1>5. Ordered' BY <1>0, <1>2, <1>3, DriftOrdered, IssueOrdered
<1>6. SyncApart'
  <2>1. ASSUME NEW u \in Thread PROVE Apart(u)'
    <3>1. Apart(u) BY DEF SyncApart
    <3>2. CASE u = t BY <1>0, <1>1, <1>3, <1>4, <3>1, <3>2, OwnApart
    <3>3. CASE u # t
      <4>1. pc'[u] = pc[u] /\ me'[u] = me[u] BY <1>1, <3>3 DEF Steps
      <4>2. Fair(t) BY ThreadFair DEF PendInv
      <4>3. buf'[u] = buf[u] BY <3>3, <4>2 DEF Fair, Orderly, ThreadOnly
      <4> QED BY <1>0, <1>2, <1>3, <1>4, <3>1, <4>1, <4>3, OtherApart
    <3> QED BY <3>2, <3>3
  <2> QED BY <2>1 DEF SyncApart
<1>7. NewerWritten
  <2>1. CASE UNCHANGED dev BY <2>1 DEF NewerWritten
  <2>2. CASE SyncIssue(t)
    <3>1. PICK n \in OpId : n = me[t] BY <2>2 DEF SyncIssue, TypeInv, ThrInv
    <3>2. ver[n] = n /\ n \notin done
      BY <2>2, <3>1 DEF SyncIssue, OwnValue, ReturnedFirst, SyncPc
    <3>3. \A k \in Key : dev'[k] # dev[k] => dev'[k] = n
      BY <2>2, <3>1, <3>2 DEF SyncIssue, TypeInv, DevOK
    <3>4. ASSUME NEW k \in Key PROVE ~Older(n, dev[k])
      <4>1. dev[k] = 0 \/ dev[k] \in OpId BY DEF TypeInv, DevOK, Ptr, OpId
      <4> QED BY <3>1, <3>2, <4>1, Facts DEF Older, ReturnedFirst, NULL
    <3> QED BY <3>3, <3>4 DEF NewerWritten
  <2> QED BY <1>2, <2>1, <2>2
<1> QED BY <1>1, <1>5, <1>6, <1>7 DEF HistInv

\* The steps of the daemons and of the device.
LEMMA DaemonOrder ==
  ASSUME SchedInv, TypeInv', OneInFlight, OrderInv, DaemonStep
  PROVE  OrderInv' /\ NewerWritten
<1> USE DEF SchedInv, OrderInv
<1>0. HistInv BY DEF HistInv
<1>1. HistInv' BY <1>0, DaemonHist
<1>2. UNCHANGED <<pc, me, buf, nops, before, key>> BY DaemonRuns DEF thrVars
<1>3. HistoryKept BY <1>2 DEF HistoryKept
<1>4. HashKept BY DaemonRests
<1>5. Ordered' /\ OldOrFresh /\ NewerWritten
  <2>1. CASE Drift /\ UNCHANGED dev
    BY <1>0, <1>3, <2>1, DriftOrdered DEF Drift, OldOrFresh, Pending, NewerWritten
  <2>2. ASSUME NEW r \in OpId, Launches(r) PROVE Ordered' /\ OldOrFresh /\ NewerWritten
    BY <2>2, LaunchesOrdered DEF Launches, OldOrFresh, Pending, SameValue, NewerWritten
  <2>3. ASSUME NEW r \in OpId, Lands(r) PROVE Ordered' /\ OldOrFresh /\ NewerWritten
    <3>1. Ordered' BY <2>3, LandsOrdered
    <3>2. OldOrFresh BY <2>3 DEF Lands, OldOrFresh, Pending, SameValue
    <3>3. ~Older(ver[r], dev[key[r]]) BY <2>3 DEF Lands, Pending, Ordered
    <3>4. \A k \in Key : dev'[k] # dev[k] => k = key[r] /\ dev'[k] = ver[r]
      BY <2>3 DEF Lands, TypeInv, DevOK
    <3> QED BY <3>1, <3>2, <3>3, <3>4 DEF NewerWritten
  <2> QED BY <2>1, <2>2, <2>3, DaemonRests, RestsDrift
<1>6. SyncApart' BY <1>0, <1>2, <1>3, <1>4, <1>5, OtherApart DEF SyncApart
<1> QED BY <1>1, <1>5, <1>6 DEF HistInv

\* The entry of an ioctl.
LEMMA InvokeOrder ==
  ASSUME "retrieve" \notin SyncOps, SchedInv, TypeInv', OrderInv, NEW t \in Thread, Invoke(t)
  PROVE  OrderInv' /\ NewerWritten
<1> USE DEF SchedInv, OrderInv
<1>0. HistInv BY DEF HistInv
<1>1. PICK n : n = nops + 1 OBVIOUS
<1>2. Enters(t, n) BY <1>1, InvokeEnters
<1>3. HistInv' BY <1>0, <1>2, EntersHist
<1>4. Drift /\ HashKept /\ HistoryKept /\ UNCHANGED dev BY <1>2, EntersRests, RestsDrift
<1>5. OldOrFresh BY <1>4 DEF Drift, OldOrFresh, Pending
<1>6. Ordered' BY <1>0, <1>4, DriftOrdered
<1>7. SyncApart'
  <2>1. ASSUME NEW u \in Thread PROVE Apart(u)'
    <3>1. Apart(u) BY DEF SyncApart
    <3>2. CASE u = t BY <1>2, <3>2 DEF Enters, Apart
    <3>3. CASE u # t
      <4>1. pc'[u] = pc[u] /\ me'[u] = me[u] /\ buf'[u] = buf[u] BY <1>2, <3>3 DEF Enters
      <4> QED BY <1>0, <1>4, <1>5, <3>1, <4>1, OtherApart
    <3> QED BY <3>2, <3>3
  <2> QED BY <2>1 DEF SyncApart
<1> QED BY <1>3, <1>4, <1>6, <1>7 DEF HistInv, NewerWritten

\* The first state.
LEMMA OrderInit == Init => OrderInv
<1> SUFFICES ASSUME Init PROVE OrderInv OBVIOUS
<1>1. ReturnedFirst BY DEF Init, ReturnedFirst
<1>2. Versions BY DEF Init, Versions, IsWrite
<1>3. OwnValue BY DEF Init, OwnValue, Early, SyncPc
<1>4. \A r \in OpId : ~Pending(r) BY DEF Init, Pending, Launched, Waiting, IsWrite
<1>5. Ordered BY <1>4 DEF Ordered, Pending
<1>6. SyncApart BY DEF Init, SyncApart, Apart
<1> QED BY <1>1, <1>2, <1>3, <1>5, <1>6 DEF OrderInv

\* Every step preserves the invariant and overwrites no value by an older one.
LEMMA OrderStep ==
  ASSUME "retrieve" \notin SyncOps
  PROVE  /\ SchedInv /\ OneInFlight /\ OrderInv /\ [Next]_vars => OrderInv'
         /\ SchedInv /\ OneInFlight /\ OrderInv /\ [Next]_vars => [NewerWritten]_vars
<1> SUFFICES ASSUME SchedInv, OneInFlight, OrderInv, [Next]_vars
             PROVE  OrderInv' /\ (UNCHANGED vars \/ NewerWritten)
  OBVIOUS
<1>1. TypeInv' BY TypeStep DEF SchedInv
<1>2. ASSUME UNCHANGED vars PROVE OrderInv'
  <2> USE <1>2 DEF vars, reqVars, hashVars, memqVars, thrVars, subVars, compVars, devVars,
                   histVars
  <2>1. \A r \in OpId : /\ Launched(r)' <=> Launched(r)
                        /\ Waiting(r)' <=> Waiting(r)
    BY DEF Launched, Waiting, Held
  <2>2. ReturnedFirst' /\ Versions' /\ OwnValue'
    BY DEF OrderInv, ReturnedFirst, Versions, OwnValue
  <2>3. Ordered' BY <2>1 DEF OrderInv, Ordered, Pending, Older
  <2>4. SyncApart' BY <2>1 DEF OrderInv, SyncApart, Apart, Passed, Pending
  <2> QED BY <2>2, <2>3, <2>4 DEF OrderInv
<1>3. ASSUME NEW t \in Thread, Invoke(t) PROVE OrderInv' /\ NewerWritten
  BY <1>1, <1>3, InvokeOrder
<1>4. ASSUME NEW t \in Thread, ThreadStep(t) PROVE OrderInv' /\ NewerWritten
  BY <1>1, <1>4, ThreadOrder
<1>5. ASSUME DaemonStep PROVE OrderInv' /\ NewerWritten
  BY <1>1, <1>5, DaemonOrder
<1>6. ASSUME Quiescent PROVE UNCHANGED vars BY <1>6 DEF Quiescent
<1> QED BY <1>2, <1>3, <1>4, <1>5, <1>6 DEF Next, DaemonStep

\* The invariant.
LEMMA OrderInvariant ==
  ASSUME "retrieve" \notin SyncOps
  PROVE  Spec => [](SchedInv /\ OneInFlight /\ OrderInv)
<1>1. Init => OrderInv BY OrderInit
<1>2. SchedInv /\ OneInFlight /\ OrderInv /\ [Next]_vars => OrderInv' BY OrderStep
<1>3. TypeInv /\ HashInv /\ CountInv /\ PendInv /\ RefInv => SchedInv BY DEF SchedInv
<1> QED BY <1>1, <1>2, <1>3, RefInvariant, OneInFlightAlways, PTL DEF Spec

\* Writes reach the device in an order their callers can observe: a value is never
\* overwritten by one whose command had returned before the other's was invoked.  This
\* holds for any number of threads that mix asynchronous commands, synchronous puts and
\* deletes and flushes; a synchronous get may send a put it took over (kv_hash.c 331-339),
\* for which the code gives up the order.
THEOREM WriteOrderAlways ==
  ASSUME "retrieve" \notin SyncOps
  PROVE  Spec => WriteOrder
<1>1. SchedInv /\ OneInFlight /\ OrderInv /\ [Next]_vars =>
        [\A k \in Key : dev'[k] # dev[k] => ~Older(dev'[k], dev[k])]_vars
  BY OrderStep DEF NewerWritten
<1> QED BY <1>1, OrderInvariant, PTL DEF Spec, WriteOrder

-----------------------------------------------------------------------------
(* The write-back buffer, without synchronous commands. *)

\* No thread is in a synchronous command, only a get searches the read-ahead hash first,
\* and what has not been issued is no command.
AsyncOnly ==
    /\ \A t \in Thread : pc[t] \notin SyncPc
    /\ \A t \in Thread : pc[t] \in {"ra_check", "ra_find"} => cmd[me[t]].op = "retrieve"
    /\ \A n \in OpId : n > nops => cmd[n].kind = "none"

-----------------------------------------------------------------------------
(* The slots. *)

\* What KVCoalesce sees of a set of requests, given their values.
SlotOf(S, value) == IF S = {} THEN NULL ELSE value[CHOOSE r \in S : TRUE]

\* A set of at most one request is a slot.
LEMMA SlotIs ==
  ASSUME NEW S, NEW value, \A r, s \in S : r = s
  PROVE  /\ S = {} => SlotOf(S, value) = NULL
         /\ \A r \in S : SlotOf(S, value) = value[r]
<1>1. ASSUME NEW r \in S PROVE SlotOf(S, value) = value[r]
  <2>1. (CHOOSE x \in S : TRUE) \in S OBVIOUS
  <2>2. (CHOOSE x \in S : TRUE) = r BY <2>1
  <2>3. S # {} OBVIOUS
  <2> QED BY <2>2, <2>3 DEF SlotOf
<1> QED BY <1>1 DEF SlotOf

\* The writes under way and the buffered writes of a key.
FlyingSet(k) == {r \in OpId : Launched(r) /\ key[r] = k}
WaitingSet(k) == {r \in OpId : Waiting(r) /\ key[r] = k}

\* What the refinement mapping reads from them.
SlotsRead ==
    \A k \in Key :
        /\ FlyingSet(k) = {} => Newest(UnderWay(k)) = NULL
        /\ \A r \in FlyingSet(k) : Newest(UnderWay(k)) = ver[r]
        /\ WaitingSet(k) = {} => Newest(Buffered(k)) = NULL
        /\ \A r \in WaitingSet(k) : Newest(Buffered(k)) = ver[r]

\* Each has at most one request, so it reads that one's value.
LEMMA Slots == TypeInv /\ HashInv /\ OneInFlight => SlotsRead
<1> SUFFICES ASSUME TypeInv, HashInv, OneInFlight, NEW k \in Key
             PROVE  /\ FlyingSet(k) = {} => Newest(UnderWay(k)) = NULL
                    /\ \A r \in FlyingSet(k) : Newest(UnderWay(k)) = ver[r]
                    /\ WaitingSet(k) = {} => Newest(Buffered(k)) = NULL
                    /\ \A r \in WaitingSet(k) : Newest(Buffered(k)) = ver[r]
  BY DEF SlotsRead
<1>1. UnderWay(k) = FlyingSet(k)
  <2>1. devQ \subseteq OpId /\ \A y \in Type : subRq[y] # NULL => subRq[y] \in OpId
    BY Facts DEF TypeInv, DevOK, SubInv, SubOK, Ptr, OpId, NULL
  <2>2. \A r \in OpId : r # NULL /\ (Held(r) <=> \E y \in Type : subRq[y] = r)
    BY Facts DEF Held
  <2> QED BY <2>1, <2>2 DEF UnderWay, FlyingSet, Launched
<1>2. Buffered(k) = WaitingSet(k)
  BY DEF Buffered, WaitingSet, Waiting, TypeInv, HashOK
<1>3. \A r, s \in FlyingSet(k) : r = s
  <2>1. \A z \in OpId : Launched(z) => z \in devQ \cup ({subRq[y] : y \in Type} \ {NULL})
    BY Facts DEF Launched, Held
  <2> QED BY <2>1 DEF FlyingSet, OneInFlight
<1>4. \A r, s \in WaitingSet(k) : r = s BY DEF WaitingSet, Waiting, HashInv, HashUnique
<1>5. \A S : Newest(S) = SlotOf(S, ver) BY DEF Newest, SlotOf
<1> QED BY <1>1, <1>2, <1>3, <1>4, <1>5, SlotIs

\* Slots of a key whose requests stay.
LEMMA FlyingKept ==
  ASSUME SlotsRead, SlotsRead', NEW k \in Key,
         \A r \in OpId : (r \in FlyingSet(k))' <=> r \in FlyingSet(k),
         \A r \in FlyingSet(k) : ver'[r] = ver[r]
  PROVE  Newest(UnderWay(k))' = Newest(UnderWay(k))
<1>1. FlyingSet(k)' = FlyingSet(k) BY DEF FlyingSet
<1>2. CASE FlyingSet(k) = {} BY <1>1, <1>2 DEF SlotsRead
<1>3. ASSUME NEW r \in FlyingSet(k) PROVE Newest(UnderWay(k))' = Newest(UnderWay(k))
  BY <1>1, <1>3 DEF SlotsRead
<1> QED BY <1>2, <1>3

\* The same of the slot that waits.
LEMMA WaitingKept ==
  ASSUME SlotsRead, SlotsRead', NEW k \in Key,
         \A r \in OpId : (r \in WaitingSet(k))' <=> r \in WaitingSet(k),
         \A r \in WaitingSet(k) : ver'[r] = ver[r]
  PROVE  Newest(Buffered(k))' = Newest(Buffered(k))
<1>1. WaitingSet(k)' = WaitingSet(k) BY DEF WaitingSet
<1>2. CASE WaitingSet(k) = {} BY <1>1, <1>2 DEF SlotsRead
<1>3. ASSUME NEW r \in WaitingSet(k) PROVE Newest(Buffered(k))' = Newest(Buffered(k))
  BY <1>1, <1>3 DEF SlotsRead
<1> QED BY <1>2, <1>3

\* A step that keeps the writes keeps the slots.
LEMMA RestsSlots ==
  ASSUME SlotsRead, SlotsRead', Rests, UNCHANGED dev, UNCHANGED (Writes \ Inserting)
  PROVE  UNCHANGED Coalesce!vars
<1>1. ASSUME NEW k \in Key
      PROVE  /\ Newest(UnderWay(k))' = Newest(UnderWay(k))
             /\ Newest(Buffered(k))' = Newest(Buffered(k))
  <2>1. \A r \in OpId : (r \in FlyingSet(k))' <=> r \in FlyingSet(k)
    BY DEF FlyingSet, Rests, Remains, Pending, SameValue
  <2>2. \A r \in OpId : (r \in WaitingSet(k))' <=> r \in WaitingSet(k)
    BY DEF WaitingSet, Rests, Remains, Pending, SameValue
  <2>3. \A r \in FlyingSet(k) \cup WaitingSet(k) : ver'[r] = ver[r]
    BY DEF FlyingSet, WaitingSet, Pending, Rests, Remains, SameValue
  <2> QED BY <2>1, <2>2, <2>3, FlyingKept, WaitingKept
<1> QED BY <1>1 DEF Coalesce!vars

\* A submission starts the waiting write of its key.
LEMMA LaunchesSlots ==
  ASSUME TypeInv, HashInv, PendInv, HistInv, SlotsRead, SlotsRead', NEW r \in OpId,
         Launches(r), UNCHANGED (Writes \ Inserting)
  PROVE  Coalesce!Next
<1>1. PICK k \in Key : k = key[r] BY DEF TypeInv, ReqOK
<1>2. UNCHANGED <<key, ver, dev>> BY DEF Launches
<1>3. r \in WaitingSet(k) /\ FlyingSet(k) = {}
  <2>1. ASSUME NEW x \in OpId, Launched(x), key[x] = k PROVE FALSE
    <3>1. x = r BY <1>1, <2>1, HashTells DEF Launches, Waiting, Pending
    <3>2. "inFlight" \in bits[x] BY <2>1, LaunchedPlace
    <3> QED BY <3>1, <3>2 DEF Launches, Waiting
  <2> QED BY <1>1, <2>1 DEF WaitingSet, FlyingSet, Launches
<1>4. (r \in FlyingSet(k))' BY <1>1, <1>2 DEF FlyingSet, Launches
<1>5. WaitingSet(k)' = {}
  <2>1. ~Waiting(r)' BY DEF Launches, Waiting
  <2>2. ASSUME NEW x \in OpId, x # r, Waiting(x)', key'[x] = k PROVE FALSE
    BY <1>1, <1>2, <2>2 DEF Launches, Waiting, HashInv, HashUnique
  <2> QED BY <2>1, <2>2 DEF WaitingSet
<1>6. /\ Newest(Buffered(k)) = ver[r] /\ Newest(UnderWay(k)) = NULL
      /\ Newest(Buffered(k))' = NULL /\ Newest(UnderWay(k))' = ver[r]
  BY <1>2, <1>3, <1>4, <1>5 DEF SlotsRead
<1>7. ver[r] # NULL BY DEF Launches, Waiting, HistInv, Versions, NULL
<1>8. ASSUME NEW j \in Key, j # k
      PROVE  /\ Newest(UnderWay(j))' = Newest(UnderWay(j))
             /\ Newest(Buffered(j))' = Newest(Buffered(j))
  <2>1. \A x \in OpId : (x \in FlyingSet(j))' <=> x \in FlyingSet(j)
    BY <1>1, <1>2, <1>8 DEF FlyingSet, Launches
  <2>2. \A x \in OpId : (x \in WaitingSet(j))' <=> x \in WaitingSet(j)
    BY <1>1, <1>2, <1>8 DEF WaitingSet, Launches
  <2> QED BY <1>2, <2>1, <2>2, FlyingKept, WaitingKept
<1>9. Coalesce!Start(k) BY <1>2, <1>6, <1>7, <1>8 DEF Coalesce!Start, Coalesce!None, NULL
<1> QED BY <1>9 DEF Coalesce!Next

\* The device applies the write under way.
LEMMA LandsSlots ==
  ASSUME TypeInv, HistInv, OneInFlight, SlotsRead, SlotsRead', NEW r \in OpId,
         Lands(r), UNCHANGED (Writes \ Inserting)
  PROVE  Coalesce!Next
<1>1. PICK k \in Key : k = key[r] BY DEF TypeInv, ReqOK
<1>2. UNCHANGED <<key, ver>> /\ dev' = [dev EXCEPT ![k] = ver[r]] BY <1>1 DEF Lands
<1>3. r \in FlyingSet(k) BY <1>1 DEF FlyingSet, Lands
<1>4. FlyingSet(k)' = {}
  <2>1. \A z \in OpId : Launched(z) => z \in devQ \cup ({subRq[y] : y \in Type} \ {NULL})
    BY Facts DEF Launched, Held
  <2>2. ASSUME NEW x \in OpId, Launched(x)', key'[x] = k PROVE FALSE
    <3>1. Launched(x) /\ Launched(r) /\ x # r BY <2>2 DEF Lands
    <3> QED BY <1>1, <1>2, <2>1, <2>2, <3>1 DEF OneInFlight
  <2> QED BY <2>2 DEF FlyingSet
<1>5. Newest(UnderWay(k)) = ver[r] /\ Newest(UnderWay(k))' = NULL
  BY <1>3, <1>4 DEF SlotsRead
<1>6. ver[r] # NULL BY DEF Lands, Launched, HistInv, Versions, NULL
<1>7. ASSUME NEW j \in Key, j # k PROVE Newest(UnderWay(j))' = Newest(UnderWay(j))
  <2>1. \A x \in OpId : (x \in FlyingSet(j))' <=> x \in FlyingSet(j)
    BY <1>1, <1>2, <1>7 DEF FlyingSet, Lands
  <2> QED BY <1>2, <2>1, FlyingKept
<1>8. ASSUME NEW j \in Key PROVE Newest(Buffered(j))' = Newest(Buffered(j))
  <2>1. \A x \in OpId : (x \in WaitingSet(j))' <=> x \in WaitingSet(j)
    BY <1>2 DEF WaitingSet, Lands
  <2> QED BY <1>2, <2>1, WaitingKept
<1>9. Coalesce!Apply(k)
  BY <1>2, <1>5, <1>6, <1>7, <1>8 DEF Coalesce!Apply, Coalesce!None, NULL
<1> QED BY <1>9 DEF Coalesce!Next

\* A thread puts the value of its write n into the hash, in a new request or in the
\* buffered one.
Accepts(n, b) ==
    /\ Waiting(b)' /\ ~Launched(b) /\ ~Launched(b)' /\ ver'[b] = n
    /\ \A r \in OpId : r # b => Remains(r)
    /\ UNCHANGED <<key, dev>> /\ key[b] = key[n]
    /\ n \in Inserting /\ (Writes \ Inserting)' = (Writes \ Inserting) \cup {n}

\* The write takes the waiting slot of its key.
LEMMA AcceptsSlots ==
  ASSUME TypeInv, SlotsRead, SlotsRead', NEW n \in OpId, NEW b \in OpId,
         Accepts(n, b)
  PROVE  Coalesce!Next
<1>1. PICK k \in Key : k = key[b] BY DEF TypeInv, ReqOK
<1>2. (b \in WaitingSet(k))' BY <1>1 DEF WaitingSet, Accepts
<1>3. Newest(Buffered(k))' = n BY <1>2 DEF SlotsRead, Accepts
<1>4. ASSUME NEW j \in Key PROVE Newest(UnderWay(j))' = Newest(UnderWay(j))
  <2>1. \A r \in OpId : (r \in FlyingSet(j))' <=> r \in FlyingSet(j)
    BY DEF FlyingSet, Accepts, Remains
  <2>2. \A r \in FlyingSet(j) : ver'[r] = ver[r]
    BY DEF FlyingSet, Accepts, Remains, Pending, SameValue
  <2> QED BY <2>1, <2>2, FlyingKept
<1>5. ASSUME NEW j \in Key, j # k PROVE Newest(Buffered(j))' = Newest(Buffered(j))
  <2>1. \A r \in OpId : (r \in WaitingSet(j))' <=> r \in WaitingSet(j)
    BY <1>1, <1>5 DEF WaitingSet, Accepts, Remains
  <2>2. \A r \in WaitingSet(j) : ver'[r] = ver[r]
    BY <1>1, <1>5 DEF WaitingSet, Accepts, Remains, Pending, SameValue
  <2> QED BY <2>1, <2>2, WaitingKept
<1>6. Coalesce!Accept(k, n) BY <1>3, <1>4, <1>5 DEF Coalesce!Accept, Accepts
<1> QED BY <1>6 DEF Coalesce!Next

-----------------------------------------------------------------------------
(* The steps. *)

InsertPc == {"insert", "ins_lock"}

\* A thread that is done with inserting its command has handed it over.
LEMMA InsertingLeft ==
  ASSUME TypeInv, HashInv, NEW t \in Thread, Steps(t), pc[t] \in InsertPc,
         pc'[t] \notin InsertPc, NEW n, n = me[t]
  PROVE  /\ n \in Inserting /\ Writes' = Writes
         /\ (Writes \ Inserting)' = (Writes \ Inserting) \cup ({n} \cap Writes)
<1>1. Writes' = Writes BY DEF Writes, Steps
<1>2. n \in Inserting BY DEF Inserting, InsertPc
<1>3. \A u \in Thread : u # t /\ pc[u] \in InsertPc => me[u] # n
  BY DEF HashInv, OwnCommand, InsertPc
<1>4. \A u \in Thread : pc'[u] \in InsertPc <=> u # t /\ pc[u] \in InsertPc BY DEF Steps
<1>5. \A u \in Thread : u # t => me'[u] = me[u] BY DEF Steps
<1>6. Inserting' = Inserting \ {n}
  <2>1. \A x : x \in Inserting <=> \E u \in Thread : pc[u] \in InsertPc /\ me[u] = x
    BY DEF Inserting, InsertPc
  <2>2. \A x : x \in Inserting' <=> \E u \in Thread : pc'[u] \in InsertPc /\ me'[u] = x
    BY DEF Inserting, InsertPc
  <2>3. \A x : x \in Inserting' <=> x \in Inserting /\ x # n
    BY <1>3, <1>4, <1>5, <2>1, <2>2
  <2> QED BY <2>3
<1> QED BY <1>1, <1>2, <1>6

\* The other steps of a thread accept nothing.
LEMMA InsertingKept ==
  ASSUME TypeInv, AsyncOnly, NEW t \in Thread, Steps(t),
         pc[t] \in InsertPc => pc'[t] \in InsertPc,
         pc'[t] \in InsertPc => pc[t] \in InsertPc \cup {"ra_check"}
  PROVE  UNCHANGED (Writes \ Inserting)
<1>1. Writes' = Writes BY DEF Writes, Steps
<1>2. PICK n : n = me[t] OBVIOUS
<1>3. pc[t] = "ra_check" => n \notin Writes
  BY <1>2 DEF AsyncOnly, Writes, IsWrite
<1>4. \A u \in Thread : u # t => me'[u] = me[u] /\ (pc'[u] \in InsertPc <=> pc[u] \in InsertPc)
  BY DEF Steps
<1>5. pc'[t] \in InsertPc => me'[t] = n BY <1>2 DEF Steps, InsertPc
<1>6. \A x : x \in Inserting <=> \E u \in Thread : pc[u] \in InsertPc /\ me[u] = x
  BY DEF Inserting, InsertPc
<1>7. \A x : x \in Inserting' <=> \E u \in Thread : pc'[u] \in InsertPc /\ me'[u] = x
  BY DEF Inserting, InsertPc
<1>8. \A x \in Writes : x \in Inserting' <=> x \in Inserting
  BY <1>2, <1>3, <1>4, <1>5, <1>6, <1>7
<1> QED BY <1>1, <1>8

\* What is accepted when a thread has inserted its command: a write.
LEMMA InsertAccepted ==
  ASSUME TypeInv, HashInv, HistInv, NEW t \in Thread, Steps(t), pc[t] \in InsertPc,
         pc'[t] \notin InsertPc, NEW n, n = me[t]
  PROVE  /\ n \in Inserting /\ n \in OpId
         /\ IsWrite(opc[n]) =>
               ver[n] = n /\ (Writes \ Inserting)' = (Writes \ Inserting) \cup {n}
         /\ ~IsWrite(opc[n]) => UNCHANGED (Writes \ Inserting)
<1>1. n \in OpId BY DEF TypeInv, ThrInv, InsertPc
<1>2. /\ cmd[n].kind = "async" /\ cmd[n].op = opc[n]
      /\ IsWrite(opc[n]) => ver[n] = n
  BY DEF HistInv, OwnValue, Early, InsertPc
<1>3. n \in Writes <=> IsWrite(opc[n]) BY <1>1, <1>2 DEF Writes
<1>4. /\ n \in Inserting
      /\ (Writes \ Inserting)' = (Writes \ Inserting) \cup ({n} \cap Writes)
  BY InsertingLeft
<1>5. IsWrite(opc[n]) => {n} \cap Writes = {n} BY <1>3
<1>6. ~IsWrite(opc[n]) => {n} \cap Writes = {} BY <1>3
<1> QED BY <1>1, <1>2, <1>4, <1>5, <1>6

\* A request that joins the hash, or waits there behind the one in flight.
LEMMA JoinsAccepts ==
  ASSUME TypeInv, HashInv, PendInv, HistInv, NEW t \in Thread, Joins(t), Steps(t)
  PROVE  \/ Rests /\ UNCHANGED <<dev, Writes \ Inserting>>
         \/ \E n, b \in OpId : Accepts(n, b)
<1>1. PICK n \in OpId : n = me[t] /\ n \notin Inserted BY DEF Joins
<1>2. /\ pc[t] \in InsertPc /\ pc'[t] \notin InsertPc
      /\ UNCHANGED <<key, opc, ver, dev, devQ, subRq>>
  BY DEF Joins, AsyncInsertNew, AsyncInsertLocked, InsertBehind, AfterEnqueue, Goto, InsertPc,
         TypeInv, ThrInv, ThrOK, devVars
<1>3. ASSUME NEW r \in OpId
      PROVE  /\ "inFlight" \in bits'[r] <=> "inFlight" \in bits[r]
             /\ r # n /\ "inFlight" \notin bits[r] => (r \in rqHash' <=> r \in rqHash)
             /\ n \in rqHash'
  <2>1. CASE AsyncInsertNew(t) BY <1>1, <2>1 DEF AsyncInsertNew
  <2>2. CASE AsyncInsertLocked(t) /\ InsertBehind(t, buf[t])
    <3>1. PICK b \in OpId : b = buf[t] BY <2>2 DEF AsyncInsertLocked, TypeInv, ThrInv
    <3>2. /\ bits' = [bits EXCEPT ![b] = @ \cup {"blocking"}] /\ bits \in [OpId -> SUBSET Bit]
          /\ rqHash' = (rqHash \ {b}) \cup {n}
      BY <1>1, <2>2, <3>1 DEF InsertBehind, MarkBlocking, Displace, TypeInv, ReqOK
    <3>3. "inFlight" \in bits[b]
      <4>1. ~Unusable(b)
        BY <2>2, <3>1 DEF AsyncInsertLocked, HashInv, BucketHeld, HashUsable
      <4>2. CASE InsertMerge(t, b)
        <5>1. rqHash' = rqHash BY <4>2 DEF InsertMerge
        <5>2. n \notin rqHash BY <1>1 DEF HashInv, InsertedFirst
        <5> QED BY <3>2, <5>1, <5>2
      <4> QED BY <2>2, <3>1, <4>1, <4>2 DEF AsyncInsertLocked
    <3> QED BY <3>2, <3>3
  <2> QED BY <2>1, <2>2 DEF Joins
<1>4. ~Launched(n) /\ ~Launched(n)' /\ ~Waiting(n) /\ "inFlight" \notin bits[n]
  <2>1. n \notin rqHash /\ ~Flying(n) BY <1>1, NewRq
  <2>2. "inFlight" \notin bits[n] BY <2>1 DEF PendInv, RequestInv, RequestOK
  <2> QED BY <1>2, <2>1, <2>2 DEF Launched, Waiting, Flying, Held
<1>5. \A r \in OpId : r # n => Remains(r)
  BY <1>2, <1>3 DEF Remains, Launched, Waiting, Held, SameValue
<1>6. /\ n \in Inserting
      /\ IsWrite(opc[n]) => ver[n] = n /\ (Writes \ Inserting)' = (Writes \ Inserting) \cup {n}
      /\ ~IsWrite(opc[n]) => UNCHANGED (Writes \ Inserting)
  BY <1>1, <1>2, InsertAccepted
<1>7. CASE IsWrite(opc[n])
  <2>1. Waiting(n)' BY <1>2, <1>3, <1>4, <1>7 DEF Waiting
  <2>2. Accepts(n, n) BY <1>2, <1>4, <1>5, <1>6, <1>7, <2>1 DEF Accepts
  <2> QED BY <2>2
<1>8. CASE ~IsWrite(opc[n])
  <2>1. Remains(n) BY <1>2, <1>4, <1>8 DEF Remains, Launched, Waiting, SameValue
  <2> QED BY <1>2, <1>5, <1>6, <1>8, <2>1 DEF Rests
<1> QED BY <1>7, <1>8

\* A command that is merged into the buffered request.
LEMMA MergesAccepts ==
  ASSUME TypeInv, HashInv, PendInv, HistInv, NEW t \in Thread, Merges(t), Steps(t)
  PROVE  \/ Rests /\ UNCHANGED <<dev, Writes \ Inserting>>
         \/ \E n, b \in OpId : Accepts(n, b)
<1>1. PICK n, b : n = me[t] /\ b = buf[t] OBVIOUS
<1>2. b \in rqHash /\ b \in OpId /\ n \in OpId /\ key[b] = key[n] BY <1>1, MergesValue
<1>3. /\ pc[t] \in InsertPc /\ pc'[t] \notin InsertPc
      /\ UNCHANGED <<key, dev, devQ, subRq, bits, rqHash>> /\ MoveCmd(b, n)
      /\ "inFlight" \notin bits[b]
  BY <1>1 DEF Merges, AsyncInsertLocked, InsertMerge, Return, InsertPc, TypeInv, ThrInv, ThrOK,
              devVars, subVars
<1>4. /\ n \in Inserting
      /\ IsWrite(opc[n]) => ver[n] = n /\ (Writes \ Inserting)' = (Writes \ Inserting) \cup {n}
      /\ ~IsWrite(opc[n]) => UNCHANGED (Writes \ Inserting)
  BY <1>1, <1>3, InsertAccepted
<1>5. CASE ~IsWrite(opc[n])
  <2>1. UNCHANGED <<opc, ver>> BY <1>3, <1>5 DEF MoveCmd
  <2>2. Rests BY <1>3, <2>1 DEF Rests, Remains, Launched, Waiting, Held, SameValue
  <2> QED BY <1>3, <1>4, <1>5, <2>2
<1>6. CASE IsWrite(opc[n])
  <2>1. opc' = [opc EXCEPT ![b] = opc[n]] /\ ver' = [ver EXCEPT ![b] = n]
    BY <1>3, <1>4, <1>6 DEF MoveCmd
  <2>2. opc \in [OpId -> Opcode] /\ ver \in [OpId -> Ptr] BY DEF TypeInv, ReqOK
  <2>3. ~Flying(b) BY <1>2, <1>3 DEF PendInv, RequestInv, RequestOK
  <2>4. ~Launched(b) /\ ~Launched(b)' BY <1>3, <2>3 DEF Launched, Flying, Held
  <2>5. Waiting(b)' /\ ver'[b] = n BY <1>2, <1>3, <1>6, <2>1, <2>2 DEF Waiting
  <2>6. \A r \in OpId : r # b => opc'[r] = opc[r] /\ ver'[r] = ver[r] BY <2>1, <2>2
  <2>7. \A r \in OpId : r # b => Remains(r)
    BY <1>3, <2>6 DEF Remains, Launched, Waiting, Held, SameValue
  <2>8. Accepts(n, b) BY <1>2, <1>3, <1>4, <1>6, <2>4, <2>5, <2>7 DEF Accepts
  <2> QED BY <1>2, <2>8
<1> QED BY <1>5, <1>6

\* A thread's step keeps the writes, or accepts one.
LEMMA ThreadAccepts ==
  ASSUME TypeInv, HashInv, PendInv, HistInv, AsyncOnly, NEW t \in Thread, ThreadStep(t)
  PROVE  /\ \/ Rests /\ UNCHANGED <<dev, Writes \ Inserting>>
            \/ \E n, b \in OpId : Accepts(n, b)
         /\ Steps(t)
<1>1. Steps(t) BY ThreadHist
<1>2. CASE Joins(t) BY <1>1, <1>2, JoinsAccepts
<1>3. CASE Merges(t) BY <1>1, <1>3, MergesAccepts
<1>4. CASE ~Joins(t) /\ ~Merges(t)
  <2>1. pc[t] \notin SyncPc BY DEF AsyncOnly
  <2>2. ~SyncIssue(t) /\ ~Cancels(t) BY <2>1 DEF SyncIssue, Cancels, SyncPc
  <2>3. UNCHANGED <<key, opc, ver, dev>> BY <1>4, <2>2, ThreadValues DEF HistInv
  <2>4. Steady BY <1>4, <2>2, ThreadClasses
  <2>5. Rests BY <2>3, <2>4, SteadyCalm, CalmRests
  <2>6. ~AsyncInsertNew(t)
    <3>1. ASSUME AsyncInsertNew(t) PROVE me[t] \in OpId /\ me[t] \notin Inserted
      BY <3>1 DEF AsyncInsertNew, TypeInv, ThrInv, Inserted, Early
    <3>2. ASSUME AsyncInsertNew(t) PROVE Joins(t)
      BY <3>1, <3>2 DEF AsyncInsertNew, Joins, subVars, compVars, devVars
    <3> QED BY <1>4, <3>2
  <2>7. ~AsyncInsertLocked(t)
    <3>1. ASSUME AsyncInsertLocked(t) PROVE FALSE
      <4>1. me[t] \in OpId /\ me[t] \notin Inserted
        BY <3>1 DEF AsyncInsertLocked, TypeInv, ThrInv, Inserted, Early
      <4>2. ~Unusable(buf[t])
        BY <3>1 DEF AsyncInsertLocked, HashInv, BucketHeld, HashUsable
      <4>3. CASE "inFlight" \in bits[buf[t]]
        BY <1>4, <3>1, <4>1, <4>2, <4>3
        DEF AsyncInsertLocked, InsertBehind, Joins, subVars, compVars, devVars
      <4>4. CASE "inFlight" \notin bits[buf[t]]
        BY <1>4, <3>1, <4>2, <4>4 DEF AsyncInsertLocked, Merges
      <4> QED BY <4>3, <4>4
    <3> QED BY <3>1
  <2>8. /\ pc[t] \in InsertPc => pc'[t] \in InsertPc
        /\ pc'[t] \in InsertPc => pc[t] \in InsertPc \cup {"ra_check"}
    <3> USE DEF InsertPc, Goto, Return, TypeInv, ThrInv, ThrOK
    <3>1. CASE AsyncStep(t)
      BY <2>6, <2>7, <3>1
      DEF AsyncStep, AsyncRaMiss, AsyncRaFound, AsyncRaHit, AsyncInsertFound, AsyncRaDel,
          TakeReadahead, AsyncRaPut, AsyncWake, AsyncFullSet, AsyncFullWait
    <3>2. CASE FlushStep(t)
      BY <3>2 DEF FlushStep, FlushNone, FlushFind, FlushMark, FlushCompleted, FlushPush,
                  FlushDrain, FlushDone, FlushAllEmpty, FlushAllPick, FlushAllDone, thrVars
    <3>3. CASE SyncStep(t)
      BY <2>1, <3>3 DEF SyncStep, SyncReadahead, SyncReadaheadPut, SyncFindNone, SyncFind,
                  SyncFindLocked, SyncWait, SyncReadBlocking, SyncWaitBlocking, SyncIssue, SyncPc
    <3> QED BY <3>1, <3>2, <3>3 DEF ThreadStep
  <2>9. UNCHANGED (Writes \ Inserting) BY <1>1, <2>8, InsertingKept
  <2> QED BY <1>1, <2>3, <2>5, <2>9
<1> QED BY <1>1, <1>2, <1>3, <1>4

\* The entry of an ioctl that is not synchronous.
LEMMA InvokeAsync ==
  ASSUME TypeInv, SyncOps = {}, NEW t \in Thread, Invoke(t), NEW n, n = nops + 1
  PROVE  /\ n \in OpId /\ nops' = n
         /\ \A m \in OpId : m # n => cmd'[m] = cmd[m]
         /\ \A u \in Thread : u # t => pc'[u] = pc[u] /\ me'[u] = me[u]
         /\ me'[t] = n /\ pc[t] = "idle"
         /\ \/ pc'[t] = "insert"
            \/ pc'[t] = "ra_check" /\ cmd'[n].op = "retrieve"
            \/ pc'[t] \in {"f_find", "fa_push"} /\ cmd'[n].kind \notin {"async", "sync"}
<1>1. "retrieve" \notin SyncOps OBVIOUS
<1>2. Enters(t, n) BY <1>1, InvokeEnters
<1>3. /\ cmd \in [OpId -> [kind : Kind, op : Opcode]] /\ pc \in [Thread -> ThreadPc]
  BY DEF TypeInv, HistOK, ThrInv, ThrOK
<1>4. n \in OpId BY <1>2 DEF Enters
<1>5. ASSUME NEW k \in Key, NEW o \in AsyncOps, AsyncWriteCmd(t, k, o) PROVE pc'[t] = "insert"
  BY <1>3, <1>5 DEF AsyncWriteCmd, Goto
<1>6. ASSUME NEW k \in Key, AsyncGetCmd(t, k)
      PROVE  pc'[t] = "ra_check" /\ cmd'[n].op = "retrieve"
  BY <1>3, <1>4, <1>6 DEF AsyncGetCmd, Goto, NewCmd
<1>7. ASSUME NEW k \in Key, NEW o \in FlushOps, FlushKeyCmd(t, k, o)
      PROVE  pc'[t] = "f_find" /\ cmd'[n].kind \notin {"async", "sync"}
  BY <1>3, <1>4, <1>7 DEF FlushKeyCmd, Goto, NewCmd
<1>8. ASSUME NEW o \in FlushAllOps, FlushAllCmd(t, o)
      PROVE  pc'[t] = "fa_push" /\ cmd'[n].kind \notin {"async", "sync"}
  BY <1>3, <1>4, <1>8 DEF FlushAllCmd, Goto, NewCmd
<1>9. \/ pc'[t] = "insert"
      \/ pc'[t] = "ra_check" /\ cmd'[n].op = "retrieve"
      \/ pc'[t] \in {"f_find", "fa_push"} /\ cmd'[n].kind \notin {"async", "sync"}
  BY <1>5, <1>6, <1>7, <1>8 DEF Invoke
<1> QED BY <1>2, <1>9 DEF Enters

\* A new command is not accepted yet.
LEMMA InvokeKept ==
  ASSUME TypeInv, HashInv, AsyncOnly, SyncOps = {}, NEW t \in Thread, Invoke(t)
  PROVE  AsyncOnly' /\ UNCHANGED (Writes \ Inserting)
<1>1. PICK n : n = nops + 1 OBVIOUS
<1>2. /\ n \in OpId /\ nops' = n
      /\ \A m \in OpId : m # n => cmd'[m] = cmd[m]
      /\ \A u \in Thread : u # t => pc'[u] = pc[u] /\ me'[u] = me[u]
      /\ me'[t] = n /\ pc[t] = "idle"
      /\ \/ pc'[t] = "insert"
         \/ pc'[t] = "ra_check" /\ cmd'[n].op = "retrieve"
         \/ pc'[t] \in {"f_find", "fa_push"} /\ cmd'[n].kind \notin {"async", "sync"}
  BY <1>1, InvokeAsync
<1>3. nops \in Int /\ n \in Int /\ n > nops /\ OpId \subseteq Int /\ \A m \in Int : m > n => m > nops
  BY <1>1, Facts DEF TypeInv, HistOK
<1>4. n \notin Writes BY <1>2, <1>3 DEF AsyncOnly, Writes
<1>5. \A u \in Thread : pc[u] # "idle" => me[u] # n /\ me[u] \in OpId
  <2>1. \A u \in Thread : pc[u] # "idle" => me[u] \in OpId BY DEF TypeInv, ThrInv
  <2>2. \A u \in Thread : pc[u] # "idle" => me[u] <= nops BY DEF HashInv, OwnCommand
  <2> QED BY <1>3, <2>1, <2>2
<1>6. n \in Writes' => pc'[t] = "insert" BY <1>2 DEF Writes, IsWrite
<1>7. \A m \in OpId : m # n => (m \in Writes' <=> m \in Writes) BY <1>2 DEF Writes
<1>8. \A x : x \in Inserting <=> \E u \in Thread : pc[u] \in InsertPc /\ me[u] = x
  BY DEF Inserting, InsertPc
<1>9. \A x : x \in Inserting' <=> \E u \in Thread : pc'[u] \in InsertPc /\ me'[u] = x
  BY DEF Inserting, InsertPc
<1>10. n \in Writes' => n \in Inserting' BY <1>2, <1>6, <1>9 DEF InsertPc
<1>11. \A m \in OpId : m # n => (m \in Inserting' <=> m \in Inserting)
  BY <1>2, <1>8, <1>9 DEF InsertPc
<1>12. Writes \subseteq OpId /\ Writes' \subseteq OpId BY DEF Writes
<1>13. UNCHANGED (Writes \ Inserting) BY <1>4, <1>7, <1>10, <1>11, <1>12
<1>14. AsyncOnly'
  <2>1. \A u \in Thread : pc'[u] \notin SyncPc BY <1>2 DEF AsyncOnly, SyncPc
  <2>2. \A u \in Thread : pc'[u] \in {"ra_check", "ra_find"} => cmd'[me'[u]].op = "retrieve"
    BY <1>2, <1>5 DEF AsyncOnly
  <2>3. \A m \in OpId : m > nops' => cmd'[m].kind = "none"
    BY <1>2, <1>3 DEF AsyncOnly
  <2> QED BY <2>1, <2>2, <2>3 DEF AsyncOnly
<1> QED BY <1>13, <1>14

\* A thread that goes on does not become synchronous.
LEMMA AsyncOnlyStep ==
  ASSUME TypeInv, HashInv, HistInv, AsyncOnly, NEW t \in Thread, ThreadStep(t)
  PROVE  AsyncOnly'
<1>1. Steps(t) BY ThreadHist
<1>2. \A u \in Thread : pc'[u] \notin SyncPc BY <1>1 DEF Steps, AsyncOnly, SyncPc
<1>3. pc'[t] \in {"ra_check", "ra_find"} => pc[t] \in {"ra_check", "ra_find"}
  <2> USE DEF Goto, Return, TypeInv, ThrInv, ThrOK
  <2>1. CASE AsyncInsertLocked(t)
    <3>1. ~Unusable(buf[t])
      BY <2>1 DEF AsyncInsertLocked, HashInv, BucketHeld, HashUsable
    <3> QED BY <2>1, <3>1 DEF AsyncInsertLocked, InsertBehind, AfterEnqueue, InsertMerge
  <2>2. CASE AsyncStep(t) /\ ~AsyncInsertLocked(t)
    BY <2>2
    DEF AsyncStep, AsyncRaMiss, AsyncRaFound, AsyncRaHit, AsyncInsertNew, AfterEnqueue,
        AsyncInsertFound, AsyncRaDel, TakeReadahead, AsyncRaPut, AsyncWake, AsyncFullSet,
        AsyncFullWait
  <2>3. CASE FlushStep(t)
    BY <2>3 DEF FlushStep, FlushNone, FlushFind, FlushMark, FlushCompleted, FlushPush,
                FlushDrain, FlushDone, FlushAllEmpty, FlushAllPick, FlushAllDone, thrVars
  <2>4. CASE SyncStep(t)
    BY <2>4 DEF SyncStep, SyncReadahead, SyncReadaheadPut, SyncFindNone, SyncFind,
                SyncFindLocked, SyncWait, SyncReadBlocking, SyncWaitBlocking, SyncIssue, SyncPc,
                AsyncOnly
  <2> QED BY <2>1, <2>2, <2>3, <2>4 DEF ThreadStep
<1>4. \A u \in Thread : pc'[u] \in {"ra_check", "ra_find"} =>
        pc[u] \in {"ra_check", "ra_find"} /\ me'[u] = me[u]
  BY <1>1, <1>3 DEF Steps
<1> QED BY <1>1, <1>2, <1>4 DEF Steps, AsyncOnly

\* The four kinds of steps: the writes rest, one is accepted, submitted or executed.
Idles == Rests /\ UNCHANGED <<dev, Writes \ Inserting>>
StepKind ==
    \/ Idles
    \/ \E n, b \in OpId : Accepts(n, b)
    \/ \E r \in OpId : Launches(r) /\ UNCHANGED (Writes \ Inserting)
    \/ \E r \in OpId : Lands(r) /\ UNCHANGED (Writes \ Inserting)

\* Every step is of one of them.
LEMMA StepKinds ==
  ASSUME SyncOps = {}, SchedInv, OrderInv, AsyncOnly, [Next]_vars
  PROVE  AsyncOnly' /\ StepKind /\ HistoryKept /\ HashKept
<1> USE DEF SchedInv
<1>0. HistInv /\ "retrieve" \notin SyncOps BY DEF OrderInv, HistInv
<1>1. CASE UNCHANGED vars
  <2>1. UNCHANGED <<dev, pc, me, nops, cmd, opc, key, ver, bits, rqHash, devQ, subRq, before>>
    BY <1>1 DEF vars, reqVars, hashVars, thrVars, subVars, devVars, histVars
  <2>2. UNCHANGED (Writes \ Inserting) BY <2>1 DEF Writes, Inserting
  <2>3. Rests BY <2>1 DEF Rests, Remains, Launched, Waiting, Held, SameValue
  <2>4. AsyncOnly' BY <2>1 DEF AsyncOnly
  <2>5. HistoryKept /\ HashKept BY <2>1 DEF HistoryKept, HashKept
  <2> QED BY <2>1, <2>2, <2>3, <2>4, <2>5 DEF StepKind, Idles
<1>2. ASSUME NEW t \in Thread, Invoke(t)
      PROVE  AsyncOnly' /\ StepKind /\ HistoryKept /\ HashKept
  <2>1. PICK n : n = nops + 1 OBVIOUS
  <2>2. Enters(t, n) BY <1>0, <1>2, <2>1, InvokeEnters
  <2>3. Rests /\ HashKept /\ HistoryKept /\ UNCHANGED dev BY <2>2, EntersRests
  <2>4. AsyncOnly' /\ UNCHANGED (Writes \ Inserting) BY <1>2, InvokeKept
  <2> QED BY <2>3, <2>4 DEF StepKind, Idles
<1>3. ASSUME NEW t \in Thread, ThreadStep(t)
      PROVE  AsyncOnly' /\ StepKind /\ HistoryKept /\ HashKept
  <2>1. AsyncOnly' BY <1>0, <1>3, AsyncOnlyStep
  <2>2. StepKind /\ Steps(t) BY <1>0, <1>3, ThreadAccepts DEF StepKind, Idles
  <2>3. HashKept /\ UNCHANGED key BY <1>0, <1>3, ThreadDrift
  <2>4. HistoryKept BY <2>2, <2>3 DEF Steps, HistoryKept
  <2> QED BY <2>1, <2>2, <2>3, <2>4
<1>4. ASSUME DaemonStep PROVE AsyncOnly' /\ StepKind /\ HistoryKept /\ HashKept
  <2>1. UNCHANGED <<pc, me, nops, cmd, key, before>> BY <1>4, DaemonRuns DEF thrVars
  <2>2. AsyncOnly' BY <2>1 DEF AsyncOnly
  <2>3. UNCHANGED (Writes \ Inserting) BY <2>1 DEF Writes, Inserting
  <2>4. HistoryKept BY <2>1 DEF HistoryKept
  <2> QED BY <1>4, <2>2, <2>3, <2>4, DaemonRests DEF StepKind, Idles
<1>5. ASSUME Quiescent PROVE UNCHANGED vars BY <1>5 DEF Quiescent
<1> QED BY <1>1, <1>2, <1>3, <1>4, <1>5 DEF Next, DaemonStep

\* Every step keeps the slots or does with them what KVCoalesce allows.
LEMMA CoalesceStep ==
  ASSUME SyncOps = {}, SchedInv, OneInFlight, OrderInv, AsyncOnly, SlotsRead, SlotsRead',
         [Next]_vars
  PROVE  AsyncOnly' /\ [Coalesce!Next]_(Coalesce!vars)
<1>0. HistInv BY DEF OrderInv, HistInv
<1>1. AsyncOnly' /\ StepKind BY StepKinds
<1>2. ASSUME Idles PROVE UNCHANGED Coalesce!vars
  BY <1>2, RestsSlots DEF Idles
<1>3. ASSUME NEW n \in OpId, NEW b \in OpId, Accepts(n, b) PROVE Coalesce!Next
  BY <1>3, AcceptsSlots DEF SchedInv
<1>4. ASSUME NEW r \in OpId, Launches(r), UNCHANGED (Writes \ Inserting) PROVE Coalesce!Next
  BY <1>0, <1>4, LaunchesSlots DEF SchedInv
<1>5. ASSUME NEW r \in OpId, Lands(r), UNCHANGED (Writes \ Inserting) PROVE Coalesce!Next
  BY <1>0, <1>5, LandsSlots DEF SchedInv
<1> QED BY <1>1, <1>2, <1>3, <1>4, <1>5 DEF StepKind

\* The first state.
LEMMA CoalesceInit == Init => AsyncOnly /\ Coalesce!Init
<1> SUFFICES ASSUME Init PROVE AsyncOnly /\ Coalesce!Init OBVIOUS
<1>1. AsyncOnly BY DEF Init, AsyncOnly, SyncPc
<1>2. ASSUME NEW k \in Key PROVE Newest(UnderWay(k)) = 0 /\ Newest(Buffered(k)) = 0
  <2>1. UnderWay(k) = {} /\ Buffered(k) = {} BY DEF Init, UnderWay, Buffered
  <2> QED BY <2>1 DEF Newest, NULL
<1>3. Writes \ Inserting = {} BY DEF Init, Writes
<1>4. dev = [k \in Key |-> 0] BY DEF Init
<1> QED BY <1>1, <1>2, <1>3, <1>4 DEF Coalesce!Init, Coalesce!None

\* The asynchronous commands implement the write-back buffer, whatever flush commands run
\* beside them: an accepted put or delete replaces the one that waits, starts when none of
\* its key is under way, and reaches the device once.  A synchronous command goes past
\* the buffer, so the theorem is about the scheduler without them.
THEOREM CoalesceRefined ==
  ASSUME SyncOps = {}
  PROVE  Spec => CoalesceSpec
<1>1. Init => AsyncOnly /\ Coalesce!Init BY CoalesceInit
<1>2. SchedInv /\ OneInFlight => SlotsRead BY Slots DEF SchedInv
<1>3. /\ SchedInv /\ OneInFlight /\ OrderInv /\ AsyncOnly /\ SlotsRead /\ SlotsRead'
      /\ [Next]_vars
      => AsyncOnly' /\ [Coalesce!Next]_(Coalesce!vars)
  BY CoalesceStep
<1>4. "retrieve" \notin SyncOps OBVIOUS
<1>5. Spec => [](SchedInv /\ OneInFlight /\ OrderInv) BY <1>4, OrderInvariant
<1> QED BY <1>1, <1>2, <1>3, <1>5, PTL DEF Spec, CoalesceSpec, Coalesce!Spec

-----------------------------------------------------------------------------
(* Flush. *)

\* Nothing of key k that is older than write w is left: the device has w or a newer
\* write, and no older one is under way.
Settled(k, w) ==
    /\ ~Older(dev[k], w)
    /\ \A r \in OpId : Pending(r) /\ key[r] = k => ~Older(ver[r], w)

\* The last write of the buffer is not older than w: the one that waits; if none does,
\* the one under way; if none is, what the device holds.
LastFresh(k, w) ==
    /\ \A r \in OpId : Waiting(r) /\ key[r] = k => ~Older(ver[r], w)
    /\ (\A r \in OpId : key[r] = k => ~Waiting(r)) =>
          \A r \in OpId : Launched(r) /\ key[r] = k => ~Older(ver[r], w)
    /\ (\A r \in OpId : key[r] = k => ~Pending(r)) => ~Older(dev[k], w)

\* Request b will bring w, or a newer write, to the device, and none older follows.
Brings(b, w) ==
    /\ Launched(b) /\ ~Older(ver[b], w)
    /\ \A r \in OpId : Waiting(r) /\ key[r] = key[b] => ~Older(ver[r], w)

\* What a step keeps of these.
FlushKept(w) ==
    /\ \A k \in Key : Settled(k, w) => Settled(k, w)'
    /\ \A k \in Key : LastFresh(k, w) => LastFresh(k, w)'
    /\ \A b \in OpId : Brings(b, w) => Brings(b, w)' \/ Settled(key[b], w)'

\* Nothing changes.
LEMMA IdlesFlush ==
  ASSUME HistoryKept, NEW w \in OpId, w <= nops, Rests, UNCHANGED dev
  PROVE  FlushKept(w)
<1>1. \A v : Older(v, w)' <=> Older(v, w) BY DEF Older, HistoryKept
<1>2. ASSUME NEW r \in OpId
      PROVE  /\ Launched(r)' <=> Launched(r)
             /\ Waiting(r)' <=> Waiting(r)
             /\ Pending(r)' <=> Pending(r)
             /\ Pending(r) => key'[r] = key[r] /\ (Older(ver[r], w)' <=> Older(ver[r], w))
  <2>1. Remains(r) BY DEF Rests
  <2>2. Pending(r) => key'[r] = key[r] /\ ver'[r] = ver[r] BY <2>1 DEF Remains, SameValue
  <2>3. PICK v : v = ver'[r] OBVIOUS
  <2>4. Older(ver[r], w)' <=> Older(v, w)' BY <2>3 DEF Older
  <2> QED BY <1>1, <2>1, <2>2, <2>3, <2>4 DEF Remains, Pending
<1>3. ASSUME NEW k \in Key PROVE Older(dev[k], w)' <=> Older(dev[k], w)
  <2>1. PICK v : v = dev[k] /\ v = dev'[k] OBVIOUS
  <2>2. Older(dev[k], w)' <=> Older(v, w)' BY <2>1 DEF Older
  <2> QED BY <1>1, <2>1, <2>2
<1>4. \A k \in Key : Settled(k, w) => Settled(k, w)' BY <1>2, <1>3 DEF Settled
<1>5. \A k \in Key : LastFresh(k, w) => LastFresh(k, w)' BY <1>2, <1>3 DEF LastFresh, Pending
<1>6. \A b \in OpId : Brings(b, w) => Brings(b, w)' BY <1>2 DEF Brings, Pending
<1> QED BY <1>4, <1>5, <1>6 DEF FlushKept

\* A write is accepted: it is newer than w.
LEMMA AcceptsFlush ==
  ASSUME TypeInv, ReturnedFirst, HistoryKept, NEW w \in OpId, w <= nops,
         NEW n \in OpId, NEW c \in OpId, Accepts(n, c), n \notin done
  PROVE  FlushKept(w) /\ ~Older(ver[c], w)'
<1>1. \A v : Older(v, w)' <=> Older(v, w) BY DEF Older, HistoryKept
<1>2. ~Older(ver[c], w)'
  <2>1. ~Older(n, w)' BY Facts, FreshNotOlder DEF NULL
  <2> QED BY <2>1 DEF Accepts, Older
<1>3. ASSUME NEW r \in OpId, r # c
      PROVE  /\ Launched(r)' <=> Launched(r)
             /\ Waiting(r)' <=> Waiting(r)
             /\ Pending(r) => (Older(ver[r], w)' <=> Older(ver[r], w))
  <2>1. Remains(r) BY <1>3 DEF Accepts
  <2>2. Pending(r) => ver'[r] = ver[r] BY <2>1 DEF Remains, SameValue
  <2>3. PICK v : v = ver'[r] OBVIOUS
  <2>4. Older(ver[r], w)' <=> Older(v, w)' BY <2>3 DEF Older
  <2> QED BY <1>1, <2>1, <2>2, <2>3, <2>4 DEF Remains
<1>4. /\ Waiting(c)' /\ ~Launched(c) /\ ~Launched(c)' /\ UNCHANGED <<key, dev>>
  BY DEF Accepts
<1>5. ASSUME NEW k \in Key PROVE Older(dev[k], w)' <=> Older(dev[k], w)
  <2>1. PICK v : v = dev[k] /\ v = dev'[k] BY <1>4
  <2>2. Older(dev[k], w)' <=> Older(v, w)' BY <2>1 DEF Older
  <2> QED BY <1>1, <2>1, <2>2
<1>6. \A k \in Key : Settled(k, w) => Settled(k, w)'
  BY <1>2, <1>3, <1>4, <1>5 DEF Settled, Pending
<1>7. ASSUME NEW k \in Key, LastFresh(k, w) PROVE LastFresh(k, w)'
  <2>1. CASE key[c] = k
    BY <1>2, <1>3, <1>4, <1>7, <2>1 DEF LastFresh, Pending
  <2>2. CASE key[c] # k
    BY <1>3, <1>4, <1>5, <1>7, <2>2 DEF LastFresh, Pending
  <2> QED BY <2>1, <2>2
<1>8. \A b \in OpId : Brings(b, w) => Brings(b, w)'
  BY <1>2, <1>3, <1>4 DEF Brings, Pending
<1> QED BY <1>2, <1>6, <1>7, <1>8 DEF FlushKept

\* The waiting write of a key is submitted: there was no other.
LEMMA LaunchesFlush ==
  ASSUME TypeInv, HashInv, PendInv, NEW w \in OpId, NEW r \in OpId, Launches(r)
  PROVE  FlushKept(w)
<1>1. UNCHANGED <<key, ver, dev, before, rqHash>> BY DEF Launches
<1>2. \A v : Older(v, w)' <=> Older(v, w) BY <1>1 DEF Older
<1>3. ASSUME NEW x \in OpId PROVE Older(ver[x], w)' <=> Older(ver[x], w)
  BY <1>1 DEF Older
<1>4. \A k \in Key : Older(dev[k], w)' <=> Older(dev[k], w) BY <1>1 DEF Older
<1>5. /\ Waiting(r) /\ Launched(r)' /\ ~Waiting(r)' /\ r \in rqHash /\ blk[r] = NULL
      /\ \A x \in OpId : x # r => (Launched(x)' <=> Launched(x)) /\ (Waiting(x)' <=> Waiting(x))
  BY DEF Launches, Waiting
<1>6. \A x \in OpId : Pending(x) /\ key[x] = key[r] => x = r BY <1>5, HashTells
<1>7. \A k \in Key : Settled(k, w) => Settled(k, w)'
  BY <1>1, <1>3, <1>4, <1>5 DEF Settled, Pending
<1>8. ASSUME NEW k \in Key, LastFresh(k, w) PROVE LastFresh(k, w)'
  <2>1. CASE key[r] = k
    BY <1>1, <1>3, <1>5, <1>6, <1>8, <2>1 DEF LastFresh, Pending
  <2>2. CASE key[r] # k
    BY <1>1, <1>3, <1>4, <1>5, <1>8, <2>2 DEF LastFresh, Pending
  <2> QED BY <2>1, <2>2
<1>9. ASSUME NEW b \in OpId, Brings(b, w) PROVE Brings(b, w)'
  <2>0. "inFlight" \in bits[b] BY <1>9, LaunchedPlace DEF Brings
  <2>1. key[b] # key[r] /\ b # r BY <1>5, <1>6, <1>9, <2>0 DEF Brings, Pending, Waiting
  <2> QED BY <1>1, <1>3, <1>5, <1>9, <2>1 DEF Brings
<1> QED BY <1>7, <1>8, <1>9 DEF FlushKept

\* The write under way reaches the device: there is no other one of its key.
LEMMA LandsFlush ==
  ASSUME TypeInv, OneInFlight, NEW w \in OpId, NEW r \in OpId, Lands(r)
  PROVE  FlushKept(w)
<1>1. UNCHANGED <<key, ver, before>> BY DEF Lands
<1>2. \A v : Older(v, w)' <=> Older(v, w) BY <1>1 DEF Older
<1>3. ASSUME NEW x \in OpId PROVE Older(ver[x], w)' <=> Older(ver[x], w)
  BY <1>1 DEF Older
<1>4. ASSUME NEW k \in Key
      PROVE  /\ k # key[r] => (Older(dev[k], w)' <=> Older(dev[k], w))
             /\ k = key[r] => (Older(dev[k], w)' <=> Older(ver[r], w))
  <2>1. /\ k # key[r] => dev'[k] = dev[k]
        /\ k = key[r] => dev'[k] = ver[r]
    BY DEF Lands, TypeInv, DevOK
  <2>2. PICK v : v = dev'[k] OBVIOUS
  <2>3. Older(dev[k], w)' <=> Older(v, w)' BY <2>2 DEF Older
  <2> QED BY <1>2, <2>1, <2>2, <2>3
<1>5. /\ Launched(r) /\ ~Launched(r)'
      /\ \A x \in OpId : Waiting(x)' <=> Waiting(x)
      /\ \A x \in OpId : x # r => (Launched(x)' <=> Launched(x))
  BY DEF Lands
<1>6. \A x \in OpId : Launched(x) /\ key[x] = key[r] => x = r
  <2>1. \A z \in OpId : Launched(z) => z \in devQ \cup ({subRq[y] : y \in Type} \ {NULL})
    BY Facts DEF Launched, Held
  <2> QED BY <1>5, <2>1 DEF OneInFlight
<1>7. \A k \in Key : Settled(k, w) => Settled(k, w)'
  BY <1>1, <1>3, <1>4, <1>5 DEF Settled, Pending
<1>8. ASSUME NEW k \in Key, LastFresh(k, w) PROVE LastFresh(k, w)'
  <2>1. CASE key[r] = k
    BY <1>1, <1>3, <1>4, <1>5, <1>6, <1>8, <2>1 DEF LastFresh, Pending
  <2>2. CASE key[r] # k
    BY <1>1, <1>3, <1>4, <1>5, <1>8, <2>2 DEF LastFresh, Pending
  <2> QED BY <2>1, <2>2
<1>9. ASSUME NEW b \in OpId, Brings(b, w) PROVE Brings(b, w)' \/ Settled(key[b], w)'
  <2>1. CASE b = r
    <3>1. PICK k \in Key : k = key[r] BY DEF TypeInv, ReqOK
    <3>2. ~Older(dev[k], w)' BY <1>4, <1>9, <2>1, <3>1 DEF Brings
    <3>3. Settled(k, w)'
      BY <1>1, <1>3, <1>5, <1>6, <1>9, <2>1, <3>1, <3>2 DEF Settled, Brings, Pending
    <3> QED BY <1>1, <2>1, <3>1, <3>3 DEF Settled
  <2>2. CASE b # r BY <1>1, <1>3, <1>5, <1>9, <2>2 DEF Brings
  <2> QED BY <2>1, <2>2
<1> QED BY <1>7, <1>8, <1>9 DEF FlushKept

\* What is accepted is under way or on the device, and nothing older behind it.
BufferFresh == \A w \in Writes \ Inserting : LastFresh(key[w], w)

\* A command that is accepted was issued.
LEMMA AcceptedIssued ==
  ASSUME TypeInv, AsyncOnly, NEW w \in Writes \ Inserting
  PROVE  w \in OpId /\ w <= nops
<1>1. w \in OpId /\ cmd[w].kind # "none" BY DEF Writes
<1>2. ~(w > nops) BY <1>1 DEF AsyncOnly
<1> QED BY <1>1, <1>2, Facts DEF TypeInv, HistOK

\* A thread that inserts its command has not returned.
LEMMA InsertingNew ==
  ASSUME ReturnedFirst, NEW n \in Inserting
  PROVE  n \notin done
  BY DEF Inserting, ReturnedFirst

\* Every step keeps what a flush relies on.
LEMMA StepFlush ==
  ASSUME SchedInv, OneInFlight, ReturnedFirst, StepKind, HistoryKept, NEW w \in OpId, w <= nops
  PROVE  FlushKept(w)
<1> USE DEF SchedInv
<1>1. CASE Idles BY <1>1, IdlesFlush DEF Idles
<1>2. ASSUME NEW n \in OpId, NEW b \in OpId, Accepts(n, b) PROVE FlushKept(w)
  <2>1. n \notin done BY <1>2, InsertingNew DEF Accepts
  <2> QED BY <1>2, <2>1, AcceptsFlush
<1>3. ASSUME NEW r \in OpId, Launches(r) PROVE FlushKept(w) BY <1>3, LaunchesFlush
<1>4. ASSUME NEW r \in OpId, Lands(r) PROVE FlushKept(w) BY <1>4, LandsFlush
<1> QED BY <1>1, <1>2, <1>3, <1>4 DEF StepKind

\* What is accepted stays accepted.
LEMMA AcceptedGrows ==
  ASSUME StepKind
  PROVE  Writes \ Inserting \subseteq (Writes \ Inserting)'
  BY DEF StepKind, Idles, Accepts

\* The buffer stays fresh.
LEMMA BufferFreshStep ==
  ASSUME SchedInv, HashInv', OneInFlight, ReturnedFirst, AsyncOnly, StepKind, HistoryKept,
         BufferFresh
  PROVE  BufferFresh'
<1>1. ASSUME NEW w \in Writes \ Inserting PROVE LastFresh(key[w], w)'
  <2>1. w \in OpId /\ w <= nops BY AcceptedIssued DEF SchedInv
  <2>2. PICK k \in Key : k = key[w] BY <2>1 DEF SchedInv, TypeInv, ReqOK
  <2>3. k = key'[w] BY <2>1, <2>2 DEF HistoryKept
  <2>4. LastFresh(k, w) BY <2>2 DEF BufferFresh
  <2>5. LastFresh(k, w)' BY <2>1, <2>4, StepFlush DEF FlushKept
  <2> QED BY <2>3, <2>5 DEF LastFresh
<1>2. ASSUME NEW n \in OpId, NEW b \in OpId, Accepts(n, b) PROVE LastFresh(key[n], n)'
  <2>1. /\ Waiting(b)' /\ ver'[b] = n /\ key'[b] = key'[n] BY <1>2 DEF Accepts
  <2>2. \A r \in OpId : Waiting(r)' /\ key'[r] = key'[n] => r = b
    BY <2>1 DEF Waiting, HashInv, HashUnique
  <2>3. ~Older(ver[b], n)' BY <2>1 DEF Older
  <2> QED BY <2>1, <2>2, <2>3 DEF LastFresh, Pending
<1>3. \A w \in (Writes \ Inserting)' :
        w \in Writes \ Inserting \/ \E n, b \in OpId : w = n /\ Accepts(n, b)
  BY DEF StepKind, Idles, Accepts
<1> QED BY <1>1, <1>2, <1>3 DEF BufferFresh

\* A request that leaves the hash was in flight: it is completed, or another one was put
\* behind it.
LEMMA HashLeft ==
  ASSUME SchedInv, OrderInv, AsyncOnly, SyncOps = {}, [Next]_vars, NEW b \in rqHash, b \notin rqHash'
  PROVE  "inFlight" \in bits[b]
<1> USE DEF SchedInv
<1>0. b \in OpId /\ HistInv /\ "retrieve" \notin SyncOps
  BY DEF TypeInv, HashOK, OrderInv, HistInv
<1>1. CASE UNCHANGED vars BY <1>1 DEF vars, hashVars
<1>2. ASSUME NEW t \in Thread, Invoke(t) PROVE FALSE
  <2>1. PICK n : n = nops + 1 OBVIOUS
  <2>2. Enters(t, n) BY <1>0, <1>2, <2>1, InvokeEnters
  <2> QED BY <2>2 DEF Enters
<1>3. ASSUME NEW t \in Thread, ThreadStep(t) PROVE "inFlight" \in bits[b]
  <2>1. CASE Steady BY <2>1 DEF Steady, steadyVars
  <2>2. CASE Joins(t)
    <3>1. CASE AsyncInsertNew(t) BY <3>1 DEF AsyncInsertNew
    <3>2. CASE AsyncInsertLocked(t) /\ ~AsyncInsertNew(t)
      <4>1. ~Unusable(buf[t])
        BY <3>2 DEF AsyncInsertLocked, HashInv, BucketHeld, HashUsable
      <4>2. CASE "inFlight" \in bits[buf[t]]
        BY <3>2, <4>1, <4>2 DEF AsyncInsertLocked, InsertBehind, Displace
      <4>3. CASE "inFlight" \notin bits[buf[t]]
        BY <3>2, <4>1, <4>3 DEF AsyncInsertLocked, InsertMerge
      <4> QED BY <4>2, <4>3
    <3> QED BY <2>2, <3>1, <3>2 DEF Joins
  <2>3. CASE Cancels(t)
    BY <2>3 DEF Cancels, AsyncOnly, SyncPc
  <2> QED BY <1>3, <2>1, <2>2, <2>3, ThreadClasses
<1>4. ASSUME DaemonStep PROVE "inFlight" \in bits[b]
  <2>1. CASE CompleteUnhash
    <3>1. Flying(compCur) /\ b = compCur
      BY <2>1 DEF CompleteUnhash, Flying, Completing
    <3> QED BY <1>0, <3>1 DEF PendInv, RequestInv, RequestOK
  <2>2. CASE ~CompleteUnhash
    <3>1. UNCHANGED rqHash
      <4> USE DEF hashVars
      <4>1. CASE \E y \in Type : Schedule(y) \/ SubmitStep(y)
        BY <4>1 DEF Schedule, SubmitStep, SubmitStart, SubmitEnd, SubmitPark, SubmitKick,
                    SubmitSleep, SubmitTake, SubmitInvalid, SubmitRq, SubmitCongested,
                    SubmitResume, SubmitDone
      <4>2. CASE Device BY <4>2 DEF Device, InterruptWake, DeviceExec
      <4>3. CASE CompleteStep
        BY <2>2, <4>3 DEF CompleteStep, CompleteStart, CompleteDequeue, CompleteLowWatermark,
                    CompleteLock, CompleteDuplicate, CompleteFindPending, CompleteUnblock,
                    CompleteFini, CompleteWake
      <4> QED BY <1>4, <4>1, <4>2, <4>3 DEF DaemonStep
    <3> QED BY <3>1
  <2> QED BY <2>1, <2>2
<1>5. ASSUME Quiescent PROVE FALSE BY <1>5 DEF Quiescent, vars, hashVars
<1> QED BY <1>1, <1>2, <1>3, <1>4, <1>5 DEF Next, DaemonStep

\* A request that a flush found: in the hash, or w is settled or about to be.
Covers(b, w) == b \notin rqHash => Settled(key[b], w) \/ Brings(b, w)

\* It keeps covering what was accepted before.
LEMMA CoversStep ==
  ASSUME SchedInv, OneInFlight, OrderInv, AsyncOnly, SyncOps = {}, [Next]_vars, BufferFresh,
         NEW b \in Inserted, NEW w \in Writes \ Inserting, key[w] = key[b], Covers(b, w)
  PROVE  Covers(b, w)'
<1> USE DEF SchedInv
<1>0. StepKind /\ HistoryKept /\ HashKept BY StepKinds
<1>1. b \in OpId /\ b <= nops BY DEF Inserted
<1>2. w \in OpId /\ w <= nops BY AcceptedIssued
<1>3. FlushKept(w) BY <1>0, <1>2, StepFlush DEF OrderInv
<1>4. PICK k \in Key : k = key[b] BY <1>1 DEF TypeInv, ReqOK
<1>5. k = key'[b] BY <1>0, <1>1, <1>4 DEF HistoryKept
<1>6. ASSUME Settled(k, w) \/ Brings(b, w) PROVE Covers(b, w)'
  <2>1. Settled(k, w)' \/ Brings(b, w)' \/ Settled(key[b], w)'
    BY <1>1, <1>3, <1>6 DEF FlushKept
  <2> QED BY <1>5, <2>1 DEF Covers, Settled
<1>7. CASE b \in rqHash' BY <1>7 DEF Covers
<1>8. CASE b \notin rqHash BY <1>4, <1>6, <1>8 DEF Covers
<1>9. CASE b \in rqHash /\ b \notin rqHash'
  <2>1. "inFlight" \in bits[b] BY <1>9, HashLeft
  <2>2. \A r \in OpId : Pending(r) /\ key[r] = k => r = b BY <1>4, <1>9, <2>1, HashTells
  <2>3. \A r \in OpId : key[r] = k => ~Waiting(r) BY <2>1, <2>2 DEF Pending, Waiting
  <2>4. LastFresh(k, w) BY <1>4 DEF BufferFresh
  <2>5. CASE Launched(b) BY <1>1, <1>4, <1>6, <2>3, <2>4, <2>5 DEF LastFresh, Brings
  <2>6. CASE ~Launched(b)
    <3>1. \A r \in OpId : key[r] = k => ~Pending(r) BY <2>2, <2>3, <2>6 DEF Pending
    <3> QED BY <1>6, <2>4, <3>1 DEF LastFresh, Settled
  <2> QED BY <2>5, <2>6
<1> QED BY <1>7, <1>8, <1>9

\* A request that is out of the hash and not in flight is over.
Over(r) == r \notin rqHash /\ "inFlight" \notin bits[r]

\* Nothing is invalidated, and a request is completed when it is not in flight any more,
\* but for the moment in which the completion daemon, which has it locked, drops the data
\* that it read a second time.
BitsInv ==
    /\ \A r \in OpId : "invalid" \notin bits[r]
    /\ \A r \in OpId : {"completed", "inFlight"} \subseteq bits[r] =>
          r = compCur /\ compPc = "ra_dup"

\* What a step does to the bits: only what is in the hash is submitted, and a flusher is
\* woken when its request is over.
BitsStep ==
    /\ \A r \in OpId : "inFlight" \in bits'[r] => "inFlight" \in bits[r] \/ r \in rqHash
    /\ \A r \in OpId : "flush_wakeup" \in bits[r] => "flush_wakeup" \in bits'[r] \/ Over(r)'

\* A thread only marks requests.
LEMMA ThreadBits ==
  ASSUME TypeInv, HashInv, AsyncOnly, NEW t \in Thread, ThreadStep(t)
  PROVE  /\ UNCHANGED <<compCur, compPc>>
         /\ \A r \in OpId : /\ bits[r] \subseteq bits'[r]
                            /\ bits'[r] \subseteq bits[r] \cup {"flush_wakeup", "blocking"}
<1> DEFINE Goal == /\ UNCHANGED <<compCur, compPc>>
                   /\ \A r \in OpId :
                        /\ bits[r] \subseteq bits'[r]
                        /\ bits'[r] \subseteq bits[r] \cup {"flush_wakeup", "blocking"}
<1> USE DEF compVars
<1>1. bits \in [OpId -> SUBSET Bit] BY DEF TypeInv, ReqOK
<1>2. CASE AsyncInsertLocked(t)
  <2>1. ~Unusable(buf[t])
    BY <1>2 DEF AsyncInsertLocked, HashInv, BucketHeld, HashUsable
  <2>2. CASE InsertBehind(t, buf[t])
    <3>1. bits' = [bits EXCEPT ![buf[t]] = @ \cup {"blocking"}] /\ UNCHANGED <<compCur, compPc>>
      BY <1>2, <2>2 DEF AsyncInsertLocked, InsertBehind, MarkBlocking
    <3> QED BY <1>1, <3>1
  <2>3. CASE InsertMerge(t, buf[t])
    <3>1. UNCHANGED <<bits, compCur, compPc>>
      BY <1>2, <2>3 DEF AsyncInsertLocked, InsertMerge
    <3> QED BY <3>1
  <2> QED BY <1>2, <2>1, <2>2, <2>3 DEF AsyncInsertLocked
<1>3. CASE AsyncStep(t) /\ ~AsyncInsertLocked(t)
  <2>1. UNCHANGED <<bits, compCur, compPc>>
    BY <1>3
    DEF AsyncStep, AsyncRaMiss, AsyncRaFound, AsyncRaHit, AsyncInsertNew, AsyncInsertFound,
        AsyncRaDel, AsyncRaPut, AsyncWake, AsyncFullSet, AsyncFullWait, reqVars
  <2> QED BY <2>1
<1>4. CASE FlushMark(t) \/ FlushAllPick(t)
  <2>1. PICK b : AskWakeup(t, b) BY <1>4 DEF FlushMark, FlushAllPick
  <2>2. UNCHANGED <<compCur, compPc>> BY <1>4 DEF FlushMark, FlushAllPick
  <2>3. bits' = bits \/ bits' = [bits EXCEPT ![b] = @ \cup {"flush_wakeup"}]
    BY <2>1 DEF AskWakeup
  <2> QED BY <1>1, <2>2, <2>3
<1>5. CASE FlushStep(t) /\ ~FlushMark(t) /\ ~FlushAllPick(t)
  <2>1. UNCHANGED <<bits, compCur, compPc>>
    BY <1>5 DEF FlushStep, FlushNone, FlushFind, FlushCompleted, FlushPush, FlushDrain,
                FlushDone, FlushAllEmpty, FlushAllDone, reqVars
  <2> QED BY <2>1
<1>6. CASE SyncStep(t)
  BY <1>6 DEF SyncStep, SyncReadahead, SyncReadaheadPut, SyncFindNone, SyncFind,
              SyncFindLocked, SyncWait, SyncReadBlocking, SyncWaitBlocking, SyncIssue, SyncPc,
              AsyncOnly
<1> QED BY <1>2, <1>3, <1>4, <1>5, <1>6 DEF ThreadStep, FlushStep

\* A request becomes in flight only while it is in the hash.
LEMMA SubmitRqBits ==
  ASSUME TypeInv, HashInv, CountInv, PendInv, BitsInv, NEW y \in Type, SubmitRq(y)
  PROVE  \E r \in rqHash : /\ "completed" \notin bits[r]
                           /\ bits' = [bits EXCEPT ![r] = @ \cup {"inFlight"}]
<1>1. PICK m \in Memq, r \in OpId : m = subCur[y] /\ r = Head(mrq[m])
  BY SubmitHead DEF SubmitRq, TypeInv, SubInv
<1>2. mrq[m] # <<>> /\ bits' = [bits EXCEPT ![r] = @ \cup {"inFlight"}]
  BY <1>1 DEF SubmitRq
<1>3. Queued(r) BY <1>1, <1>2, TailFacts DEF Queued, TypeInv, MemqOK
<1>4. r \in rqHash BY <1>3 DEF PendInv, RequestInv, RequestOK, BitsInv
<1>5. "completed" \notin bits[r] BY <1>4 DEF HashInv, HashUsable, Unusable
<1> QED BY <1>2, <1>4, <1>5

\* The other steps of the daemons change the bits of a request at its completion only.
LEMMA DaemonBits ==
  ASSUME DaemonStep, \A y \in Type : ~SubmitRq(y) /\ ~SubmitInvalid(y),
         ~CompleteLock, ~CompleteDuplicate
  PROVE  UNCHANGED bits /\ (compPc = "ra_dup" => UNCHANGED <<compPc, compCur>>)
<1> USE DEF reqVars, compVars
<1>1. CASE \E y \in Type : Schedule(y) \/ SubmitStep(y)
  BY <1>1 DEF Schedule, SubmitStep, SubmitStart, SubmitEnd, SubmitPark, SubmitKick,
              SubmitSleep, SubmitTake, SubmitCongested, SubmitResume, SubmitDone
<1>2. CASE Device BY <1>2 DEF Device, InterruptWake, DeviceExec
<1>3. CASE CompleteStep
  BY <1>3 DEF CompleteStep, CompleteStart, CompleteDequeue, CompleteUnhash,
              CompleteLowWatermark, CompleteFindPending, CompleteUnblock, CompleteFini,
              CompleteWake
<1> QED BY <1>1, <1>2, <1>3 DEF DaemonStep

\* The bits stay right.
LEMMA BitsKeep ==
  ASSUME SchedInv, OrderInv, AsyncOnly, SyncOps = {}, BitsInv, [Next]_vars
  PROVE  BitsInv' /\ BitsStep
<1> USE DEF SchedInv
<1>0. /\ bits \in [OpId -> SUBSET Bit] /\ HistInv /\ "retrieve" \notin SyncOps
      /\ rqHash \subseteq OpId
  BY DEF TypeInv, ReqOK, HashOK, OrderInv, HistInv
<1>1. ASSUME UNCHANGED <<bits, compCur, compPc>> PROVE BitsInv' /\ BitsStep
  BY <1>1 DEF BitsInv, BitsStep
<1>2. CASE UNCHANGED vars BY <1>1, <1>2 DEF vars, reqVars, compVars
<1>3. ASSUME NEW t \in Thread, Invoke(t) PROVE BitsInv' /\ BitsStep
  <2>1. PICK n : n = nops + 1 OBVIOUS
  <2>2. Enters(t, n) BY <1>0, <1>3, <2>1, InvokeEnters
  <2>3. Steady BY <1>3, InvokeSteady
  <2> QED BY <1>1, <2>2, <2>3 DEF Enters, Steady, steadyVars
<1>4. ASSUME NEW t \in Thread, ThreadStep(t) PROVE BitsInv' /\ BitsStep
  <2>1. /\ UNCHANGED <<compCur, compPc>>
        /\ \A r \in OpId : /\ bits[r] \subseteq bits'[r]
                           /\ bits'[r] \subseteq bits[r] \cup {"flush_wakeup", "blocking"}
    BY <1>4, ThreadBits
  <2>2. \A r \in OpId : \A x \in {"invalid", "completed", "inFlight"} :
          x \in bits'[r] => x \in bits[r]
    BY <2>1
  <2> QED BY <2>1, <2>2 DEF BitsInv, BitsStep
<1>5. ASSUME NEW y \in Type, SubmitRq(y) PROVE BitsInv' /\ BitsStep
  <2>1. PICK r \in rqHash : /\ "completed" \notin bits[r]
                            /\ bits' = [bits EXCEPT ![r] = @ \cup {"inFlight"}]
    BY <1>5, SubmitRqBits
  <2>2. UNCHANGED <<compCur, compPc>> BY <1>5 DEF SubmitRq
  <2>3. \A x \in OpId : x # r => bits'[x] = bits[x] BY <1>0, <2>1
  <2>4. bits'[r] = bits[r] \cup {"inFlight"} BY <1>0, <2>1
  <2>5. BitsInv' BY <2>1, <2>2, <2>3, <2>4 DEF BitsInv
  <2>6. BitsStep BY <2>1, <2>3, <2>4 DEF BitsStep
  <2> QED BY <2>5, <2>6
<1>6. ASSUME NEW y \in Type, SubmitInvalid(y) PROVE FALSE
  <2>1. PICK m \in Memq, r \in OpId : m = subCur[y] /\ r = Head(mrq[m])
    BY <1>6, SubmitHead DEF SubmitInvalid, TypeInv, SubInv
  <2> QED BY <1>6, <2>1 DEF SubmitInvalid, BitsInv
<1>7. ASSUME CompleteLock \/ CompleteDuplicate PROVE BitsInv' /\ BitsStep
  <2>1. PICK c \in OpId : c = compCur
    BY <1>7 DEF CompleteLock, CompleteDuplicate, TypeInv, CompInv
  <2>2. UNCHANGED <<rqHash, compCur>>
    BY <1>7 DEF CompleteLock, CompleteDuplicate, hashVars
  <2>3. \A x \in OpId : x # c => bits'[x] = bits[x]
    BY <1>0, <1>7, <2>1 DEF CompleteLock, CompleteDuplicate
  <2>4. c \notin rqHash
    <3>1. ~Queued(c) /\ ~Submitted(c)
      BY <1>7, <2>1, CurPlace DEF CompleteLock, CompleteDuplicate, PendInv
    <3> QED BY <3>1 DEF PendInv, RequestInv, RequestOK
  <2>5. \/ compPc' = "ra_dup" /\ bits'[c] = bits[c] \cup {"completed"}
        \/ /\ bits'[c] \subseteq bits[c] \cup {"completed", "in_readahead"}
           /\ "inFlight" \notin bits'[c]
    <3>1. CASE CompleteDuplicate
      BY <1>0, <2>1, <3>1 DEF CompleteDuplicate, Signalled
    <3>2. CASE CompleteLock
      <4>1. \/ compPc' = "ra_dup" /\ bits' = [bits EXCEPT ![c] = @ \cup {"completed"}]
            \/ bits' = [bits EXCEPT ![c] = Signalled(@) \cup {"completed"}
                                \cup (IF ~IsWrite(opc[c]) THEN {"in_readahead"} ELSE {})]
        BY <2>1, <3>2 DEF CompleteLock
      <4> QED BY <1>0, <4>1 DEF Signalled
    <3> QED BY <1>7, <3>1, <3>2
  <2>6. c = compCur' BY <2>1, <2>2
  <2>7. \A x \in OpId : x # c => ~({"completed", "inFlight"} \subseteq bits[x])
    BY <2>1 DEF BitsInv
  <2>8. BitsInv' BY <2>3, <2>5, <2>6, <2>7 DEF BitsInv
  <2>9. BitsStep
    <3>1. "inFlight" \in bits'[c] => "inFlight" \in bits[c] BY <2>5
    <3>2. "flush_wakeup" \in bits[c] => "flush_wakeup" \in bits'[c] \/ Over(c)'
      BY <2>2, <2>4, <2>5 DEF Over
    <3> QED BY <2>3, <3>1, <3>2 DEF BitsStep
  <2> QED BY <2>8, <2>9
<1>8. ASSUME DaemonStep, \A y \in Type : ~SubmitRq(y), ~CompleteLock, ~CompleteDuplicate
      PROVE  BitsInv' /\ BitsStep
  <2>1. UNCHANGED bits /\ (compPc = "ra_dup" => UNCHANGED <<compPc, compCur>>)
    BY <1>6, <1>8, DaemonBits
  <2> QED BY <2>1 DEF BitsInv, BitsStep
<1>9. ASSUME Quiescent PROVE UNCHANGED vars BY <1>9 DEF Quiescent
<1> QED BY <1>2, <1>3, <1>4, <1>5, <1>7, <1>8, <1>9 DEF Next, DaemonStep

-----------------------------------------------------------------------------
\* Positions of a flush with a key: it has found a request, has asked to be woken.
FoundFlush == {"f_lock", "f_push", "f_drain", "f_wait"}
AskedFlush == {"f_push", "f_drain", "f_wait"}
FlushPc == FoundFlush \cup {"f_find"}

\* The step of a thread, as its flush sees it.
LEMMA FlushGoes ==
  ASSUME TypeInv, HashInv, AsyncOnly, NEW t \in Thread, ThreadStep(t)
  PROVE  /\ pc'[t] # "idle" => (pc'[t] \in FlushPc <=> pc[t] \in FlushPc)
         /\ pc'[t] \in FoundFlush =>
               \/ pc[t] \in FoundFlush /\ buf'[t] = buf[t]
               \/ buf'[t] \in rqHash' /\ key[buf'[t]] = key[me[t]]
         /\ pc'[t] \in AskedFlush =>
               \/ pc[t] \in AskedFlush /\ buf'[t] = buf[t]
               \/ IsWrite(cmd[me[t]].op) => "flush_wakeup" \in bits'[buf'[t]]
         /\ pc[t] \in FlushPc /\ pc'[t] = "idle" =>
               FlushNone(t) \/ FlushCompleted(t) \/ FlushDone(t)
<1> USE DEF Goto, Return, FlushPc, FoundFlush, AskedFlush, thrVars
<1>0. /\ pc \in [Thread -> ThreadPc] /\ buf \in [Thread -> Ptr]
      /\ pc[t] \notin {"idle"} \cup SyncPc
  <2>1. Steps(t) BY AsyncSteps, SyncSteps, FlushSteps DEF ThreadStep
  <2> QED BY <2>1 DEF TypeInv, ThrInv, ThrOK, AsyncOnly, Steps
<1>1. CASE AsyncStep(t)
  <2>1. pc[t] \notin FlushPc /\ pc'[t] \notin FlushPc
    <3>1. CASE AsyncInsertLocked(t)
      <4>1. ~Unusable(buf[t])
        BY <3>1 DEF AsyncInsertLocked, HashInv, BucketHeld, HashUsable
      <4> QED BY <1>0, <3>1, <4>1 DEF AsyncInsertLocked, InsertBehind, AfterEnqueue, InsertMerge
    <3>2. CASE AsyncRaDel(t) BY <1>0, <3>2 DEF AsyncRaDel, TakeReadahead
    <3>3. CASE ~AsyncInsertLocked(t) /\ ~AsyncRaDel(t)
      BY <1>0, <1>1, <3>3
      DEF AsyncStep, AsyncRaMiss, AsyncRaFound, AsyncRaHit, AsyncInsertNew, AfterEnqueue,
          AsyncInsertFound, AsyncRaPut, AsyncWake, AsyncFullSet, AsyncFullWait
    <3> QED BY <3>1, <3>2, <3>3
  <2> QED BY <2>1
<1>2. CASE FlushNone(t) \/ FlushCompleted(t) \/ FlushDone(t)
  BY <1>0, <1>2 DEF FlushNone, FlushCompleted, FlushDone
<1>3. CASE FlushFind(t)
  <2>1. buf'[t] \in rqHash /\ key[buf'[t]] = key[me[t]]
    BY <1>0, <1>3 DEF FlushFind, Hashed
  <2> QED BY <1>0, <1>3, <2>1 DEF FlushFind, hashVars
<1>4. CASE FlushMark(t)
  <2>1. buf[t] \in OpId /\ bits \in [OpId -> SUBSET Bit]
    BY <1>4 DEF FlushMark, TypeInv, ThrInv, ReqOK
  <2>2. IsWrite(cmd[me[t]].op) => "flush_wakeup" \in bits'[buf[t]]
    BY <1>4, <2>1 DEF FlushMark, AskWakeup, FlushType, TypeOf, IsWrite
  <2> QED BY <1>0, <1>4, <2>2 DEF FlushMark
<1>5. CASE FlushPush(t) \/ FlushDrain(t) BY <1>0, <1>5 DEF FlushPush, FlushDrain
<1>6. CASE FlushAllEmpty(t) \/ FlushAllPick(t) \/ FlushAllDone(t)
  BY <1>0, <1>6 DEF FlushAllEmpty, FlushAllPick, FlushAllDone
<1>7. CASE SyncStep(t)
  BY <1>0, <1>7 DEF SyncStep, SyncReadahead, SyncReadaheadPut, SyncFindNone, SyncFind,
              SyncFindLocked, SyncWait, SyncReadBlocking, SyncWaitBlocking, SyncIssue, SyncPc
<1> QED BY <1>1, <1>2, <1>3, <1>4, <1>5, <1>6, <1>7 DEF ThreadStep, FlushStep

\* A thread in a flush: the request it found covers what had returned before the flush,
\* and when nobody is to wake it any more the request is over.
FlushThread(t) ==
    /\ pc[t] # "idle" => (cmd[me[t]].kind = "flush" <=> pc[t] \in FlushPc)
    /\ pc[t] \in FoundFlush =>
          /\ key[buf[t]] = key[me[t]]
          /\ \A w \in before[me[t]] : Covers(buf[t], w)
    /\ pc[t] \in AskedFlush /\ IsWrite(cmd[me[t]].op) =>
          "flush_wakeup" \in bits[buf[t]] \/ Over(buf[t])

\* What had returned before a command was accepted, and is a write of its key.
BeforeAccepted ==
    \A n \in OpId : \A w \in before[n] : w \in Writes \ Inserting /\ key[w] = key[n]

\* A flush that has returned settled what had returned before it.
DoneSettled ==
    \A n \in done : cmd[n].kind = "flush" /\ IsWrite(cmd[n].op) =>
        \A w \in before[n] : Settled(key[n], w)

\* The inductive invariant of the flush.
FlushInv ==
    /\ AsyncOnly /\ BufferFresh /\ BitsInv /\ BeforeAccepted
    /\ \A t \in Thread : FlushThread(t)
    /\ DoneSettled

\* A flush returns only when what had returned before it is settled.
LEMMA FlushReturns ==
  ASSUME SchedInv, FlushInv, NEW t \in Thread, NEW n \in OpId, n = me[t],
         FlushNone(t) \/ FlushCompleted(t) \/ FlushDone(t), IsWrite(cmd[n].op),
         NEW w \in before[n]
  PROVE  Settled(key[n], w)
<1> USE DEF SchedInv, FlushInv
<1>1. w \in Writes \ Inserting /\ key[w] = key[n] BY DEF BeforeAccepted
<1>2. CASE FlushNone(t)
  <2>1. \A r \in OpId : key[r] = key[n] => ~Pending(r)
    BY <1>2, HashTells DEF FlushNone
  <2>2. LastFresh(key[n], w) BY <1>1 DEF BufferFresh
  <2> QED BY <2>1, <2>2 DEF LastFresh, Settled
<1>3. CASE FlushCompleted(t) \/ FlushDone(t)
  <2>1. PICK b \in OpId : b = buf[t]
    BY <1>3 DEF FlushCompleted, FlushDone, TypeInv, ThrInv
  <2>2. key[b] = key[n] /\ Covers(b, w)
    BY <1>3, <2>1 DEF FlushCompleted, FlushDone, FlushThread, FoundFlush
  <2>3. Over(b)
    <3>1. CASE FlushDone(t)
      <4>1. FlushType(t) = "WRITE" BY DEF FlushType, TypeOf, IsWrite
      <4> QED BY <2>1, <3>1, <4>1 DEF FlushDone, FlushThread, AskedFlush
    <3>2. CASE FlushCompleted(t)
      <4>1. "completed" \in bits[b] /\ b \notin locked
        BY <2>1, <3>2 DEF FlushCompleted, NotCompleted
      <4>2. "inFlight" \notin bits[b] BY <4>1 DEF BitsInv, RefInv, CompHeld, Late
      <4>3. b \notin rqHash BY <4>1 DEF HashInv, HashUsable, Unusable
      <4> QED BY <4>2, <4>3 DEF Over
    <3> QED BY <1>3, <3>1, <3>2
  <2>4. ~Launched(b) BY <2>3, LaunchedPlace DEF Over
  <2> QED BY <2>2, <2>3, <2>4 DEF Covers, Brings, Over
<1> QED BY <1>2, <1>3

\* A request that is over stays over.
LEMMA OverKept ==
  ASSUME TypeInv, HashKept, BitsStep, NEW b \in Inserted, Over(b)
  PROVE  Over(b)'
<1>1. b \in OpId BY DEF Inserted
<1> QED BY <1>1 DEF Over, HashKept, BitsStep

\* A thread that stays in its command keeps its flush.
LEMMA FlushThreadKept ==
  ASSUME SchedInv, OneInFlight, OrderInv, FlushInv, SyncOps = {}, [Next]_vars,
         HashKept, HistoryKept, BitsStep, NEW u \in Thread,
         me'[u] = me[u], pc[u] # "idle", cmd'[me[u]] = cmd[me[u]]
  PROVE  /\ buf'[u] = buf[u] /\ pc[u] \in FoundFlush =>
               /\ key'[buf[u]] = key'[me[u]]
               /\ \A w \in before'[me[u]] : Covers(buf[u], w)'
         /\ buf'[u] = buf[u] /\ pc[u] \in AskedFlush /\ IsWrite(cmd[me[u]].op) =>
               "flush_wakeup" \in bits'[buf[u]] \/ Over(buf[u])'
<1> USE DEF SchedInv, FlushInv
<1>1. PICK n \in OpId : n = me[u] /\ n <= nops BY DEF TypeInv, ThrInv, HashInv, OwnCommand
<1>2. before'[n] = before[n] /\ key'[n] = key[n] BY <1>1 DEF HistoryKept
<1>3. ASSUME buf'[u] = buf[u], pc[u] \in FoundFlush
      PROVE  /\ key'[buf[u]] = key'[me[u]]
             /\ \A w \in before'[me[u]] : Covers(buf[u], w)'
             /\ buf[u] \in Inserted /\ buf[u] \in OpId
  <2>1. PICK b \in OpId : b = buf[u] BY <1>3 DEF TypeInv, ThrInv, FoundFlush
  <2>2. b \in Inserted BY <2>1, Facts DEF RefInv, PointersInserted
  <2>3. key[b] = key[n] /\ \A w \in before[n] : Covers(b, w)
    BY <1>1, <1>3, <2>1 DEF FlushThread
  <2>4. key'[b] = key[b] BY <2>2 DEF Inserted, HistoryKept
  <2>5. ASSUME NEW w \in before[n] PROVE Covers(b, w)'
    <3>1. w \in Writes \ Inserting /\ key[w] = key[b] BY <2>3 DEF BeforeAccepted
    <3> QED BY <2>2, <2>3, <3>1, CoversStep
  <2>6. \A w \in before'[me[u]] : Covers(b, w)' BY <1>1, <1>2, <2>5
  <2>7. \A w : Covers(b, w)' <=> Covers(buf[u], w)'
    BY <1>3, <2>1 DEF Covers, Settled, Brings, Launched, Held
  <2> QED BY <1>1, <1>2, <2>1, <2>2, <2>3, <2>4, <2>6, <2>7
<1>4. ASSUME buf'[u] = buf[u], pc[u] \in AskedFlush, IsWrite(cmd[me[u]].op)
      PROVE  "flush_wakeup" \in bits'[buf[u]] \/ Over(buf[u])'
  <2>1. PICK b \in OpId : b = buf[u] BY <1>4 DEF TypeInv, ThrInv, AskedFlush
  <2>2. b \in Inserted BY <2>1, Facts DEF RefInv, PointersInserted
  <2>3. "flush_wakeup" \in bits[b] \/ Over(b) BY <1>4, <2>1 DEF FlushThread
  <2>4. "flush_wakeup" \in bits'[b] \/ Over(b)' BY <2>1, <2>2, <2>3, OverKept DEF BitsStep
  <2> QED BY <1>4, <2>1, <2>4 DEF Over
<1> QED BY <1>3, <1>4

\* The history of a new command.
LEMMA InvokeHistory ==
  ASSUME TypeInv, NEW t \in Thread, Invoke(t), NEW n \in OpId, n = nops + 1
  PROVE  /\ before'[n] = {w \in done \cap Writes : key[w] = key'[n]}
         /\ pc'[t] \notin FoundFlush
         /\ cmd'[n].kind = "flush" <=> pc'[t] \in FlushPc
<1> DEFINE Goal == /\ before'[n] = {w \in done \cap Writes : key[w] = key'[n]}
                   /\ pc'[t] \notin FoundFlush
                   /\ cmd'[n].kind = "flush" <=> pc'[t] \in FlushPc
<1>1. ASSUME NEW kind, NEW k, NEW o, NEW label, NewCmd(t, kind, k, o), Goto(t, label),
             label \notin FoundFlush, kind = "flush" <=> label = "f_find"
      PROVE  Goal
  <2>1. /\ pc \in [Thread -> ThreadPc] /\ key \in [OpId -> Key]
        /\ cmd \in [OpId -> [kind : Kind, op : Opcode]] /\ before \in [OpId -> SUBSET OpId]
    BY DEF TypeInv, ThrInv, ThrOK, ReqOK, HistOK
  <2>2. /\ key' = [key EXCEPT ![n] = k] /\ pc' = [pc EXCEPT ![t] = label]
        /\ cmd' = [cmd EXCEPT ![n] = [kind |-> kind, op |-> o]]
        /\ before' = [before EXCEPT ![n] = {w \in done \cap Writes : key[w] = k}]
    BY <1>1 DEF NewCmd, Goto
  <2>3. /\ key'[n] = k /\ pc'[t] = label /\ cmd'[n].kind = kind
        /\ before'[n] = {w \in done \cap Writes : key[w] = k}
    BY <2>1, <2>2
  <2> QED BY <1>1, <2>3 DEF FlushPc
<1> USE DEF FoundFlush
<1>2. ASSUME NEW k \in Key, NEW o \in AsyncOps, AsyncWriteCmd(t, k, o) PROVE Goal
  BY <1>1, <1>2 DEF AsyncWriteCmd
<1>3. ASSUME NEW k \in Key, AsyncGetCmd(t, k) PROVE Goal BY <1>1, <1>3 DEF AsyncGetCmd
<1>4. ASSUME NEW k \in Key, NEW o \in SyncOps, SyncCmd(t, k, o) PROVE Goal
  BY <1>1, <1>4 DEF SyncCmd
<1>5. ASSUME NEW k \in Key, NEW o \in FlushOps, FlushKeyCmd(t, k, o) PROVE Goal
  BY <1>1, <1>5 DEF FlushKeyCmd
<1>6. ASSUME NEW o \in FlushAllOps, FlushAllCmd(t, o) PROVE Goal
  BY <1>1, <1>6 DEF FlushAllCmd
<1> QED BY <1>2, <1>3, <1>4, <1>5, <1>6 DEF Invoke

\* What has returned is accepted.
LEMMA ReturnedAccepted ==
  ASSUME ReturnedFirst, NEW w \in done \cap Writes
  PROVE  w \in Writes \ Inserting
<1>1. w \notin Inserting BY InsertingNew
<1> QED BY <1>1

\* A settled write stays settled, for the commands that were issued.
LEMMA SettledStays ==
  ASSUME SchedInv, OneInFlight, ReturnedFirst, AsyncOnly, StepKind, HistoryKept, BeforeAccepted,
         NEW n \in OpId, n <= nops, NEW w \in before[n], Settled(key[n], w)
  PROVE  Settled(key[n], w)'
<1>1. w \in OpId /\ w <= nops BY AcceptedIssued DEF SchedInv, BeforeAccepted
<1>2. PICK k \in Key : k = key[n] BY DEF SchedInv, TypeInv, ReqOK
<1>3. k = key'[n] BY <1>2 DEF HistoryKept
<1>4. Settled(k, w)' BY <1>1, <1>2, StepFlush DEF FlushKept
<1> QED BY <1>3, <1>4 DEF Settled

\* The flushes that have returned, when no other returns.
LEMMA DoneKept ==
  ASSUME SchedInv, OneInFlight, ReturnedFirst, StepKind, HistoryKept, FlushInv,
         \A n \in done : cmd'[n] = cmd[n],
         \A n \in done' : n \in done \/ (cmd'[n].kind = "flush" /\ IsWrite(cmd'[n].op) =>
            n \in OpId /\ n <= nops /\ \A w \in before[n] : Settled(key[n], w))
  PROVE  DoneSettled'
<1> USE DEF FlushInv
<1>1. ASSUME NEW n \in done', cmd'[n].kind = "flush", IsWrite(cmd'[n].op)
      PROVE  \A w \in before'[n] : Settled(key[n], w)'
  <2>1. n \in OpId /\ n <= nops /\ \A w \in before[n] : Settled(key[n], w)
    <3>1. done \subseteq OpId BY DEF SchedInv, TypeInv, HistOK
    <3> QED BY <1>1, <3>1 DEF DoneSettled, ReturnedFirst
  <2>2. before'[n] = before[n] BY <2>1 DEF HistoryKept
  <2> QED BY <2>1, <2>2, SettledStays
<1> QED BY <1>1 DEF DoneSettled

\* A command enters.
LEMMA InvokeFlush ==
  ASSUME SchedInv, OneInFlight, OrderInv, FlushInv, SyncOps = {}, NEW t \in Thread, Invoke(t)
  PROVE  BeforeAccepted' /\ DoneSettled' /\ \A u \in Thread : FlushThread(u)'
<1> USE DEF SchedInv, FlushInv
<1>0. [Next]_vars /\ ReturnedFirst /\ "retrieve" \notin SyncOps BY DEF Next, OrderInv
<1>1. StepKind /\ HistoryKept /\ HashKept BY <1>0, StepKinds
<1>2. BitsStep BY <1>0, BitsKeep
<1>3. PICK n \in OpId : n = nops + 1 /\ Enters(t, n)
  <2>1. PICK n : n = nops + 1 OBVIOUS
  <2> QED BY <1>0, <2>1, InvokeEnters DEF Enters
<1>4. /\ before'[n] = {w \in done \cap Writes : key[w] = key'[n]}
      /\ pc'[t] \notin FoundFlush
      /\ cmd'[n].kind = "flush" <=> pc'[t] \in FlushPc
  BY <1>3, InvokeHistory
<1>5. nops \in Int /\ \A m \in OpId : m <= nops => m # n
  <2>1. nops \in Int /\ OpId \subseteq Int BY Facts DEF TypeInv, HistOK
  <2> QED BY <1>3, <2>1
<1>6. \A m \in done : m \in OpId /\ m <= nops /\ m # n
  BY <1>0, <1>5 DEF ReturnedFirst, TypeInv, HistOK
<1>7. BeforeAccepted'
  <2>1. Writes \ Inserting \subseteq (Writes \ Inserting)' BY <1>1, AcceptedGrows
  <2>2. ASSUME NEW w \in before'[n] PROVE w \in (Writes \ Inserting)' /\ key'[w] = key'[n]
    BY <1>0, <1>1, <1>4, <1>6, <2>1, <2>2, ReturnedAccepted DEF HistoryKept
  <2>3. ASSUME NEW m \in OpId, m # n, NEW w \in before'[m]
        PROVE  w \in (Writes \ Inserting)' /\ key'[w] = key'[m]
    <3>1. before'[m] = before[m] /\ key'[m] = key[m] BY <1>3, <2>3 DEF Enters
    <3>2. w \in Writes \ Inserting /\ key[w] = key[m] BY <2>3, <3>1 DEF BeforeAccepted
    <3>3. key'[w] = key[w] BY <1>1, <3>2, AcceptedIssued DEF HistoryKept
    <3> QED BY <2>1, <3>1, <3>2, <3>3
  <2> QED BY <2>2, <2>3 DEF BeforeAccepted
<1>8. DoneSettled'
  <2>1. done' = done /\ \A m \in done : cmd'[m] = cmd[m] BY <1>3, <1>6 DEF Enters
  <2> QED BY <1>0, <1>1, <2>1, DoneKept
<1>9. ASSUME NEW u \in Thread PROVE FlushThread(u)'
  <2>1. CASE u = t
    <3>1. me'[u] = n /\ pc'[u] # "idle" BY <1>3, <2>1 DEF Enters
    <3>2. pc'[u] \notin AskedFlush BY <1>4, <2>1 DEF AskedFlush, FoundFlush
    <3> QED BY <1>4, <2>1, <3>1, <3>2 DEF FlushThread
  <2>2. CASE u # t
    <3>1. pc'[u] = pc[u] /\ me'[u] = me[u] /\ buf'[u] = buf[u] BY <1>3, <2>2 DEF Enters
    <3>2. ASSUME pc[u] # "idle" PROVE cmd'[me[u]] = cmd[me[u]]
      <4>1. me[u] \in OpId /\ me[u] <= nops
        BY <3>2 DEF TypeInv, ThrInv, HashInv, OwnCommand
      <4> QED BY <1>3, <1>5, <4>1 DEF Enters
    <3>3. CASE pc[u] = "idle" BY <3>1, <3>3 DEF FlushThread, FoundFlush, AskedFlush
    <3>4. CASE pc[u] # "idle"
      <4>1. /\ pc[u] \in FoundFlush =>
                 /\ key'[buf[u]] = key'[me[u]]
                 /\ \A w \in before'[me[u]] : Covers(buf[u], w)'
            /\ pc[u] \in AskedFlush /\ IsWrite(cmd[me[u]].op) =>
                 "flush_wakeup" \in bits'[buf[u]] \/ Over(buf[u])'
        BY <1>0, <1>1, <1>2, <3>1, <3>2, <3>4, FlushThreadKept
      <4>2. cmd[me[u]].kind = "flush" <=> pc[u] \in FlushPc BY <3>4 DEF FlushThread
      <4> QED BY <3>1, <3>2, <3>4, <4>1, <4>2 DEF FlushThread
    <3> QED BY <3>3, <3>4
  <2> QED BY <2>1, <2>2
<1> QED BY <1>7, <1>8, <1>9

\* A thread goes on, or returns.
LEMMA ThreadFlush ==
  ASSUME SchedInv, OneInFlight, OrderInv, FlushInv, SyncOps = {}, NEW t \in Thread,
         ThreadStep(t)
  PROVE  BeforeAccepted' /\ DoneSettled' /\ \A u \in Thread : FlushThread(u)'
<1> USE DEF SchedInv, FlushInv
<1>0. [Next]_vars /\ ReturnedFirst /\ HistInv BY DEF Next, OrderInv, HistInv
<1>1. StepKind /\ HistoryKept /\ HashKept BY <1>0, StepKinds
<1>2. BitsStep BY <1>0, BitsKeep
<1>3. Steps(t) /\ UNCHANGED key BY <1>0, ThreadHist, ThreadDrift
<1>4. UNCHANGED <<cmd, before>> BY <1>3 DEF Steps
<1>5. BeforeAccepted'
  <2>1. Writes \ Inserting \subseteq (Writes \ Inserting)' BY <1>1, AcceptedGrows
  <2> QED BY <1>3, <1>4, <2>1 DEF BeforeAccepted
<1>6. DoneSettled'
  <2>1. ASSUME pc'[t] = "idle", NEW n, n = me[t], cmd[n].kind = "flush", IsWrite(cmd[n].op)
        PROVE  n \in OpId /\ n <= nops /\ \A w \in before[n] : Settled(key[n], w)
    <3>1. n \in OpId /\ n <= nops /\ pc[t] # "idle"
      BY <1>3, <2>1 DEF TypeInv, ThrInv, HashInv, OwnCommand, Steps
    <3>2. pc[t] \in FlushPc BY <2>1, <3>1 DEF FlushThread
    <3>3. FlushNone(t) \/ FlushCompleted(t) \/ FlushDone(t) BY <2>1, <3>2, FlushGoes
    <3> QED BY <2>1, <3>1, <3>3, FlushReturns
  <2>2. \A n \in done' : n \in done \/ (n = me[t] /\ pc'[t] = "idle") BY <1>3 DEF Steps
  <2> QED BY <1>0, <1>1, <1>4, <2>1, <2>2, DoneKept
<1>7. ASSUME NEW u \in Thread PROVE FlushThread(u)'
  <2>1. ASSUME pc[u] # "idle", me'[u] = me[u]
        PROVE  /\ cmd[me[u]].kind = "flush" <=> pc[u] \in FlushPc
               /\ buf'[u] = buf[u] /\ pc[u] \in FoundFlush =>
                     /\ key'[buf[u]] = key'[me[u]]
                     /\ \A w \in before'[me[u]] : Covers(buf[u], w)'
               /\ buf'[u] = buf[u] /\ pc[u] \in AskedFlush /\ IsWrite(cmd[me[u]].op) =>
                     "flush_wakeup" \in bits'[buf[u]] \/ Over(buf[u])'
    BY <1>0, <1>1, <1>2, <1>4, <2>1, FlushThreadKept DEF FlushThread
  <2>2. CASE pc'[u] = "idle" BY <2>2 DEF FlushThread, FoundFlush, AskedFlush
  <2>3. CASE pc'[u] # "idle" /\ u # t
    <3>1. pc'[u] = pc[u] /\ me'[u] = me[u] BY <1>3, <2>3 DEF Steps
    <3>2. Fair(t) BY ThreadFair DEF PendInv
    <3>3. buf'[u] = buf[u] BY <2>3, <3>2 DEF Fair, Orderly, ThreadOnly
    <3> QED BY <1>4, <2>1, <2>3, <3>1, <3>3 DEF FlushThread
  <2>4. CASE pc'[u] # "idle" /\ u = t
    <3>1. me'[t] = me[t] /\ pc[t] # "idle" BY <1>3, <2>4 DEF Steps
    <3>2. /\ pc'[t] \in FlushPc <=> pc[t] \in FlushPc
          /\ pc'[t] \in FoundFlush =>
               \/ pc[t] \in FoundFlush /\ buf'[t] = buf[t]
               \/ buf'[t] \in rqHash' /\ key[buf'[t]] = key[me[t]]
          /\ pc'[t] \in AskedFlush =>
               \/ pc[t] \in AskedFlush /\ buf'[t] = buf[t]
               \/ IsWrite(cmd[me[t]].op) => "flush_wakeup" \in bits'[buf'[t]]
      BY <2>4, FlushGoes
    <3>3. buf'[t] \in rqHash' => \A w : Covers(buf[t], w)' BY DEF Covers
    <3>4. pc'[t] \in FoundFlush =>
            /\ key'[buf'[t]] = key'[me[t]]
            /\ \A w \in before'[me[t]] : Covers(buf[t], w)'
      BY <1>3, <2>1, <2>4, <3>1, <3>2, <3>3
    <3>5. pc'[t] \in AskedFlush /\ IsWrite(cmd[me[t]].op) =>
            "flush_wakeup" \in bits'[buf'[t]] \/ Over(buf[t])'
      BY <2>1, <2>4, <3>1, <3>2
    <3> QED BY <1>4, <2>1, <2>4, <3>1, <3>2, <3>4, <3>5 DEF FlushThread
  <2> QED BY <2>2, <2>3, <2>4
<1> QED BY <1>5, <1>6, <1>7

\* The daemons and the device go on.
LEMMA DaemonFlush ==
  ASSUME SchedInv, OneInFlight, OrderInv, FlushInv, SyncOps = {}, [Next]_vars,
         UNCHANGED <<pc, me, buf, nops, cmd, done, before, key>>
  PROVE  BeforeAccepted' /\ DoneSettled' /\ \A u \in Thread : FlushThread(u)'
<1> USE DEF SchedInv, FlushInv
<1>0. ReturnedFirst BY DEF OrderInv
<1>1. StepKind /\ HistoryKept /\ HashKept BY StepKinds
<1>2. BitsStep BY BitsKeep
<1>3. BeforeAccepted'
  <2>1. Writes \ Inserting \subseteq (Writes \ Inserting)' BY <1>1, AcceptedGrows
  <2> QED BY <2>1 DEF BeforeAccepted
<1>4. DoneSettled' BY <1>0, <1>1, DoneKept
<1>5. ASSUME NEW u \in Thread PROVE FlushThread(u)'
  <2>1. CASE pc[u] = "idle" BY <2>1 DEF FlushThread, FoundFlush, AskedFlush
  <2>2. CASE pc[u] # "idle"
    <3>1. /\ pc[u] \in FoundFlush =>
               /\ key'[buf[u]] = key'[me[u]]
               /\ \A w \in before'[me[u]] : Covers(buf[u], w)'
          /\ pc[u] \in AskedFlush /\ IsWrite(cmd[me[u]].op) =>
               "flush_wakeup" \in bits'[buf[u]] \/ Over(buf[u])'
      BY <1>1, <1>2, <2>2, FlushThreadKept
    <3>2. cmd[me[u]].kind = "flush" <=> pc[u] \in FlushPc BY <2>2 DEF FlushThread
    <3> QED BY <2>2, <3>1, <3>2 DEF FlushThread
  <2> QED BY <2>1, <2>2
<1> QED BY <1>3, <1>4, <1>5

\* Every step preserves the invariant of the flush.
LEMMA FlushInvStep ==
  ASSUME SyncOps = {}, SchedInv, SchedInv', OneInFlight, OrderInv, FlushInv, [Next]_vars
  PROVE  FlushInv'
<1>0. ReturnedFirst /\ AsyncOnly /\ BufferFresh /\ BitsInv BY DEF OrderInv, FlushInv
<1>1. AsyncOnly' /\ StepKind /\ HistoryKept BY <1>0, StepKinds
<1>2. BufferFresh' BY <1>0, <1>1, BufferFreshStep DEF SchedInv
<1>3. BitsInv' BY <1>0, BitsKeep
<1>4. BeforeAccepted' /\ DoneSettled' /\ \A u \in Thread : FlushThread(u)'
  <2>1. ASSUME UNCHANGED vars
        PROVE  UNCHANGED <<pc, me, buf, nops, cmd, done, before, key>>
    BY <2>1 DEF vars, thrVars, histVars, reqVars
  <2>2. ASSUME DaemonStep PROVE UNCHANGED <<pc, me, buf, nops, cmd, done, before, key>>
    BY <2>2, DaemonRuns DEF thrVars
  <2>3. ASSUME Quiescent PROVE UNCHANGED vars BY <2>3 DEF Quiescent
  <2> QED BY <2>1, <2>2, <2>3, InvokeFlush, ThreadFlush, DaemonFlush DEF Next, DaemonStep
<1> QED BY <1>1, <1>2, <1>3, <1>4 DEF FlushInv

\* It holds at the start.
LEMMA FlushInvInit == Init => FlushInv
<1> SUFFICES ASSUME Init PROVE FlushInv OBVIOUS
<1>1. AsyncOnly BY CoalesceInit
<1>2. BufferFresh BY DEF Init, BufferFresh, Writes
<1>3. BitsInv BY DEF Init, BitsInv
<1>4. BeforeAccepted /\ DoneSettled BY DEF Init, BeforeAccepted, DoneSettled
<1>5. \A t \in Thread : FlushThread(t) BY DEF Init, FlushThread, FoundFlush, AskedFlush
<1> QED BY <1>1, <1>2, <1>3, <1>4, <1>5 DEF FlushInv

\* When a flush of a key returns, the device holds the puts and deletes of the key that
\* had returned before the flush was called, or newer ones, however commands and daemons
\* interleave.  The hypothesis is needed: a synchronous put takes a buffered put out of
\* the request hash before it is at the device itself, and a flush that looks in between
\* finds nothing to wait for.
THEOREM FlushDurableAlways ==
  ASSUME SyncOps = {}
  PROVE  Spec => []FlushDurable
<1>1. Init => FlushInv BY FlushInvInit
<1>2. /\ SchedInv /\ SchedInv' /\ OneInFlight /\ OrderInv /\ FlushInv /\ [Next]_vars
      => FlushInv'
  BY FlushInvStep
<1>3. FlushInv => FlushDurable BY DEF FlushInv, DoneSettled, Settled, FlushDurable
<1>4. "retrieve" \notin SyncOps OBVIOUS
<1>5. Spec => [](SchedInv /\ OneInFlight /\ OrderInv) BY <1>4, OrderInvariant
<1> QED BY <1>1, <1>2, <1>3, <1>5, PTL DEF Spec
=============================================================================
