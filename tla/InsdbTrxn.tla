------------------------------ MODULE InsdbTrxn ------------------------------
(***************************************************************************)
(* Transaction groups of insdb (class Manifest).  Transaction ids are      *)
(* handed out in order and belong to groups of GroupSize ids; a group is   *)
(* uncompleted while columns of its transactions are outstanding; the      *)
(* groups whose columns have all been submitted are kept as a list of      *)
(* ranges, which the log record carries.  The two tables have a lock each, *)
(* so a group leaves the first one before it enters the second.            *)
(*                                                                         *)
(* An id is the pair of its group (id >> TGID_SHIFT) and its index there.  *)
(***************************************************************************)
EXTENDS Naturals, Sequences

CONSTANTS
    Thread,     \* threads that take and return transactions
    GroupSize,  \* 1 << TGID_SHIFT
    BigBatch,   \* a batch of more columns ends its group (4096)
    LastGroup   \* 0xFFFFFFFF, end of the list of ranges

ASSUME TrxnAssumption ==
    /\ GroupSize \in Nat \ {0}
    /\ LastGroup \in Nat \ {0, 1}
    /\ BigBatch \in Nat

VARIABLES
    nextTrxn,     \* next_trxn_id_
    uncompleted,  \* uncompleted_trxn_group_: outstanding columns of a group
    completed,    \* completed_trxn_group_list_
    adding        \* the group a thread has erased but not yet published

trxnVars == <<nextTrxn, uncompleted, completed, adding>>

\* The id of a write outside any transaction; its group is 0.
NoTrxn == [g |-> 0, i |-> 0]

FirstOf(g) == [g |-> g, i |-> 0]
OneGroup(g) == [start |-> g, end |-> g]

TrxnInit ==
    /\ nextTrxn = FirstOf(1)
    /\ uncompleted = [g \in {} |-> 0]
    /\ completed = <<OneGroup(0), OneGroup(LastGroup)>>
    /\ adding = [t \in Thread |-> 0]

Outstanding(g) == IF g \in DOMAIN uncompleted THEN uncompleted[g] ELSE 0

\* Manifest::GetTrxnID: the caller's id is nextTrxn.  Bound: the groups of one
\* opening of the database do not reach LastGroup.
GetTrxnID(count) ==
    /\ nextTrxn.g + 1 < LastGroup
    /\ nextTrxn' = IF count > BigBatch \/ nextTrxn.i + 1 = GroupSize
                   THEN FirstOf(nextTrxn.g + 1)
                   ELSE [nextTrxn EXCEPT !.i = @ + 1]
    /\ uncompleted' = [g \in DOMAIN uncompleted \cup {nextTrxn.g} |->
                          IF g = nextTrxn.g THEN Outstanding(g) + count ELSE uncompleted[g]]
    /\ UNCHANGED <<completed, adding>>

\* Mutation: the next id stays in the group that is complete.
ErasedStays(t, g) ==
    /\ uncompleted' = [h \in DOMAIN uncompleted \ {g} |-> uncompleted[h]]
    /\ adding' = [adding EXCEPT ![t] = g]
    /\ UNCHANGED nextTrxn

\* Last column of the group: no more ids are taken from it.
EraseGroup(t, g) ==
    /\ uncompleted' = [h \in DOMAIN uncompleted \ {g} |-> uncompleted[h]]
    /\ nextTrxn' = IF nextTrxn.g = g THEN FirstOf(g + 1) ELSE nextTrxn
    /\ adding' = [adding EXCEPT ![t] = g]

\* Mutation: a group with no column left stays in the table.
KeepEmpty(t, g, n) ==
    /\ uncompleted' = [h \in DOMAIN uncompleted |->
                          IF h = g THEN uncompleted[h] - n ELSE uncompleted[h]]
    /\ UNCHANGED <<nextTrxn, completed, adding>>

\* Manifest::DecTrxnGroup, up to the unlock of uctrxn_group_lock_.
DecTrxnGroup(t, g, n) ==
    IF g \notin DOMAIN uncompleted
    THEN UNCHANGED trxnVars
    ELSE IF uncompleted[g] = n
    THEN EraseGroup(t, g) /\ UNCHANGED completed
    ELSE /\ uncompleted' = [uncompleted EXCEPT ![g] = @ - n]
         /\ UNCHANGED <<nextTrxn, completed, adding>>

-----------------------------------------------------------------------------
\* The three ways a range stops the search of AddCompletedTrxnGroupRange.
Stops(p, g) ==
    \/ completed[p].start = g + 1
    \/ g < completed[p].start
    \/ completed[p].end + 1 = g

Place(g) ==
    CHOOSE p \in DOMAIN completed : Stops(p, g) /\ \A q \in 1..(p - 1) : ~Stops(q, g)

GrowFront(p, g) == [completed EXCEPT ![p] = [@ EXCEPT !.start = g]]

InsertAt(p, g) ==
    [q \in 1..(Len(completed) + 1) |->
        IF q < p THEN completed[q] ELSE IF q = p THEN OneGroup(g) ELSE completed[q - 1]]

GrowBack(p, g) == [completed EXCEPT ![p] = [@ EXCEPT !.end = g]]

\* The group closes the gap between two ranges, which become one.
JoinNext(p) ==
    [q \in 1..(Len(completed) - 1) |->
        IF q < p THEN completed[q]
        ELSE IF q = p THEN [start |-> completed[p].start, end |-> completed[p + 1].end]
        ELSE completed[q + 1]]

\* Mutation: a range grows at its back without a look at the next one.
WithGroupUnjoined(g) ==
    LET p == Place(g) IN
    IF completed[p].start = g + 1 THEN GrowFront(p, g)
    ELSE IF g < completed[p].start THEN InsertAt(p, g)
    ELSE GrowBack(p, g)

WithGroup(g) ==
    LET p == Place(g) IN
    IF completed[p].start = g + 1 THEN GrowFront(p, g)
    ELSE IF g < completed[p].start THEN InsertAt(p, g)
    ELSE IF completed[p + 1].start = g + 1 THEN JoinNext(p)
    ELSE GrowBack(p, g)

\* The rest of DecTrxnGroup, under ctrxn_group_lock_.
AddCompletedTrxnGroupRange(t) ==
    /\ adding[t] # 0
    /\ completed' = WithGroup(adding[t])
    /\ adding' = [adding EXCEPT ![t] = 0]
    /\ UNCHANGED <<nextTrxn, uncompleted>>

-----------------------------------------------------------------------------
\* Manifest::IsCompletedTrxnGroupRange on the list.
IsCompleted(g) ==
    \E p \in DOMAIN completed : completed[p].start <= g /\ g <= completed[p].end

\* Ids of the group have been handed out, none of its columns is outstanding and
\* its last thread has published it.
Finished(g) ==
    /\ 0 < g /\ g < nextTrxn.g
    /\ g \notin DOMAIN uncompleted
    /\ \A t \in Thread : adding[t] # g

\* The list that AddCompletedTrxnGroupRange extends while other threads erase and
\* allocate groups is in order, no two of its ranges touch, and it covers exactly
\* the finished groups and the two sentinels (manifest.cc 3687-3713, 1105-1106).
RangesExact ==
    /\ \A p \in DOMAIN completed : completed[p].start <= completed[p].end
    /\ \A p, q \in DOMAIN completed : p < q => completed[p].end + 1 < completed[q].start
    /\ \A g \in 0..LastGroup : IsCompleted(g) <=> (g = 0 \/ g = LastGroup \/ Finished(g))
=============================================================================
