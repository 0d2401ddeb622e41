--------------------------- MODULE InsdbTrxnProofs ---------------------------
(***************************************************************************)
(* Proofs about the transaction groups of insdb: the list of completed     *)
(* ranges is exact, and the groups implement TrxnGroups, whatever the      *)
(* writers, the workers and their workloads are.                           *)
(***************************************************************************)
EXTENDS Insdb, TLAPS, WellFoundedInduction

\* What a step of insdb does to the transaction groups.
TrxnNext ==
    \/ \E c : GetTrxnID(c)
    \/ \E t \in Thread : \E g, n : adding[t] = 0 /\ DecTrxnGroup(t, g, n)
    \/ \E t \in Thread : AddCompletedTrxnGroupRange(t)

\* A non-empty set of numbers has a smallest one.
LEMMA Smallest ==
  ASSUME NEW S, S \subseteq Nat, S # {}
  PROVE  \E x \in S : \A y \in S : x <= y
<1>1. IsWellFoundedOn(OpToRel(<, Nat), Nat)
  BY NatLessThanWellFounded
<1> DEFINE R == OpToRel(<, Nat)
<1>2. PICK x \in S : \A y \in S : ~(<<y, x>> \in R)
  <2> HIDE DEF R
  <2> QED BY WFMin, <1>1 DEF R
<1>3. \A y \in S : ~(y < x)
  BY <1>2 DEF OpToRel
<1> QED BY <1>3

-----------------------------------------------------------------------------
GroupRange == [start : Nat, end : Nat]

\* The list is never empty: it ends with the sentinel, so that every search stops.
ListType ==
    /\ completed \in Seq(GroupRange)
    /\ Len(completed) > 0
    /\ completed[Len(completed)].start = LastGroup

\* Groups in the table have been handed out.
TableInv ==
    /\ nextTrxn \in [g : Nat, i : Nat]
    /\ 0 < nextTrxn.g /\ nextTrxn.g < LastGroup
    /\ \A g \in DOMAIN uncompleted :
          g \in Nat /\ 0 < g /\ g <= nextTrxn.g /\ g + 1 < LastGroup

\* A group between the two tables is in neither, no id is taken from it any more, and
\* one thread has it.
AddingInv ==
    /\ adding \in [Thread -> Nat]
    /\ \A t \in Thread : adding[t] # 0 =>
          adding[t] < nextTrxn.g /\ adding[t] \notin DOMAIN uncompleted
    /\ \A t, u \in Thread : adding[t] # 0 /\ adding[t] = adding[u] => t = u

\* RangesExact is not inductive: it needs to know where unpublished groups can be.
TrxnInv == ListType /\ TableInv /\ AddingInv /\ RangesExact

\* The invariant holds when the database is opened: only the two sentinels are in the list.
LEMMA TrxnInitInv == TrxnInit => TrxnInv
<1> SUFFICES ASSUME TrxnInit PROVE TrxnInv
  OBVIOUS
<1> USE TrxnAssumption DEF TrxnInit, FirstOf, OneGroup
<1>1. completed = <<[start |-> 0, end |-> 0], [start |-> LastGroup, end |-> LastGroup]>>
  OBVIOUS
<1>2. ListType
  BY <1>1 DEF ListType, GroupRange
<1>3. TableInv
  BY DEF TableInv
<1>4. AddingInv
  BY DEF AddingInv
<1>5. DOMAIN completed = {1, 2}
  BY <1>1
<1>6. RangesExact
  BY <1>1, <1>5 DEF RangesExact, IsCompleted, Finished
<1> QED BY <1>2, <1>3, <1>4, <1>6 DEF TrxnInv

\* The search of AddCompletedTrxnGroupRange finds the first range that stops it.
LEMMA PlaceFirst ==
  ASSUME ListType, NEW g \in Nat, g < LastGroup
  PROVE  /\ Place(g) \in DOMAIN completed
         /\ Stops(Place(g), g)
         /\ \A q \in 1..(Place(g) - 1) : ~Stops(q, g)
<1> DEFINE S == {p \in DOMAIN completed : Stops(p, g)}
<1>1. DOMAIN completed = 1..Len(completed) /\ Len(completed) \in Nat
  BY DEF ListType
<1>2. Stops(Len(completed), g)
  BY <1>1 DEF ListType, Stops
<1>3. S \subseteq Nat /\ S # {}
  BY <1>1, <1>2 DEF ListType
<1>4. PICK p \in S : \A q \in S : p <= q
  <2> HIDE DEF S
  <2> QED BY <1>3, Smallest
<1>5. \A q \in 1..(p - 1) : ~Stops(q, g)
  BY <1>1, <1>4
<1>6. \E x \in DOMAIN completed : Stops(x, g) /\ \A q \in 1..(x - 1) : ~Stops(q, g)
  BY <1>4, <1>5
<1> HIDE DEF S
<1> QED BY <1>6 DEF Place

-----------------------------------------------------------------------------
Covers(s, h) == \E q \in 1..Len(s) : s[q].start <= h /\ h <= s[q].end

Ordered(s) ==
    /\ \A q \in 1..Len(s) : s[q].start <= s[q].end
    /\ \A q, r \in 1..Len(s) : q < r => s[q].end + 1 < s[r].start

WellFormed(s) ==
    /\ s \in Seq(GroupRange) /\ Len(s) > 0 /\ s[Len(s)].start = LastGroup
    /\ Ordered(s)

\* The list s holds the group g and what the completed list holds.
Extended(s, g) ==
    /\ WellFormed(s)
    /\ \A h \in Nat : Covers(s, h) <=> (Covers(completed, h) \/ h = g)

\* What is known of a group and of the place where the search for it stopped.
Gap(p, g) ==
    /\ WellFormed(completed) /\ g \in Nat /\ g + 1 < LastGroup
    /\ ~Covers(completed, g)
    /\ p \in 1..Len(completed)
    /\ \A q \in 1..(p - 1) : completed[q].end + 1 < g

\* What the invariant says of the list of ranges, in the form the insertions use it.
LEMMA ListFacts ==
  ASSUME NEW p, NEW g, Gap(p, g)
  PROVE  /\ Len(completed) \in Nat /\ DOMAIN completed = 1..Len(completed)
         /\ \A q \in 1..Len(completed) : /\ completed[q] \in GroupRange
                                         /\ completed[q].start \in Nat
                                         /\ completed[q].end \in Nat
                                         /\ completed[q].start <= completed[q].end
         /\ \A q, r \in 1..Len(completed) :
               q < r => completed[q].end + 1 < completed[r].start
<1>1. completed \in Seq(GroupRange)
  BY DEF Gap, WellFormed
<1>2. Len(completed) \in Nat /\ DOMAIN completed = 1..Len(completed)
  BY <1>1
<1>3. \A q \in 1..Len(completed) : completed[q] \in GroupRange
  BY <1>1, <1>2
<1>4. Ordered(completed)
  BY DEF Gap, WellFormed
<1> QED BY <1>2, <1>3, <1>4 DEF GroupRange, Ordered

\* A function on 1..n is a sequence.
LEMMA IsList ==
  ASSUME NEW n \in Nat, NEW s, s = [q \in 1..n |-> s[q]], \A q \in 1..n : s[q] \in GroupRange
  PROVE  s \in Seq(GroupRange) /\ Len(s) = n
<1>1. s \in [1..n -> GroupRange]
  OBVIOUS
<1>2. s \in Seq(GroupRange)
  BY <1>1
<1> QED BY <1>1, <1>2

\* The first case of the search: the group is just before a range.
LEMMA FrontExtended ==
  ASSUME NEW p, NEW g, Gap(p, g), completed[p].start = g + 1
  PROVE  Extended(GrowFront(p, g), g)
<1> DEFINE s == GrowFront(p, g)
           n == Len(completed)
<1>1. /\ n \in Nat /\ DOMAIN completed = 1..n
      /\ \A q \in 1..n : /\ completed[q] \in GroupRange
                         /\ completed[q].start \in Nat
                         /\ completed[q].end \in Nat
                         /\ completed[q].start <= completed[q].end
      /\ \A q, r \in 1..n : q < r => completed[q].end + 1 < completed[r].start
  BY ListFacts
<1>2. /\ p \in 1..n /\ g \in Nat /\ g + 1 < LastGroup /\ completed[n].start = LastGroup
      /\ \A q \in 1..(p - 1) : completed[q].end + 1 < g
  BY DEF Gap, WellFormed
<1>0. n = Len(completed)
  OBVIOUS
<1> HIDE DEF n
<1>3. s[p] = [start |-> g, end |-> completed[p].end]
  BY <1>1, <1>2 DEF GrowFront, GroupRange
<1>4. \A q \in 1..n : q # p => s[q] = completed[q]
  BY <1>1, <1>2 DEF GrowFront
<1>5. s \in Seq(GroupRange) /\ Len(s) = n
  <2>1. s = [q \in 1..n |-> s[q]]
    BY <1>1 DEF GrowFront
  <2>2. [start |-> g, end |-> completed[p].end] \in GroupRange
    BY <1>1, <1>2 DEF GroupRange
  <2>3. \A q \in 1..n : s[q] \in GroupRange
    BY <1>1, <1>3, <1>4, <2>2
  <2> HIDE DEF s
  <2> QED BY <1>1, <2>1, <2>3, IsList
<1> HIDE DEF s
<1>6. p # n
  BY <1>1, <1>2
<1>7. Ordered(s)
  <2>1. ASSUME NEW q \in 1..n
        PROVE  s[q].start <= s[q].end
    <3>1. CASE q = p
      BY <1>1, <1>2, <1>3, <3>1
    <3>2. CASE q # p
      BY <1>1, <1>4, <3>2
    <3> QED BY <3>1, <3>2
  <2>2. ASSUME NEW q \in 1..n, NEW r \in 1..n, q < r
        PROVE  s[q].end + 1 < s[r].start
    <3>1. CASE r = p
      BY <1>1, <1>2, <1>3, <1>4, <2>2, <3>1
    <3>2. CASE q = p
      BY <1>1, <1>2, <1>3, <1>4, <2>2, <3>2
    <3>3. CASE q # p /\ r # p
      BY <1>1, <1>2, <1>4, <2>2, <3>3
    <3> QED BY <3>1, <3>2, <3>3
  <2> QED BY <1>5, <2>1, <2>2 DEF Ordered
<1>8. ASSUME NEW h \in Nat
      PROVE  Covers(s, h) <=> (Covers(completed, h) \/ h = g)
  <2>1. ASSUME Covers(s, h) PROVE Covers(completed, h) \/ h = g
    <3> PICK q \in 1..n : s[q].start <= h /\ h <= s[q].end
      BY <1>0, <1>5, <2>1 DEF Covers
    <3>1. CASE q = p
      <4>1. h = g \/ (completed[p].start <= h /\ h <= completed[p].end)
        BY <1>1, <1>2, <1>3, <3>1
      <4> QED BY <1>0, <1>2, <4>1 DEF Covers
    <3>2. CASE q # p
      BY <1>0, <1>4, <3>2 DEF Covers
    <3> QED BY <3>1, <3>2
  <2>2. ASSUME Covers(completed, h) PROVE Covers(s, h)
    <3> PICK q \in 1..n : completed[q].start <= h /\ h <= completed[q].end
      BY <1>0, <2>2 DEF Covers
    <3>1. s[q].start <= h /\ h <= s[q].end
      <4>1. CASE q = p
        BY <1>1, <1>2, <1>3, <4>1
      <4>2. CASE q # p
        BY <1>4, <4>2
      <4> QED BY <4>1, <4>2
    <3> QED BY <1>0, <1>5, <3>1 DEF Covers
  <2>3. Covers(s, g)
    <3>1. s[p].start <= g /\ g <= s[p].end
      BY <1>1, <1>2, <1>3
    <3> QED BY <1>2, <1>5, <3>1 DEF Covers
  <2> QED BY <2>1, <2>2, <2>3
<1>9. s[n].start = LastGroup
  BY <1>1, <1>2, <1>4, <1>6
<1> QED BY <1>1, <1>2, <1>5, <1>7, <1>8, <1>9 DEF Extended, WellFormed, s, n

\* The second case: the group is before a range and touches none.
LEMMA InsertExtended ==
  ASSUME NEW p, NEW g, Gap(p, g), g < completed[p].start, completed[p].start # g + 1
  PROVE  Extended(InsertAt(p, g), g)
<1> DEFINE s == InsertAt(p, g)
           n == Len(completed)
           one == [start |-> g, end |-> g]
<1>1. /\ n \in Nat /\ DOMAIN completed = 1..n
      /\ \A q \in 1..n : /\ completed[q] \in GroupRange
                         /\ completed[q].start \in Nat
                         /\ completed[q].end \in Nat
                         /\ completed[q].start <= completed[q].end
      /\ \A q, r \in 1..n : q < r => completed[q].end + 1 < completed[r].start
  BY ListFacts
<1>2. /\ p \in 1..n /\ g \in Nat /\ g + 1 < LastGroup /\ completed[n].start = LastGroup
      /\ \A q \in 1..(p - 1) : completed[q].end + 1 < g
  BY DEF Gap, WellFormed
<1>0. n = Len(completed)
  OBVIOUS
<1> HIDE DEF n
<1>3. s = [q \in 1..(n + 1) |-> IF q < p THEN completed[q] ELSE IF q = p THEN one
                               ELSE completed[q - 1]]
  BY <1>0 DEF InsertAt, OneGroup
<1>4. /\ s[p] = one
      /\ \A q \in 1..(n + 1) : q < p => q \in 1..n /\ s[q] = completed[q]
      /\ \A q \in 1..(n + 1) : p < q => q - 1 \in 1..n /\ s[q] = completed[q - 1]
  BY <1>1, <1>2, <1>3
<1>5. s \in Seq(GroupRange) /\ Len(s) = n + 1
  <2>1. s = [q \in 1..(n + 1) |-> s[q]]
    BY <1>3
  <2>2. one \in GroupRange
    BY <1>2 DEF GroupRange
  <2>3. \A q \in 1..(n + 1) : s[q] \in GroupRange
    BY <1>1, <1>2, <1>4, <2>2
  <2> HIDE DEF s
  <2> QED BY <1>1, <2>1, <2>3, IsList
<1> HIDE DEF s
<1>6. ASSUME NEW q \in 1..n, p <= q
      PROVE  g + 1 < completed[q].start
  <2>1. completed[p].start \in Nat /\ completed[p].end \in Nat /\ completed[q].start \in Nat
    BY <1>1, <1>2
  <2>2. g + 1 < completed[p].start
    BY <1>2, <2>1
  <2>3. p = q \/ completed[p].end + 1 < completed[q].start
    BY <1>1, <1>2, <1>6
  <2>4. completed[p].start <= completed[p].end
    BY <1>1, <1>2
  <2> QED BY <1>2, <2>1, <2>2, <2>3, <2>4
<1>7. Ordered(s)
  <2>1. ASSUME NEW q \in 1..(n + 1)
        PROVE  s[q].start <= s[q].end
    <3>1. CASE q < p
      BY <1>1, <1>4, <3>1
    <3>2. CASE q = p
      BY <1>2, <1>4, <3>2
    <3>3. CASE p < q
      BY <1>1, <1>4, <3>3
    <3> QED BY <1>1, <1>2, <3>1, <3>2, <3>3
  <2>2. ASSUME NEW q \in 1..(n + 1), NEW r \in 1..(n + 1), q < r
        PROVE  s[q].end + 1 < s[r].start
    <3>1. CASE r = p
      BY <1>1, <1>2, <1>4, <2>2, <3>1
    <3>2. CASE q = p
      BY <1>1, <1>2, <1>4, <1>6, <2>2, <3>2
    <3>3. CASE q < p /\ p < r
      <4>1. q \in 1..n /\ r - 1 \in 1..n /\ q < r - 1
        BY <1>1, <1>2, <1>4, <3>3
      <4>2. s[q] = completed[q] /\ s[r] = completed[r - 1]
        BY <1>4, <3>3
      <4> QED BY <1>1, <4>1, <4>2
    <3>4. CASE r < p
      <4>1. q < p
        BY <1>2, <2>2, <3>4
      <4>2. /\ q \in 1..n /\ s[q] = completed[q]
            /\ r \in 1..n /\ s[r] = completed[r]
        BY <1>4, <3>4, <4>1
      <4> QED BY <1>1, <2>2, <4>2
    <3>5. CASE p < q
      <4>1. p < r
        BY <1>2, <2>2, <3>5
      <4>2. q - 1 \in 1..n /\ r - 1 \in 1..n /\ q - 1 < r - 1
        BY <1>1, <1>4, <2>2, <3>5, <4>1
      <4>3. s[q] = completed[q - 1] /\ s[r] = completed[r - 1]
        BY <1>4, <3>5, <4>1
      <4> QED BY <1>1, <4>2, <4>3
    <3> QED BY <1>1, <1>2, <2>2, <3>1, <3>2, <3>3, <3>4, <3>5
  <2> QED BY <1>5, <2>1, <2>2 DEF Ordered
<1>8. ASSUME NEW h \in Nat
      PROVE  Covers(s, h) <=> (Covers(completed, h) \/ h = g)
  <2>1. ASSUME Covers(s, h) PROVE Covers(completed, h) \/ h = g
    <3> PICK q \in 1..(n + 1) : s[q].start <= h /\ h <= s[q].end
      BY <1>0, <1>5, <2>1 DEF Covers
    <3>1. CASE q < p
      BY <1>0, <1>4, <3>1 DEF Covers
    <3>2. CASE q = p
      BY <1>2, <1>4, <3>2
    <3>3. CASE p < q
      BY <1>0, <1>4, <3>3 DEF Covers
    <3> QED BY <1>1, <1>2, <3>1, <3>2, <3>3
  <2>2. ASSUME Covers(completed, h) PROVE Covers(s, h)
    <3> PICK q \in 1..n : completed[q].start <= h /\ h <= completed[q].end
      BY <1>0, <2>2 DEF Covers
    <3>1. CASE q < p
      BY <1>0, <1>1, <1>4, <1>5, <3>1 DEF Covers
    <3>2. CASE p <= q
      <4>1. q + 1 \in 1..(n + 1) /\ p < q + 1 /\ (q + 1) - 1 = q
        BY <1>1, <1>2, <3>2
      <4> QED BY <1>0, <1>4, <1>5, <4>1 DEF Covers
    <3> QED BY <1>1, <1>2, <3>1, <3>2
  <2>3. Covers(s, g)
    <3>1. p \in 1..(n + 1) /\ s[p].start <= g /\ g <= s[p].end
      BY <1>1, <1>2, <1>4
    <3> QED BY <1>5, <3>1 DEF Covers
  <2> QED BY <2>1, <2>2, <2>3
<1>9. s[n + 1].start = LastGroup
  BY <1>1, <1>2, <1>4
<1> QED BY <1>1, <1>5, <1>7, <1>8, <1>9 DEF Extended, WellFormed, s, n

\* The third case: the group is just behind a range, and in front of another one.
LEMMA JoinExtended ==
  ASSUME NEW p, NEW g, Gap(p, g), completed[p].end + 1 = g, completed[p + 1].start = g + 1
  PROVE  Extended(JoinNext(p), g)
<1> DEFINE s == JoinNext(p)
           n == Len(completed)
           both == [start |-> completed[p].start, end |-> completed[p + 1].end]
<1>1. /\ n \in Nat /\ DOMAIN completed = 1..n
      /\ \A q \in 1..n : /\ completed[q] \in GroupRange
                         /\ completed[q].start \in Nat
                         /\ completed[q].end \in Nat
                         /\ completed[q].start <= completed[q].end
      /\ \A q, r \in 1..n : q < r => completed[q].end + 1 < completed[r].start
  BY ListFacts
<1>2. /\ p \in 1..n /\ g \in Nat /\ g + 1 < LastGroup /\ completed[n].start = LastGroup
      /\ \A q \in 1..(p - 1) : completed[q].end + 1 < g
  BY DEF Gap, WellFormed
<1>0. n = Len(completed)
  OBVIOUS
<1> HIDE DEF n
<1>3. p + 1 \in 1..n /\ p \in 1..(n - 1) /\ n - 1 \in Nat
  BY <1>1, <1>2
<1>4. s = [q \in 1..(n - 1) |-> IF q < p THEN completed[q] ELSE IF q = p THEN both
                               ELSE completed[q + 1]]
  BY <1>0 DEF JoinNext
<1>5. /\ s[p] = both
      /\ \A q \in 1..(n - 1) : q < p => q \in 1..n /\ s[q] = completed[q]
      /\ \A q \in 1..(n - 1) : p < q => q + 1 \in 1..n /\ s[q] = completed[q + 1]
  BY <1>1, <1>3, <1>4
<1>6. s \in Seq(GroupRange) /\ Len(s) = n - 1
  <2>1. s = [q \in 1..(n - 1) |-> s[q]]
    BY <1>4
  <2>2. both \in GroupRange
    BY <1>1, <1>2, <1>3 DEF GroupRange
  <2>3. \A q \in 1..(n - 1) : s[q] \in GroupRange
    BY <1>1, <1>3, <1>5, <2>2
  <2> HIDE DEF s
  <2> QED BY <1>3, <2>1, <2>3, IsList
<1> HIDE DEF s
<1>11. /\ completed[p].start \in Nat /\ completed[p].start <= g
       /\ completed[p].end \in Nat /\ completed[p].end <= g
       /\ completed[p + 1].end \in Nat /\ g <= completed[p + 1].end
  <2>1. /\ completed[p].start \in Nat /\ completed[p].end \in Nat
        /\ completed[p].start <= completed[p].end
    BY <1>1, <1>2
  <2>2. /\ completed[p + 1].start \in Nat /\ completed[p + 1].end \in Nat
        /\ completed[p + 1].start <= completed[p + 1].end
    BY <1>1, <1>3
  <2> QED BY <1>2, <2>1, <2>2
<1>7. Ordered(s)
  <2>1. ASSUME NEW q \in 1..(n - 1)
        PROVE  s[q].start <= s[q].end
    <3>1. CASE q = p
      BY <1>2, <1>5, <1>11, <3>1
    <3>2. CASE q < p
      BY <1>1, <1>5, <3>2
    <3>3. CASE p < q
      BY <1>1, <1>5, <3>3
    <3> QED BY <1>3, <3>1, <3>2, <3>3
  <2>2. ASSUME NEW q \in 1..(n - 1), NEW r \in 1..(n - 1), q < r
        PROVE  s[q].end + 1 < s[r].start
    <3>1. CASE r = p
      BY <1>1, <1>3, <1>5, <2>2, <3>1
    <3>2. CASE q = p
      BY <1>1, <1>3, <1>5, <2>2, <3>2
    <3>3. CASE q < p /\ p < r
      <4>1. q \in 1..n /\ r + 1 \in 1..n /\ q < r + 1
        BY <1>1, <1>3, <1>5, <3>3
      <4>2. s[q] = completed[q] /\ s[r] = completed[r + 1]
        BY <1>5, <3>3
      <4> QED BY <1>1, <4>1, <4>2
    <3>4. CASE r < p
      <4>1. q < p
        BY <1>3, <2>2, <3>4
      <4>2. /\ q \in 1..n /\ s[q] = completed[q]
            /\ r \in 1..n /\ s[r] = completed[r]
        BY <1>5, <3>4, <4>1
      <4> QED BY <1>1, <2>2, <4>2
    <3>5. CASE p < q
      <4>1. p < r
        BY <1>3, <2>2, <3>5
      <4>2. q + 1 \in 1..n /\ r + 1 \in 1..n /\ q + 1 < r + 1
        BY <1>1, <1>5, <2>2, <3>5, <4>1
      <4>3. s[q] = completed[q + 1] /\ s[r] = completed[r + 1]
        BY <1>5, <3>5, <4>1
      <4> QED BY <1>1, <4>2, <4>3
    <3> QED BY <1>1, <1>3, <2>2, <3>1, <3>2, <3>3, <3>4, <3>5
  <2> QED BY <1>6, <2>1, <2>2 DEF Ordered
<1>8. ASSUME NEW h \in Nat
      PROVE  Covers(s, h) <=> (Covers(completed, h) \/ h = g)
  <2>1. ASSUME Covers(s, h) PROVE Covers(completed, h) \/ h = g
    <3> PICK q \in 1..(n - 1) : s[q].start <= h /\ h <= s[q].end
      BY <1>0, <1>6, <2>1 DEF Covers
    <3>1. CASE q < p
      BY <1>0, <1>5, <3>1 DEF Covers
    <3>2. CASE q = p
      <4>1. h <= completed[p].end \/ h = g \/ completed[p + 1].start <= h
        BY <1>1, <1>2, <1>3
      <4> QED BY <1>0, <1>2, <1>3, <1>5, <3>2, <4>1 DEF Covers
    <3>3. CASE p < q
      BY <1>0, <1>5, <3>3 DEF Covers
    <3> QED BY <1>1, <1>3, <3>1, <3>2, <3>3
  <2>2. ASSUME Covers(completed, h) PROVE Covers(s, h)
    <3> PICK q \in 1..n : completed[q].start <= h /\ h <= completed[q].end
      BY <1>0, <2>2 DEF Covers
    <3>1. CASE q < p
      <4>1. q \in 1..(n - 1) /\ s[q] = completed[q]
        BY <1>1, <1>3, <1>5, <3>1
      <4> QED BY <1>6, <4>1 DEF Covers
    <3>2. CASE q = p \/ q = p + 1
      <4>1. ASSUME q = p PROVE s[p].start <= h /\ h <= s[p].end
        BY <1>2, <1>5, <1>11, <4>1
      <4>2. ASSUME q = p + 1 PROVE s[p].start <= h /\ h <= s[p].end
        BY <1>2, <1>5, <1>11, <4>2
      <4>3. s[p].start <= h /\ h <= s[p].end
        BY <3>2, <4>1, <4>2
      <4> QED BY <1>0, <1>3, <1>6, <4>3 DEF Covers
    <3>3. CASE p + 1 < q
      <4>1. q - 1 \in 1..(n - 1) /\ p < q - 1 /\ (q - 1) + 1 = q
        BY <1>1, <1>3, <3>3
      <4> QED BY <1>0, <1>5, <1>6, <4>1 DEF Covers
    <3> QED BY <1>1, <1>3, <3>1, <3>2, <3>3
  <2>3. Covers(s, g)
    <3>1. s[p].start <= g /\ g <= s[p].end
      BY <1>5, <1>11
    <3> QED BY <1>0, <1>3, <1>6, <3>1 DEF Covers
  <2> QED BY <2>1, <2>2, <2>3
<1>9. s[n - 1].start = LastGroup
  <2>1. CASE p = n - 1
    BY <1>1, <1>2, <1>3, <2>1
  <2>2. CASE p # n - 1
    <3>1. p < n - 1 /\ n - 1 \in 1..(n - 1) /\ (n - 1) + 1 = n
      BY <1>1, <1>3, <2>2
    <3> QED BY <1>2, <1>5, <3>1
  <2> QED BY <2>1, <2>2
<1> QED BY <1>3, <1>6, <1>7, <1>8, <1>9 DEF Extended, WellFormed, s, n

\* The last case: the group is just behind a range and touches no other one.
LEMMA BackExtended ==
  ASSUME NEW p, NEW g, Gap(p, g), completed[p].end + 1 = g, completed[p + 1].start # g + 1
  PROVE  Extended(GrowBack(p, g), g)
<1> DEFINE s == GrowBack(p, g)
           n == Len(completed)
<1>1. /\ n \in Nat /\ DOMAIN completed = 1..n
      /\ \A q \in 1..n : /\ completed[q] \in GroupRange
                         /\ completed[q].start \in Nat
                         /\ completed[q].end \in Nat
                         /\ completed[q].start <= completed[q].end
      /\ \A q, r \in 1..n : q < r => completed[q].end + 1 < completed[r].start
  BY ListFacts
<1>2. /\ p \in 1..n /\ g \in Nat /\ g + 1 < LastGroup /\ completed[n].start = LastGroup
      /\ \A q \in 1..(p - 1) : completed[q].end + 1 < g
  BY DEF Gap, WellFormed
<1>0. n = Len(completed)
  OBVIOUS
<1> HIDE DEF n
<1>3. s[p] = [start |-> completed[p].start, end |-> g]
  BY <1>1, <1>2 DEF GrowBack, GroupRange
<1>4. \A q \in 1..n : q # p => s[q] = completed[q]
  BY <1>1, <1>2 DEF GrowBack
<1>5. s \in Seq(GroupRange) /\ Len(s) = n
  <2>1. s = [q \in 1..n |-> s[q]]
    BY <1>1 DEF GrowBack
  <2>2. [start |-> completed[p].start, end |-> g] \in GroupRange
    BY <1>1, <1>2 DEF GroupRange
  <2>3. \A q \in 1..n : s[q] \in GroupRange
    BY <1>1, <1>3, <1>4, <2>2
  <2> HIDE DEF s
  <2> QED BY <1>1, <2>1, <2>3, IsList
<1> HIDE DEF s
<1>6. p # n
  BY <1>1, <1>2
<1>7. ASSUME NEW q \in 1..n, p < q
      PROVE  g + 1 < completed[q].start
  <2>0. p + 1 \in 1..n /\ p < p + 1
    BY <1>1, <1>2, <1>6
  <2>1. p + 1 \in 1..n /\ g + 1 < completed[p + 1].start
    <3>1. completed[p].end + 1 < completed[p + 1].start /\ completed[p + 1].start \in Nat
      BY <1>1, <1>2, <2>0
    <3> QED BY <1>2, <2>0, <3>1
  <2>2. q = p + 1 \/ completed[p + 1].end + 1 < completed[q].start
    BY <1>1, <1>2, <1>7, <2>1
  <2>3. completed[p + 1].start <= completed[p + 1].end
    BY <1>1, <2>1
  <2>4. /\ completed[p + 1].start \in Nat /\ completed[p + 1].end \in Nat
        /\ completed[q].start \in Nat
    BY <1>1, <2>1
  <2> QED BY <1>2, <2>1, <2>2, <2>3, <2>4
<1>8. Ordered(s)
  <2>1. ASSUME NEW q \in 1..n
        PROVE  s[q].start <= s[q].end
    <3>1. CASE q = p
      BY <1>1, <1>2, <1>3, <3>1
    <3>2. CASE q # p
      BY <1>1, <1>4, <3>2
    <3> QED BY <3>1, <3>2
  <2>2. ASSUME NEW q \in 1..n, NEW r \in 1..n, q < r
        PROVE  s[q].end + 1 < s[r].start
    <3>1. CASE r = p
      BY <1>1, <1>2, <1>3, <1>4, <2>2, <3>1
    <3>2. CASE q = p
      BY <1>1, <1>2, <1>3, <1>4, <1>7, <2>2, <3>2
    <3>3. CASE q # p /\ r # p
      BY <1>1, <1>2, <1>4, <2>2, <3>3
    <3> QED BY <3>1, <3>2, <3>3
  <2> QED BY <1>5, <2>1, <2>2 DEF Ordered
<1>9. ASSUME NEW h \in Nat
      PROVE  Covers(s, h) <=> (Covers(completed, h) \/ h = g)
  <2>1. ASSUME Covers(s, h) PROVE Covers(completed, h) \/ h = g
    <3> PICK q \in 1..n : s[q].start <= h /\ h <= s[q].end
      BY <1>5, <2>1 DEF Covers
    <3>1. h = g \/ (completed[q].start <= h /\ h <= completed[q].end)
      <4>1. CASE q = p
        BY <1>1, <1>2, <1>3, <4>1
      <4>2. CASE q # p
        BY <1>4, <4>2
      <4> QED BY <4>1, <4>2
    <3> QED BY <1>0, <3>1 DEF Covers
  <2>2. ASSUME Covers(completed, h) PROVE Covers(s, h)
    <3> PICK q \in 1..n : completed[q].start <= h /\ h <= completed[q].end
      BY <1>0, <2>2 DEF Covers
    <3>1. s[q].start <= h /\ h <= s[q].end
      <4>1. CASE q = p
        BY <1>1, <1>2, <1>3, <4>1
      <4>2. CASE q # p
        BY <1>4, <4>2
      <4> QED BY <4>1, <4>2
    <3> QED BY <1>5, <3>1 DEF Covers
  <2>3. Covers(s, g)
    <3>1. s[p].start <= g /\ g <= s[p].end
      BY <1>1, <1>2, <1>3
    <3> QED BY <1>2, <1>5, <3>1 DEF Covers
  <2> QED BY <2>1, <2>2, <2>3
<1>10. s[n].start = LastGroup
  BY <1>1, <1>2, <1>4, <1>6
<1> QED BY <1>1, <1>2, <1>5, <1>8, <1>9, <1>10 DEF Extended, WellFormed, s, n

\* AddCompletedTrxnGroupRange adds a group to the list, whichever case it is in.
LEMMA WithGroupExtended ==
  ASSUME ListType, RangesExact, NEW g \in Nat, 0 < g, g + 1 < LastGroup, ~IsCompleted(g)
  PROVE  Extended(WithGroup(g), g)
<1> DEFINE p == Place(g)
<1>1. Len(completed) \in Nat /\ DOMAIN completed = 1..Len(completed)
  BY DEF ListType
<1>2. WellFormed(completed)
  BY <1>1 DEF WellFormed, Ordered, ListType, RangesExact
<1>3. ~Covers(completed, g)
  BY <1>1 DEF Covers, IsCompleted
<1>4. /\ p \in DOMAIN completed /\ Stops(p, g)
      /\ \A q \in 1..(p - 1) : ~Stops(q, g)
  BY PlaceFirst, TrxnAssumption
<1> HIDE DEF p
<1>5. \A q \in 1..Len(completed) : completed[q].start \in Nat /\ completed[q].end \in Nat
  <2>1. \A q \in 1..Len(completed) : completed[q] \in GroupRange
    BY <1>1 DEF ListType
  <2> QED BY <2>1 DEF GroupRange
<1>6. \A q \in 1..(p - 1) : completed[q].end + 1 < g
  <2> SUFFICES ASSUME NEW q \in 1..(p - 1) PROVE completed[q].end + 1 < g
    OBVIOUS
  <2>1. q \in 1..Len(completed)
    BY <1>1, <1>4
  <2>2. /\ completed[q].start # g + 1 /\ ~(g < completed[q].start)
        /\ completed[q].end + 1 # g
    BY <1>4 DEF Stops
  <2>3. ~(completed[q].start <= g /\ g <= completed[q].end)
    BY <1>3, <2>1 DEF Covers
  <2> QED BY <1>5, <2>1, <2>2, <2>3
<1>7. Gap(p, g)
  BY <1>1, <1>2, <1>3, <1>4, <1>6 DEF Gap
<1>0. WithGroup(g) = IF completed[p].start = g + 1 THEN GrowFront(p, g)
                     ELSE IF g < completed[p].start THEN InsertAt(p, g)
                     ELSE IF completed[p + 1].start = g + 1 THEN JoinNext(p)
                     ELSE GrowBack(p, g)
  BY DEF WithGroup, p
<1>8. CASE completed[p].start = g + 1
  BY <1>7, <1>8, FrontExtended, <1>0
<1>9. CASE completed[p].start # g + 1 /\ g < completed[p].start
  BY <1>7, <1>9, InsertExtended, <1>0
<1>10. CASE completed[p].start # g + 1 /\ ~(g < completed[p].start)
  <2>1. completed[p].end + 1 = g
    BY <1>4, <1>10 DEF Stops
  <2>2. CASE completed[p + 1].start = g + 1
    BY <1>7, <1>10, <2>1, <2>2, JoinExtended, <1>0
  <2>3. CASE completed[p + 1].start # g + 1
    BY <1>7, <1>10, <2>1, <2>3, BackExtended, <1>0
  <2> QED BY <2>2, <2>3
<1> QED BY <1>8, <1>9, <1>10

-----------------------------------------------------------------------------
\* Finished groups stay the same while the list does: the list remains exact.
LEMMA SameRanges ==
  ASSUME TrxnInv, completed' = completed,
         \A h \in 0..LastGroup : Finished(h)' <=> Finished(h)
  PROVE  ListType' /\ RangesExact'
<1>1. ListType'
  BY DEF TrxnInv, ListType
<1>2. \A h : IsCompleted(h)' <=> IsCompleted(h)
  BY DEF IsCompleted
<1>3. /\ \A p \in DOMAIN completed : completed[p].start <= completed[p].end
      /\ \A p, q \in DOMAIN completed : p < q => completed[p].end + 1 < completed[q].start
      /\ \A h \in 0..LastGroup : IsCompleted(h) <=> (h = 0 \/ h = LastGroup \/ Finished(h))
  BY DEF TrxnInv, RangesExact
<1>4. \A h \in 0..LastGroup : IsCompleted(h)' <=> (h = 0 \/ h = LastGroup \/ Finished(h)')
  BY <1>2, <1>3
<1>5. /\ \A p \in DOMAIN completed' : completed'[p].start <= completed'[p].end
      /\ \A p, q \in DOMAIN completed' : p < q => completed'[p].end + 1 < completed'[q].start
  BY <1>3
<1> QED BY <1>1, <1>4, <1>5 DEF RangesExact

\* Handing out an id opens its group, which is not finished before or after.
LEMMA GetTrxnIDInv ==
  ASSUME TrxnInv, NEW c, GetTrxnID(c)
  PROVE  TrxnInv'
<1> DEFINE n == nextTrxn.g
<1>1. /\ n \in Nat /\ 0 < n /\ n + 1 < LastGroup /\ nextTrxn \in [g : Nat, i : Nat]
      /\ \A g \in DOMAIN uncompleted : g \in Nat /\ 0 < g /\ g <= n /\ g + 1 < LastGroup
  BY DEF TrxnInv, TableInv, GetTrxnID
<1>2. /\ nextTrxn' \in [g : Nat, i : Nat] /\ (nextTrxn'.g = n \/ nextTrxn'.g = n + 1)
  BY <1>1 DEF GetTrxnID, FirstOf
<1>3. /\ DOMAIN uncompleted' = DOMAIN uncompleted \cup {n}
      /\ completed' = completed /\ adding' = adding
  BY DEF GetTrxnID
<1>4. /\ adding \in [Thread -> Nat]
      /\ \A t \in Thread : adding[t] # 0 => adding[t] < n /\ adding[t] \notin DOMAIN uncompleted
      /\ \A t, u \in Thread : adding[t] # 0 /\ adding[t] = adding[u] => t = u
  BY DEF TrxnInv, AddingInv
<1>5. TableInv'
  BY <1>1, <1>2, <1>3, TrxnAssumption DEF TableInv
<1>6. AddingInv'
  <2>1. \A t \in Thread : adding[t] # 0 => adding[t] < nextTrxn'.g /\ adding[t] # n
    BY <1>1, <1>2, <1>4
  <2> QED BY <1>3, <1>4, <2>1 DEF AddingInv
<1>7. ASSUME NEW h \in 0..LastGroup
      PROVE  Finished(h)' <=> Finished(h)
  <2>1. CASE h < n
    BY <1>1, <1>2, <1>3, <2>1 DEF Finished
  <2>2. CASE h = n
    BY <1>1, <1>3, <2>2 DEF Finished
  <2>3. CASE n < h
    BY <1>1, <1>2, <2>3, TrxnAssumption DEF Finished
  <2> QED BY <1>1, <2>1, <2>2, <2>3
<1>8. ListType' /\ RangesExact'
  BY <1>3, <1>7, SameRanges
<1> QED BY <1>5, <1>6, <1>8 DEF TrxnInv

\* Lowering a count leaves the group open, or erases it and keeps it with the thread.
LEMMA DecTrxnGroupInv ==
  ASSUME TrxnInv, NEW t \in Thread, NEW g, NEW n, adding[t] = 0, DecTrxnGroup(t, g, n)
  PROVE  TrxnInv'
<1>1. /\ nextTrxn \in [g : Nat, i : Nat] /\ 0 < nextTrxn.g /\ nextTrxn.g < LastGroup
      /\ \A x \in DOMAIN uncompleted : x \in Nat /\ 0 < x /\ x <= nextTrxn.g /\ x + 1 < LastGroup
  BY DEF TrxnInv, TableInv
<1>2. /\ adding \in [Thread -> Nat]
      /\ \A u \in Thread : adding[u] # 0 =>
            adding[u] < nextTrxn.g /\ adding[u] \notin DOMAIN uncompleted
      /\ \A u, v \in Thread : adding[u] # 0 /\ adding[u] = adding[v] => u = v
  BY DEF TrxnInv, AddingInv
<1>3. CASE DOMAIN uncompleted' = DOMAIN uncompleted /\ nextTrxn' = nextTrxn
           /\ completed' = completed /\ adding' = adding
  <2>1. TableInv' /\ AddingInv'
    BY <1>1, <1>2, <1>3 DEF TableInv, AddingInv
  <2>2. \A h \in 0..LastGroup : Finished(h)' <=> Finished(h)
    BY <1>3 DEF Finished
  <2> QED BY <1>3, <2>1, <2>2, SameRanges DEF TrxnInv
<1>4. CASE g \in DOMAIN uncompleted /\ EraseGroup(t, g) /\ completed' = completed
  <2>1. /\ DOMAIN uncompleted' = DOMAIN uncompleted \ {g}
        /\ adding' = [adding EXCEPT ![t] = g]
        /\ nextTrxn' = IF nextTrxn.g = g THEN FirstOf(g + 1) ELSE nextTrxn
    BY <1>4 DEF EraseGroup
  <2>2. g \in Nat /\ 0 < g /\ g <= nextTrxn.g /\ g + 1 < LastGroup
    BY <1>1, <1>4
  <2>3. /\ nextTrxn' \in [g : Nat, i : Nat] /\ g < nextTrxn'.g /\ nextTrxn.g <= nextTrxn'.g
        /\ nextTrxn'.g < LastGroup
        /\ nextTrxn'.g = nextTrxn.g \/ (nextTrxn.g = g /\ nextTrxn'.g = g + 1)
    BY <1>1, <2>1, <2>2 DEF FirstOf
  <2>4. /\ adding' \in [Thread -> Nat] /\ adding'[t] = g
        /\ \A u \in Thread \ {t} : adding'[u] = adding[u]
    BY <1>2, <2>1, <2>2
  <2>5. \A u \in Thread : adding[u] # g
    BY <1>2, <1>4, <2>2
  <2>6. TableInv'
    BY <1>1, <2>1, <2>2, <2>3, TrxnAssumption DEF TableInv
  <2>7. AddingInv'
    <3>1. ASSUME NEW u \in Thread, adding'[u] # 0
          PROVE  adding'[u] < nextTrxn'.g /\ adding'[u] \notin DOMAIN uncompleted'
      <4>1. CASE u = t
        BY <2>1, <2>3, <2>4, <4>1
      <4>2. CASE u # t
        BY <1>1, <1>2, <2>1, <2>3, <2>4, <3>1, <4>2
      <4> QED BY <4>1, <4>2
    <3>2. \A u, v \in Thread : adding'[u] # 0 /\ adding'[u] = adding'[v] => u = v
      BY <1>2, <2>4, <2>5
    <3> QED BY <2>4, <3>1, <3>2 DEF AddingInv
  <2>8. ASSUME NEW h \in 0..LastGroup
        PROVE  Finished(h)' <=> Finished(h)
    <3>1. CASE h = g
      BY <1>4, <2>4, <3>1 DEF Finished
    <3>2. CASE h # g
      <4>1. h < nextTrxn'.g <=> h < nextTrxn.g
        BY <1>1, <2>2, <2>3, <3>2, TrxnAssumption
      <4>2. h > 0 => ((\A u \in Thread : adding'[u] # h) <=> (\A u \in Thread : adding[u] # h))
        BY <2>4, <3>2
      <4> QED BY <2>1, <3>2, <4>1, <4>2 DEF Finished
    <3> QED BY <3>1, <3>2
  <2> QED BY <1>4, <2>6, <2>7, <2>8, SameRanges DEF TrxnInv
<1>5. \/ DOMAIN uncompleted' = DOMAIN uncompleted /\ nextTrxn' = nextTrxn
         /\ completed' = completed /\ adding' = adding
      \/ g \in DOMAIN uncompleted /\ EraseGroup(t, g) /\ completed' = completed
  BY DEF DecTrxnGroup, trxnVars
<1> QED BY <1>3, <1>4, <1>5

\* Publishing a group: it was not in the list, and then the list holds it.
LEMMA AddCompletedInv ==
  ASSUME TrxnInv, NEW t \in Thread, AddCompletedTrxnGroupRange(t)
  PROVE  /\ TrxnInv'
         /\ \A h \in 1..(LastGroup - 1) : IsCompleted(h)' <=> (IsCompleted(h) \/ h = adding[t])
<1> DEFINE g == adding[t]
<1>1. /\ completed' = WithGroup(g) /\ adding' = [adding EXCEPT ![t] = 0]
      /\ nextTrxn' = nextTrxn /\ uncompleted' = uncompleted /\ g # 0
  BY DEF AddCompletedTrxnGroupRange
<1>2. /\ adding \in [Thread -> Nat]
      /\ \A u \in Thread : adding[u] # 0 =>
            adding[u] < nextTrxn.g /\ adding[u] \notin DOMAIN uncompleted
      /\ \A u, v \in Thread : adding[u] # 0 /\ adding[u] = adding[v] => u = v
  BY DEF TrxnInv, AddingInv
<1>3. nextTrxn.g \in Nat /\ nextTrxn.g < LastGroup
  BY DEF TrxnInv, TableInv
<1>4. g \in Nat /\ 0 < g /\ g < nextTrxn.g /\ g + 1 < LastGroup /\ g \notin DOMAIN uncompleted
  BY <1>1, <1>2, <1>3, TrxnAssumption
<1>5. /\ \A p \in DOMAIN completed : completed[p].start <= completed[p].end
      /\ \A p, q \in DOMAIN completed : p < q => completed[p].end + 1 < completed[q].start
      /\ \A h \in 0..LastGroup : IsCompleted(h) <=> (h = 0 \/ h = LastGroup \/ Finished(h))
  BY DEF TrxnInv, RangesExact
<1>6. ~IsCompleted(g)
  <2>1. g \in 0..LastGroup /\ g # LastGroup
    BY <1>4, TrxnAssumption
  <2>2. ~Finished(g)
    BY DEF Finished
  <2> QED BY <1>4, <1>5, <2>1, <2>2
<1> HIDE DEF g
<1>7. Extended(completed', g)
  BY <1>1, <1>4, <1>6, WithGroupExtended DEF TrxnInv
<1>8. Len(completed) \in Nat /\ DOMAIN completed = 1..Len(completed)
  BY DEF TrxnInv, ListType
<1>9. Len(completed') \in Nat /\ DOMAIN completed' = 1..Len(completed')
  BY <1>7 DEF Extended, WellFormed
<1>10. \A h \in Nat : IsCompleted(h)' <=> (IsCompleted(h) \/ h = g)
  <2>1. \A h \in Nat : Covers(completed, h) <=> IsCompleted(h)
    BY <1>8 DEF Covers, IsCompleted
  <2>2. \A h \in Nat : Covers(completed', h) <=> IsCompleted(h)'
    BY <1>9 DEF Covers, IsCompleted
  <2>3. \A h \in Nat : Covers(completed', h) <=> (Covers(completed, h) \/ h = g)
    BY <1>7 DEF Extended
  <2> QED BY <2>1, <2>2, <2>3
<1>11. /\ adding' \in [Thread -> Nat] /\ adding'[t] = 0
       /\ \A u \in Thread \ {t} : adding'[u] = adding[u] /\ adding[u] # g
  BY <1>1, <1>2 DEF g
<1>12. ASSUME NEW h \in 0..LastGroup
       PROVE  Finished(h)' <=> (Finished(h) \/ h = g)
  <2>1. CASE h = g
    BY <1>1, <1>4, <1>11, <2>1 DEF Finished
  <2>2. CASE h # g
    BY <1>1, <1>11, <2>2 DEF Finished, g
  <2> QED BY <2>1, <2>2
<1>13. ListType'
  BY <1>7 DEF Extended, WellFormed, ListType
<1>14. TableInv'
  BY <1>1 DEF TrxnInv, TableInv
<1>15. AddingInv'
  BY <1>1, <1>2, <1>11 DEF AddingInv
<1>16. RangesExact'
  <2>1. Ordered(completed')
    BY <1>7 DEF Extended, WellFormed
  <2>2. \A h \in 0..LastGroup : IsCompleted(h)' <=> (h = 0 \/ h = LastGroup \/ Finished(h)')
    BY <1>5, <1>10, <1>12, TrxnAssumption
  <2> QED BY <1>9, <2>1, <2>2 DEF RangesExact, Ordered
<1>17. \A h \in 1..(LastGroup - 1) : IsCompleted(h)' <=> (IsCompleted(h) \/ h = g)
  BY <1>10, TrxnAssumption
<1> QED BY <1>13, <1>14, <1>15, <1>16, <1>17 DEF TrxnInv, g

-----------------------------------------------------------------------------
\* A step of the transaction groups, or one that does not touch them, keeps TrxnInv.
LEMMA TrxnStep ==
  ASSUME TrxnInv, [TrxnNext]_trxnVars
  PROVE  TrxnInv'
<1>1. CASE UNCHANGED trxnVars
  <2>1. /\ nextTrxn' = nextTrxn /\ uncompleted' = uncompleted
        /\ completed' = completed /\ adding' = adding
    BY <1>1 DEF trxnVars
  <2>2. TableInv' /\ AddingInv'
    BY <2>1 DEF TrxnInv, TableInv, AddingInv
  <2>3. \A h \in 0..LastGroup : Finished(h)' <=> Finished(h)
    BY <2>1 DEF Finished
  <2> QED BY <2>1, <2>2, <2>3, SameRanges DEF TrxnInv
<1>2. ASSUME NEW c, GetTrxnID(c) PROVE TrxnInv'
  BY <1>2, GetTrxnIDInv
<1>3. ASSUME NEW t \in Thread, NEW g, NEW n, adding[t] = 0, DecTrxnGroup(t, g, n) PROVE TrxnInv'
  BY <1>3, DecTrxnGroupInv
<1>4. ASSUME NEW t \in Thread, AddCompletedTrxnGroupRange(t) PROVE TrxnInv'
  BY <1>4, AddCompletedInv
<1> QED BY <1>1, <1>2, <1>3, <1>4 DEF TrxnNext

\* A write takes an id, gives one back, or leaves the groups alone.
LEMMA StoreTrxn ==
  ASSUME NEW p \in Writer, Store(p)
  PROVE  [TrxnNext]_trxnVars
<1>1. p \in Thread /\ adding[p] = 0
  BY StateAssumption DEF Store
<1>2. CASE Discard(p)
  <2>1. UNCHANGED trxnVars \/ \E g, n : DecTrxnGroup(p, g, n)
    BY <1>2 DEF Discard
  <2> QED BY <1>1, <2>1 DEF TrxnNext
<1>3. CASE Insert(p)
  <2>1. UNCHANGED trxnVars \/ \E c : GetTrxnID(c)
    BY <1>3 DEF Insert
  <2> QED BY <2>1 DEF TrxnNext
<1> QED BY <1>2, <1>3 DEF Store

\* A worker gives transactions back when it merges columns and when it updates one.
LEMMA WorkerTrxn ==
  ASSUME NEW w \in Worker, WorkerNext(w)
  PROVE  [TrxnNext]_trxnVars
<1>1. w \in Thread
  BY StateAssumption
<1>2. CASE Merge(w)
  <2>1. adding[w] = 0 /\ (UNCHANGED trxnVars \/ \E g, n : DecTrxnGroup(w, g, n))
    BY <1>2 DEF Merge
  <2> QED BY <1>1, <2>1 DEF TrxnNext
<1>3. CASE Decrease(w)
  <2>1. adding[w] = 0 /\ \E g, n : DecTrxnGroup(w, g, n)
    BY <1>3 DEF Decrease
  <2> QED BY <1>1, <2>1 DEF TrxnNext
<1>4. CASE Pop(w)
  BY <1>4 DEF Pop
<1>5. CASE WakeIdle(w)
  BY <1>5 DEF WakeIdle
<1>6. CASE Put(w)
  BY <1>6 DEF Put
<1>7. CASE Update(w)
  BY <1>7 DEF Update
<1> QED BY <1>2, <1>3, <1>4, <1>5, <1>6, <1>7 DEF WorkerNext

\* Table flushes and the log clean-up thread do not touch the groups.
LEMMA FlushTrxn ==
  ASSUME NEW w \in Worker, FlushNext(w)
  PROVE  UNCHANGED trxnVars
<1>1. ASSUME NEW t \in Table, FlushStart(w, t) PROVE UNCHANGED trxnVars
  BY <1>1 DEF FlushStart
<1>2. CASE FlushBuild(w)
  BY <1>2 DEF FlushBuild
<1>3. CASE FlushWrite(w)
  BY <1>3 DEF FlushWrite, FlushVars
<1>4. CASE FlushDelete(w)
  BY <1>4 DEF FlushDelete, FlushVars
<1>5. CASE FlushUpdate(w)
  BY <1>5 DEF FlushUpdate, FlushVars
<1>6. CASE ReleaseNRS(w)
  BY <1>6 DEF ReleaseNRS, FlushVars
<1>7. CASE ReleaseRef(w)
  BY <1>7 DEF ReleaseRef, FlushVars
<1>8. CASE FlushEnd(w)
  BY <1>8 DEF FlushEnd
<1> QED BY <1>1, <1>2, <1>3, <1>4, <1>5, <1>6, <1>7, <1>8 DEF FlushNext

\* The log clean-up thread does not touch the transaction groups.
LEMMA LogTrxn ==
  ASSUME LogNext
  PROVE  UNCHANGED trxnVars
<1>1. ASSUME NEW w, LogScan(w) PROVE UNCHANGED trxnVars
  BY <1>1 DEF LogScan, LogVars
<1>2. CASE LogRescan
  BY <1>2 DEF LogRescan, LogVars
<1>3. CASE LogMark
  BY <1>3 DEF LogMark, LogVars
<1>4. CASE LogDelete
  BY <1>4 DEF LogDelete, LogVars
<1> QED BY <1>1, <1>2, <1>3, <1>4 DEF LogNext, LogStart

\* Every step of insdb is a step of the transaction groups or leaves them alone.
LEMMA NextTrxn ==
  ASSUME [Next]_vars
  PROVE  [TrxnNext]_trxnVars
<1>1. ASSUME NEW p \in Writer, Store(p) PROVE [TrxnNext]_trxnVars
  BY <1>1, StoreTrxn
<1>2. ASSUME NEW p \in Writer, PutColumnNodeToRequestQueue(p) PROVE [TrxnNext]_trxnVars
  BY <1>2 DEF PutColumnNodeToRequestQueue
<1>3. CASE TakeSnapshot
  BY <1>3 DEF TakeSnapshot
<1>4. ASSUME NEW s, ReleaseSnapshot(s) PROVE [TrxnNext]_trxnVars
  BY <1>4 DEF ReleaseSnapshot
<1>5. ASSUME NEW w \in Worker, WorkerNext(w) PROVE [TrxnNext]_trxnVars
  BY <1>5, WorkerTrxn
<1>6. ASSUME NEW w \in Worker, FlushNext(w) PROVE [TrxnNext]_trxnVars
  BY <1>6, FlushTrxn
<1>7. CASE LogNext
  BY <1>7, LogTrxn
<1>8. ASSUME NEW t \in Thread, Publish(t) PROVE [TrxnNext]_trxnVars
  BY <1>8 DEF Publish, TrxnNext
<1>9. CASE UNCHANGED vars
  BY <1>9 DEF vars
<1> QED BY <1>1, <1>2, <1>3, <1>4, <1>5, <1>6, <1>7, <1>8, <1>9 DEF Next

\* The invariant holds in every reachable state.
LEMMA TrxnInvAlways == Spec => []TrxnInv
<1>1. Init => TrxnInv
  BY TrxnInitInv DEF Init, InitState
<1>2. TrxnInv /\ [Next]_vars => TrxnInv'
  BY NextTrxn, TrxnStep
<1> QED BY <1>1, <1>2, PTL DEF Spec

\* The list of completed ranges that threads extend one after the other, in any order and
\* while other groups are opened and erased, is in order, without gaps that could be
\* closed, and covers exactly the finished groups (Manifest::AddCompletedTrxnGroupRange
\* with GetTrxnID and DecTrxnGroup), for any number of threads, keys and batches.
THEOREM RangesExactAlways == Spec => []RangesExact
<1>1. TrxnInv => RangesExact
  BY DEF TrxnInv
<1> QED BY <1>1, TrxnInvAlways, PTL

-----------------------------------------------------------------------------
\* Group numbers the abstract specification speaks of.
LEMMA InsideGroups ==
  ASSUME NEW g \in Nat, 0 < g, g < LastGroup
  PROVE  g \in 1..(LastGroup - 1) /\ g \in 0..LastGroup
BY TrxnAssumption

\* Opening: the first id of a group.
LEMMA GetTrxnIDRefines ==
  ASSUME TrxnInv, NEW c, GetTrxnID(c)
  PROVE  [TG!Next]_(TG!vars)
<1> DEFINE g == nextTrxn.g
<1>1. /\ DOMAIN uncompleted' = DOMAIN uncompleted \cup {g}
      /\ completed' = completed /\ adding' = adding
  BY DEF GetTrxnID
<1>2. g \in Nat /\ 0 < g /\ g < LastGroup
  BY DEF TrxnInv, TableInv
<1>3. g \in 1..(LastGroup - 1) /\ g \in 0..LastGroup
  BY <1>2, InsideGroups
<1>4. \A t \in Thread : adding[t] # g
  <2>1. \A t \in Thread : adding[t] \in Nat /\ (adding[t] # 0 => adding[t] < g)
    BY DEF TrxnInv, AddingInv
  <2> SUFFICES ASSUME NEW t \in Thread, adding[t] = g PROVE FALSE
    OBVIOUS
  <2> HIDE DEF g
  <2>2. 0 < g /\ g \in Nat /\ (g # 0 => g < g)
    BY <1>2, <2>1
  <2> QED BY <2>2
<1>5. ~IsCompleted(g)
  BY <1>2, <1>3 DEF TrxnInv, RangesExact, Finished
<1>6. \A h : IsCompleted(h)' <=> IsCompleted(h)
  BY <1>1 DEF IsCompleted
<1>7. CASE g \in DOMAIN uncompleted
  <2>1. DOMAIN uncompleted' = DOMAIN uncompleted
    BY <1>1, <1>7
  <2> QED BY <1>1, <1>6, <2>1 DEF TG!vars
<1>8. CASE g \notin DOMAIN uncompleted
  <2>1. TG!Open(g)
    BY <1>1, <1>3, <1>4, <1>5, <1>6, <1>8 DEF TG!Open
  <2> QED BY <1>3, <2>1 DEF TG!Next
<1> QED BY <1>7, <1>8

\* Closing: the last column of a group.
LEMMA DecTrxnGroupRefines ==
  ASSUME TrxnInv, NEW t \in Thread, NEW g, NEW n, adding[t] = 0, DecTrxnGroup(t, g, n)
  PROVE  [TG!Next]_(TG!vars)
<1>1. completed' = completed
  BY DEF DecTrxnGroup, trxnVars
<1>2. \A h : IsCompleted(h)' <=> IsCompleted(h)
  BY <1>1 DEF IsCompleted
<1>3. CASE DOMAIN uncompleted' = DOMAIN uncompleted /\ adding' = adding
  BY <1>2, <1>3 DEF TG!vars
<1>4. CASE g \in DOMAIN uncompleted /\ EraseGroup(t, g)
  <2>1. DOMAIN uncompleted' = DOMAIN uncompleted \ {g} /\ adding' = [adding EXCEPT ![t] = g]
    BY <1>4 DEF EraseGroup
  <2>2. g \in Nat /\ 0 < g /\ g < LastGroup
    BY <1>4, TrxnAssumption DEF TrxnInv, TableInv
  <2>3. adding \in [Thread -> Nat]
    BY DEF TrxnInv, AddingInv
  <2>4. adding'[t] = g /\ \A u \in Thread \ {t} : adding'[u] = adding[u]
    BY <2>1, <2>3
  <2>5. {adding'[u] : u \in Thread} \ {0} = ({adding[u] : u \in Thread} \ {0}) \cup {g}
    BY <2>2, <2>4
  <2>6. TG!Close(g)
    BY <1>2, <1>4, <2>1, <2>5 DEF TG!Close
  <2> QED BY <2>2, <2>6, InsideGroups DEF TG!Next
<1>5. \/ DOMAIN uncompleted' = DOMAIN uncompleted /\ adding' = adding
      \/ g \in DOMAIN uncompleted /\ EraseGroup(t, g)
  BY DEF DecTrxnGroup, trxnVars
<1> QED BY <1>3, <1>4, <1>5

\* Publishing: the group enters the list.
LEMMA AddCompletedRefines ==
  ASSUME TrxnInv, NEW t \in Thread, NEW g, g = adding[t], AddCompletedTrxnGroupRange(t)
  PROVE  [TG!Next]_(TG!vars)
<1>1. adding' = [adding EXCEPT ![t] = 0] /\ uncompleted' = uncompleted /\ g # 0
  BY DEF AddCompletedTrxnGroupRange
<1>2. /\ adding \in [Thread -> Nat] /\ g \in Nat /\ g < nextTrxn.g
      /\ \A u \in Thread : adding[u] = g => u = t
  BY <1>1 DEF TrxnInv, AddingInv
<1>3. 0 < g /\ g < LastGroup
  BY <1>1, <1>2, TrxnAssumption DEF TrxnInv, TableInv
<1>4. \A h \in 1..(LastGroup - 1) : IsCompleted(h)' <=> (IsCompleted(h) \/ h = g)
  BY AddCompletedInv
<1>5. g \in 1..(LastGroup - 1)
  BY <1>2, <1>3, InsideGroups
<1>6. adding'[t] = 0 /\ \A u \in Thread \ {t} : adding'[u] = adding[u] /\ adding[u] # g
  BY <1>1, <1>2
<1>7. g \in {adding[u] : u \in Thread} \ {0}
  BY <1>1
<1>8. {adding'[u] : u \in Thread} \ {0} = ({adding[u] : u \in Thread} \ {0}) \ {g}
  BY <1>6
<1>9. {h \in 1..(LastGroup - 1) : IsCompleted(h)'}
        = {h \in 1..(LastGroup - 1) : IsCompleted(h)} \cup {g}
  BY <1>4, <1>5
<1>10. TG!Publish(g)
  BY <1>1, <1>7, <1>8, <1>9 DEF TG!Publish
<1> QED BY <1>5, <1>10 DEF TG!Next

\* The transaction groups implement TrxnGroups: a group is opened, closed and published
\* once, and never opened again, whatever threads give back its columns and in whatever
\* order they publish (Manifest::GetTrxnID, DecTrxnGroup, AddCompletedTrxnGroupRange).
THEOREM TrxnGroupsRefined == Spec => TrxnGroupsSpec
<1>1. Init => TG!Init
  <2> SUFFICES ASSUME Init PROVE TG!Init
    OBVIOUS
  <2>1. TrxnInit /\ TrxnInv
    BY TrxnInitInv DEF Init, InitState
  <2>2. DOMAIN uncompleted = {} /\ {adding[t] : t \in Thread} \ {0} = {} /\ nextTrxn.g = 1
    BY <2>1 DEF TrxnInit, FirstOf
  <2>3. \A g \in 1..(LastGroup - 1) : ~IsCompleted(g)
    <3> SUFFICES ASSUME NEW g \in 1..(LastGroup - 1) PROVE ~IsCompleted(g)
      OBVIOUS
    <3>1. g \in 0..LastGroup /\ g # 0 /\ g # LastGroup /\ ~(g < 1)
      BY TrxnAssumption
    <3>2. ~Finished(g)
      BY <2>2, <3>1 DEF Finished
    <3> QED BY <2>1, <3>1, <3>2 DEF TrxnInv, RangesExact
  <2> QED BY <2>2, <2>3 DEF TG!Init
<1>2. TrxnInv /\ [Next]_vars => [TG!Next]_(TG!vars)
  <2> SUFFICES ASSUME TrxnInv, [Next]_vars PROVE [TG!Next]_(TG!vars)
    OBVIOUS
  <2>1. [TrxnNext]_trxnVars
    BY NextTrxn
  <2>2. CASE UNCHANGED trxnVars
    <3>1. \A h : IsCompleted(h)' <=> IsCompleted(h)
      BY <2>2 DEF trxnVars, IsCompleted
    <3> QED BY <2>2, <3>1 DEF trxnVars, TG!vars
  <2>3. ASSUME NEW c, GetTrxnID(c) PROVE [TG!Next]_(TG!vars)
    BY <2>3, GetTrxnIDRefines
  <2>4. ASSUME NEW t \in Thread, NEW g, NEW n, adding[t] = 0, DecTrxnGroup(t, g, n)
        PROVE  [TG!Next]_(TG!vars)
    BY <2>4, DecTrxnGroupRefines
  <2>5. ASSUME NEW t \in Thread, AddCompletedTrxnGroupRange(t) PROVE [TG!Next]_(TG!vars)
    BY <2>5, AddCompletedRefines
  <2> QED BY <2>1, <2>2, <2>3, <2>4, <2>5 DEF TrxnNext
<1> QED BY <1>1, <1>2, TrxnInvAlways, PTL DEF Spec, TrxnGroupsSpec, TG!Spec
=============================================================================
