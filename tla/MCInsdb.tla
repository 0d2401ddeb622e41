------------------------------ MODULE MCInsdb ------------------------------
(***************************************************************************)
(* Small instances of Insdb: two writers, one or two workers, three keys   *)
(* in two tables, and short workloads for the writers.                     *)
(***************************************************************************)
EXTENDS Insdb

MCWriter == {11, 12}
MCWorker == {1, 2}
OneWorker == {1}
OneThread == MCWriter \cup OneWorker
MCThread == MCWriter \cup MCWorker
MCKey == {1, 2, 3}
MCTable == {1, 2}
MCTableOf == [k \in MCKey |-> IF k = 2 THEN 2 ELSE 1]

P(k) == [key |-> k, del |-> FALSE]
D(k) == [key |-> k, del |-> TRUE]
\* Keys already stored, batches of the two writers, snapshots, rounds of the log thread.
Load(old, a, b, s, r) ==
    [stored |-> old, batches |-> [p \in MCWriter |-> IF p = 11 THEN a ELSE b],
     snaps |-> s, rounds |-> r]

\* Two workers: their blocks share columns of both tables, and versions of one key are
\* submitted out of order.
Concurrent ==
    {Load({}, << <<P(1), P(2)>> >>, <<>>, 0, 2),
     Load({}, << <<D(1), D(2)>> >>, <<>>, 0, 2),
     Load({1, 2}, << <<D(1)>>, <<P(2)>> >>, <<>>, 0, 2),
     Load({1}, << <<P(1)>>, <<D(1)>> >>, <<>>, 0, 2),
     Load({}, << <<P(1)>>, <<P(1)>> >>, <<>>, 1, 0),
     Load({}, << <<P(1), P(1)>>, <<P(1), P(1)>> >>, <<>>, 0, 0),
     Load({}, << <<P(1), P(2)>>, <<P(1)>> >>, <<>>, 0, 0),
     Load({1, 2}, << <<P(1)>>, <<D(1)>> >>, << <<D(2)>> >>, 0, 0)}

\* One worker: snapshots, failing deletes, transactions of one group, slow-down, and two
\* keys of one table, of which the flush evicts none, the first or both.
Histories ==
    {Load({1}, << <<D(1)>>, <<P(1)>> >>, <<>>, 1, 2),
     Load({1}, << <<D(1), D(1), P(1)>> >>, <<>>, 1, 2),
     Load({}, << <<P(1), P(1)>> >>, << <<P(1), P(1)>> >>, 0, 0),
     Load({}, << <<P(1), P(1)>> >>, << <<D(1)>>, <<P(1)>> >>, 1, 0),
     Load({1, 2}, << <<P(1)>>, <<P(2)>> >>, << <<P(1)>>, <<D(1)>> >>, 0, 0),
     Load({}, << <<P(1), P(1)>>, <<P(1), P(1)>> >>, <<>>, 0, 2),
     Load({2}, << <<P(1), P(1)>> >>, << <<P(1)>> >>, 1, 0),
     Load({1}, << <<P(1)>> >>, << <<D(1)>> >>, 2, 1),
     Load({}, << <<P(1)>>, <<P(1)>> >>, << <<P(3)>> >>, 0, 0),
     Load({1}, << <<D(1)>>, <<P(1)>> >>, << <<P(3)>> >>, 0, 0)}

\* A put and its delete.
DeleteOnce == {Load({}, << <<P(1)>>, <<D(1)>> >>, <<>>, 0, 0)}

\* A stored key is deleted and put again; a key is put twice; it is put, deleted, put.
DeletePut == {Load({1}, << <<D(1)>>, <<P(1)>> >>, <<>>, 1, 0)}
PutPut == {Load({}, << <<P(1)>>, <<P(1)>> >>, <<>>, 1, 0)}
PutDeletePut == {Load({}, << <<P(1)>>, <<D(1)>>, <<P(1)>> >>, <<>>, 1, 0)}
=============================================================================
