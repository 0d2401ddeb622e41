----------------------------- MODULE TrxnGroups -----------------------------
(***************************************************************************)
(* What the transaction groups of insdb promise: a group is opened once,   *)
(* closes when its last user leaves it, is then published, and stays       *)
(* published; it is never opened again.                                    *)
(***************************************************************************)
EXTENDS Naturals

CONSTANT Group  \* groups that can be opened

VARIABLES
    open,       \* groups with outstanding columns
    closed,     \* groups without one, not yet published
    published   \* groups the log may rely on

vars == <<open, closed, published>>

Init == open = {} /\ closed = {} /\ published = {}

Open(g) ==
    /\ g \notin open \cup closed \cup published
    /\ open' = open \cup {g}
    /\ UNCHANGED <<closed, published>>

Close(g) ==
    /\ g \in open
    /\ open' = open \ {g}
    /\ closed' = closed \cup {g}
    /\ UNCHANGED published

Publish(g) ==
    /\ g \in closed
    /\ closed' = closed \ {g}
    /\ published' = published \cup {g}
    /\ UNCHANGED open

Next == \E g \in Group : Open(g) \/ Close(g) \/ Publish(g)

Spec == Init /\ [][Next]_vars
=============================================================================
