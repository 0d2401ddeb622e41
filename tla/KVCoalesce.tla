----------------------------- MODULE KVCoalesce -----------------------------
(***************************************************************************)
(* What the asynchronous write path promises: a write-back buffer with two *)
(* slots per key.  An accepted write replaces the one that waits; a        *)
(* waiting write starts when no write of the key is under way; the write   *)
(* under way reaches the store.  Every accepted write is applied at most   *)
(* once, in the order of acceptance, unless a newer one took its place.    *)
(***************************************************************************)
EXTENDS Naturals

CONSTANTS
    Key,    \* keys of the store
    Write   \* identities of the writes

None == 0

VARIABLES
    store,    \* the last write applied to each key
    flying,   \* the write under way, of each key
    waiting,  \* the write that waits, of each key
    accepted  \* writes accepted so far

vars == <<store, flying, waiting, accepted>>

Init ==
    /\ store = [k \in Key |-> None]
    /\ flying = [k \in Key |-> None]
    /\ waiting = [k \in Key |-> None]
    /\ accepted = {}

Accept(k, w) ==
    /\ w \notin accepted
    /\ accepted' = accepted \cup {w}
    /\ waiting' = [waiting EXCEPT ![k] = w]
    /\ UNCHANGED <<store, flying>>

Start(k) ==
    /\ waiting[k] # None
    /\ flying[k] = None
    /\ flying' = [flying EXCEPT ![k] = waiting[k]]
    /\ waiting' = [waiting EXCEPT ![k] = None]
    /\ UNCHANGED <<store, accepted>>

Apply(k) ==
    /\ flying[k] # None
    /\ store' = [store EXCEPT ![k] = flying[k]]
    /\ flying' = [flying EXCEPT ![k] = None]
    /\ UNCHANGED <<waiting, accepted>>

Next == \E k \in Key : (\E w \in Write : Accept(k, w)) \/ Start(k) \/ Apply(k)

Spec == Init /\ [][Next]_vars
=============================================================================
