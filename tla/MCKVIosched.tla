----------------------------- MODULE MCKVIosched -----------------------------
(* Instances of KVIosched for TLC. *)
EXTENDS KVIosched, TLC

ThreadSymmetry == Permutations(Thread)
\* Next treats all keys alike; requests not in use have one and the same key.
ThreadKeySymmetry == Permutations(Thread) \cup Permutations(Key)
=============================================================================
