---------------------------- MODULE MCMemoryJobs ----------------------------
(* Instances of MemoryJobs for TLC. *)
EXTENDS MemoryJobs, TLC

Symmetry == Permutations(Workers) \union Permutations(Threads)

\* Bound: two threads that have memories, or one that is updated or whose memories are
\* reset.
TwoChanges ==
    Cardinality({t \in Threads : mode[t] # "disabled"})
    + Cardinality({t \in Threads : version[t] > 1}) + resets <= 2
=============================================================================
