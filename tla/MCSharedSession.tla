------------------------- MODULE MCSharedSession -------------------------
(***************************************************************************)
(* Instances of SharedSession for TLC.  Devices are interchangeable, and   *)
(* so are edits; a fresh thread is chosen deterministically already.       *)
(***************************************************************************)
EXTENDS SharedSession, TLC

Symmetry == Permutations(Devices) \union Permutations(Edits)
==========================================================================
