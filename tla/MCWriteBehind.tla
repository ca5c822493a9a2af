--------------------------- MODULE MCWriteBehind ---------------------------
(***************************************************************************)
(* Instances of WriteBehind for TLC.  What goes wrong here goes wrong      *)
(* between requests for one entry; the proofs are for any set of entries.  *)
(***************************************************************************)
EXTENDS WriteBehind, TLC

\* Every query accepts its own entry and nothing else.
MCScore == [i \in Ids |-> [j \in Ids |-> IF i = j THEN 1 ELSE 0]]

Symmetry == Permutations(Conns) \cup Permutations(Workers)
=============================================================================
