------------------------------ MODULE MCTrack ------------------------------
(***************************************************************************)
(* A small instance of Track: a node with a partition of two substates,    *)
(* and a node with a transient field.  The transaction may create either   *)
(* node, and force-write either of the two substates.                      *)
(***************************************************************************)
EXTENDS Track, TLC

CONSTANTS entry1, entry2, field, vault, component, index, fields

MCPartitionOf == [s \in Substates |-> IF s = field THEN fields ELSE index]

MCNodeOf == [s \in Substates |-> IF s = field THEN vault ELSE component]

MCRank == [s \in Substates |-> CASE s = entry1 -> 1 [] s = entry2 -> 2 [] s = field -> 3]

ValueSymmetry == Permutations(Values)
=============================================================================
