------------------------------- MODULE MCRBTDB -------------------------------
(* RBTDB instantiated for TLC. *)
EXTENDS RBTDB

Symmetry == Permutations(Readers) \cup Permutations(Nodes)

\* Three updates of one node, two updates that change a node twice, and two
\* updates of two nodes
SmallWorlds == {[serials |-> 4, changes |-> 1, nodes |-> 1],
                [serials |-> 3, changes |-> 2, nodes |-> 1],
                [serials |-> 3, changes |-> 1, nodes |-> 2]}
=============================================================================
