---------------------------- MODULE MCLinkedList ----------------------------
(* Small instances of LinkedList: the allocator may return any free address, *)
(* so that addresses can be exchanged.                                       *)
EXTENDS LinkedList, TLC

Symmetry == Permutations(Element)
=============================================================================
