---------------------------- MODULE AbstractList ----------------------------
(***************************************************************************)
(* What list.h promises: a sequence of items with keys, to which items are *)
(* added at either end or before the first larger key, and from which they *)
(* are taken at the front.                                                 *)
(***************************************************************************)
EXTENDS Integers, Sequences

CONSTANTS Item, Key, NULL

VARIABLES
  list,     \* the items on the list, front first, each with its key
  result    \* what the last Remove or SortedRemove returned

Entry(i, k) == [item |-> i, key |-> k]
Nothing     == [item |-> NULL, key |-> 0]

Init == list = <<>> /\ result = Nothing

Append0(i)  == list' = Append(list, Entry(i, 0)) /\ UNCHANGED result
Prepend0(i) == list' = <<Entry(i, 0)>> \o list /\ UNCHANGED result

\* Behind the p entries in front of the first one whose key is larger.
SortedInsert(i, k) ==
  \E p \in 0..Len(list) :
    /\ \A n \in 1..p : list[n].key <= k
    /\ p < Len(list) => k < list[p + 1].key
    /\ list' = SubSeq(list, 1, p) \o <<Entry(i, k)>> \o SubSeq(list, p + 1, Len(list))
    /\ UNCHANGED result

Remove ==
  IF list = <<>>
  THEN result' = Nothing /\ UNCHANGED list
  ELSE result' = Head(list) /\ list' = Tail(list)

Next ==
  \/ \E i \in Item : Append0(i) \/ Prepend0(i) \/ \E k \in Key : SortedInsert(i, k)
  \/ Remove

Spec == Init /\ [][Next]_<<list, result>>
=============================================================================
