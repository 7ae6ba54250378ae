----------------------------- MODULE LinkedList -----------------------------
(***************************************************************************)
(* List of list.cc: a singly linked list of ListElements on the heap, with *)
(* pointers to its first and its last element.  Its users keep others out  *)
(* (the scheduler and the semaphores with interrupts off, SynchList with a *)
(* lock), so each operation is one action, except the two loops: the walk  *)
(* of SortedInsert and the destructor take one action per iteration.       *)
(***************************************************************************)
EXTENDS Integers, Sequences, FiniteSets

CONSTANTS
  Element,  \* addresses of ListElements
  Item,     \* pointers to items; the null pointer may be one of them
  Key,      \* priorities
  NULL

ASSUME LinkedListAssumption == NULL \notin Element /\ Key \subseteq Int

VARIABLES
  first, last,  \* List::first and List::last
  heap,         \* the ListElements allocated and not yet deleted
  phase,        \* what the code is in: an idle list, a loop, or after ~List
  ptr, element, \* the locals of SortedInsert during its loop
  result,       \* what the last Remove or SortedRemove returned
  sortedOnly    \* history: no Append or Prepend was made

vars == <<first, last, heap, phase, ptr, element, result, sortedOnly>>

ListElement == [item : Item, key : Key \cup {0}, next : Element \cup {NULL}]

TypeOK ==
  /\ first \in Element \cup {NULL} /\ last \in Element \cup {NULL}
  /\ DOMAIN heap \subseteq Element /\ heap \in [DOMAIN heap -> ListElement]
  /\ phase \in {"idle", "walk", "destroy", "gone"}
  /\ ptr \in Element \cup {NULL} /\ element \in Element \cup {NULL}
  /\ result \in [item : Item \cup {NULL}, key : Key \cup {0}]
  /\ sortedOnly \in BOOLEAN

Init ==
  /\ first = NULL /\ last = NULL
  /\ heap = [e \in {} |-> NULL]
  /\ phase = "idle"
  /\ ptr = NULL /\ element = NULL
  /\ result = [item |-> NULL, key |-> 0]
  /\ sortedOnly = TRUE

-----------------------------------------------------------------------------
IsEmpty == first = NULL

\* The heap with a new ListElement(i, k) at the free address e.
New(e, i, k) ==
  [x \in DOMAIN heap \cup {e} |->
     IF x = e THEN [item |-> i, key |-> k, next |-> NULL] ELSE heap[x]]

Link(h, x, y) == [h EXCEPT ![x].next = y]   \* x->next = y

OnlyElement(e) == first' = e /\ last' = e
AtEnd(h, e)    == heap' = Link(h, last, e) /\ last' = e /\ UNCHANGED first
InFront(h, e)  == heap' = Link(h, e, first) /\ first' = e /\ UNCHANGED last

Unsorted == sortedOnly' = FALSE /\ UNCHANGED <<phase, ptr, element, result>>

AppendItem(e, i) ==
  /\ phase = "idle" /\ e \notin DOMAIN heap
  /\ IF IsEmpty THEN heap' = New(e, i, 0) /\ OnlyElement(e)
                ELSE AtEnd(New(e, i, 0), e)
  /\ Unsorted

Prepend(e, i) ==
  /\ phase = "idle" /\ e \notin DOMAIN heap
  /\ IF IsEmpty THEN heap' = New(e, i, 0) /\ OnlyElement(e)
                ELSE InFront(New(e, i, 0), e)
  /\ Unsorted

\* Mutant of SortedInsert: the key of the first element is not looked at.
SortedInsertBehindFirst(e, i, k) ==
  /\ phase = "idle" /\ e \notin DOMAIN heap
  /\ \/ /\ IsEmpty
        /\ heap' = New(e, i, k) /\ OnlyElement(e)
        /\ UNCHANGED <<phase, ptr, element>>
     \/ /\ ~IsEmpty
        /\ heap' = New(e, i, k)
        /\ phase' = "walk" /\ ptr' = first /\ element' = e
        /\ UNCHANGED <<first, last>>
  /\ UNCHANGED <<result, sortedOnly>>

\* SortedInsert up to its loop, which it enters with ptr = first.
SortedInsert(e, i, k) ==
  /\ phase = "idle" /\ e \notin DOMAIN heap
  /\ \/ /\ IsEmpty
        /\ heap' = New(e, i, k) /\ OnlyElement(e)
        /\ UNCHANGED <<phase, ptr, element>>
     \/ /\ ~IsEmpty /\ k < heap[first].key
        /\ InFront(New(e, i, k), e)
        /\ UNCHANGED <<phase, ptr, element>>
     \/ /\ ~IsEmpty /\ k >= heap[first].key
        /\ heap' = New(e, i, k)
        /\ phase' = "walk" /\ ptr' = first /\ element' = e
        /\ UNCHANGED <<first, last>>
  /\ UNCHANGED <<result, sortedOnly>>

\* Mutant of GoesBefore: in front of an equal key, not behind it.
GoesBeforeEqual(x) == heap[element].key <= heap[x].key

\* sortKey < ptr->next->key
GoesBefore(x) == heap[element].key < heap[x].key

\* One iteration of the loop of SortedInsert, or what follows the loop.
Walk ==
  LET next == heap[ptr].next
  IN  /\ phase = "walk"
      /\ \/ /\ next # NULL /\ ~GoesBefore(next)
            /\ ptr' = next
            /\ UNCHANGED <<first, last, heap, phase, element>>
         \/ /\ next # NULL /\ GoesBefore(next)
            /\ heap' = Link(Link(heap, element, next), ptr, element)
            /\ phase' = "idle" /\ ptr' = NULL /\ element' = NULL
            /\ UNCHANGED <<first, last>>
         \/ /\ next = NULL
            /\ AtEnd(heap, element)
            /\ phase' = "idle" /\ ptr' = NULL /\ element' = NULL
      /\ UNCHANGED <<result, sortedOnly>>

\* Mutant of TakeFirst: removing the only element leaves last as it was.
TakeFirstKeepingLast ==
  IF IsEmpty
  THEN result' = [item |-> NULL, key |-> 0] /\ UNCHANGED <<first, last, heap>>
  ELSE /\ result' = [item |-> heap[first].item, key |-> heap[first].key]
       /\ first' = heap[first].next
       /\ heap' = [x \in DOMAIN heap \ {first} |-> heap[x]]
       /\ UNCHANGED last

\* The body of SortedRemove; without a keyPtr the key is not reported, which
\* makes no difference to the list.
TakeFirst ==
  IF IsEmpty
  THEN result' = [item |-> NULL, key |-> 0] /\ UNCHANGED <<first, last, heap>>
  ELSE /\ result' = [item |-> heap[first].item, key |-> heap[first].key]
       /\ IF first = last THEN first' = NULL /\ last' = NULL
                          ELSE first' = heap[first].next /\ UNCHANGED last
       /\ heap' = [x \in DOMAIN heap \ {first} |-> heap[x]]

Remove ==
  /\ phase = "idle"
  /\ TakeFirst
  /\ UNCHANGED <<phase, ptr, element, sortedOnly>>

\* Mutant of Destroy: the loop runs while more than one element is left.
DestroyAllButOne ==
  /\ phase \in {"idle", "destroy"}
  /\ IF first = last THEN UNCHANGED <<first, last, heap, result>> ELSE TakeFirst
  /\ phase' = IF first = last THEN "gone" ELSE "destroy"
  /\ UNCHANGED <<ptr, element, sortedOnly>>

\* ~List calls Remove until it returns NULL.
Destroy ==
  /\ phase \in {"idle", "destroy"}
  /\ TakeFirst
  /\ phase' = IF result'.item = NULL THEN "gone" ELSE "destroy"
  /\ UNCHANGED <<ptr, element, sortedOnly>>

Gone == phase = "gone" /\ UNCHANGED vars

Next ==
  \/ \E e \in Element, i \in Item :
       AppendItem(e, i) \/ Prepend(e, i) \/ \E k \in Key : SortedInsert(e, i, k)
  \/ Walk \/ Remove \/ Destroy \/ Gone

Spec == Init /\ [][Next]_vars

-----------------------------------------------------------------------------
(* Properties. *)

\* What the pointers lead to from first, n steps on.
Path[n \in Nat] ==
  IF n = 0 THEN first
  ELSE IF Path[n - 1] \in DOMAIN heap THEN heap[Path[n - 1]].next ELSE NULL

\* The elements in list order; one more than there are shows a cycle.
Nodes ==
  LET length == Cardinality({n \in 0..Cardinality(DOMAIN heap) : Path[n] # NULL})
  IN  [n \in 1..length |-> Path[n - 1]]

\* The elements on the list: SortedInsert has yet to link its own.
Linked == DOMAIN heap \ (IF phase = "walk" THEN {element} ELSE {})

\* The pointers form one list: no cycle, no dangling pointer, no element lost
\* by an insertion or a removal, and last is where the next Append belongs.
WellLinked ==
  /\ \A m, n \in 1..Len(Nodes) : Nodes[m] = Nodes[n] => m = n
  /\ {Nodes[n] : n \in 1..Len(Nodes)} = Linked
  /\ last = IF Nodes = <<>> THEN NULL ELSE Nodes[Len(Nodes)]

\* "By using the Sorted functions, the list can be kept in sorted in increasing
\* order by key": any sequence of them keeps it sorted, also during the walk.
StaysSorted ==
  sortedOnly =>
    \A n \in 1..(Len(Nodes) - 1) : heap[Nodes[n]].key <= heap[Nodes[n + 1]].key

Entries == [n \in 1..Len(Nodes) |-> [item |-> heap[Nodes[n]].item,
                                     key |-> heap[Nodes[n]].key]]

\* The linked list implements the sequence of list.h, results included; among
\* equal keys it is first come, first served.
Abs == INSTANCE AbstractList WITH list <- Entries
Implements == Abs!Spec

\* The elements behind the first null item.
Behind ==
  {Nodes[n] : n \in {n \in 1..Len(Nodes) :
                       \E m \in 1..(n - 1) : heap[Nodes[m]].item = NULL}}

\* list.cc:50-51 has the destructor de-allocate every ListElement, but a null item
\* looks like the end of the list to it: it frees all elements up to and including
\* the first null item, and none of those behind that, which it leaks.
DestroyFrees ==
  [][/\ phase' = "destroy" => Behind' = Behind
     /\ phase' = "gone" => DOMAIN heap' = Behind]_vars
=============================================================================
