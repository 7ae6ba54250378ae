------------------------- MODULE AbstractSynchList -------------------------
(***************************************************************************)
(* A synchronized list as its callers see it, with the Condition stubs:    *)
(* one queue on which each routine takes effect at once, at some moment    *)
(* between its call and its return; a Remove that finds it empty, or a     *)
(* null pointer in front, ends the process.  No locks, no scheduling.      *)
(***************************************************************************)
EXTENDS Sequences

CONSTANTS Thread, Item, NULL

VARIABLES
  list,     \* the items, front first
  op,       \* the routine each thread is in, or "none"
  item,     \* what it appends
  result,   \* the last routine to return and what it handed out
  state     \* "alive", "deleted" or "aborted"

absVars == <<list, op, item, result, state>>

Init ==
  /\ list = <<>> /\ result = [of |-> "none", items |-> <<>>]
  /\ op = [t \in Thread |-> "none"]
  /\ item = [t \in Thread |-> NULL]
  /\ state = "alive"

Call(t, o, i) ==
  /\ state = "alive" /\ op[t] = "none"
  /\ op' = [op EXCEPT ![t] = o]
  /\ item' = [item EXCEPT ![t] = i]
  /\ UNCHANGED <<list, result, state>>

\* Thread t leaves routine o with the items r, and the list becomes new.
Return(t, o, new, r) ==
  /\ state = "alive" /\ op[t] = o
  /\ op' = [op EXCEPT ![t] = "none"]
  /\ item' = [item EXCEPT ![t] = NULL]
  /\ list' = new /\ result' = [of |-> o, items |-> r]
  /\ UNCHANGED state

RemoveAborts(t) ==
  /\ state = "alive" /\ op[t] = "Remove"
  /\ \/ list = <<>> /\ UNCHANGED list
     \/ list # <<>> /\ Head(list) = NULL /\ list' = Tail(list)
  /\ state' = "aborted"
  /\ UNCHANGED <<op, item, result>>

Delete ==
  /\ state = "alive" /\ \A t \in Thread : op[t] = "none"
  /\ state' \in {"deleted", "aborted"}
  /\ list' = <<>>
  /\ UNCHANGED <<op, item, result>>

Complete ==
  \E t \in Thread :
    \/ Return(t, "Append", Append(list, item[t]), <<>>)
    \/ /\ list # <<>> /\ Head(list) # NULL
       /\ Return(t, "Remove", Tail(list), <<Head(list)>>)
    \/ Return(t, "Mapcar", list, list)

Next ==
  \/ \E t \in Thread :
       \/ \E i \in Item \cup {NULL} : Call(t, "Append", i)
       \/ \E o \in {"Remove", "Mapcar"} : Call(t, o, NULL)
       \/ RemoveAborts(t)
  \/ Complete \/ Delete

\* Some routine gets on while any thread is in one.
Spec ==
  /\ Init /\ [][Next]_absVars
  /\ WF_absVars(Complete \/ \E t \in Thread : RemoveAborts(t))
=============================================================================
