--------------------------- MODULE AbstractLocks ---------------------------
(***************************************************************************)
(* What synch.h promises of locks: a lock is FREE or BUSY with one owner;  *)
(* Acquire waits until it is FREE, Release makes it FREE, both atomically; *)
(* and a lock does not stay FREE for ever while threads wait for it.       *)
(***************************************************************************)
CONSTANTS Thread, Lock, NULL

VARIABLES
  owner,    \* the thread that acquired each lock, NULL when it is FREE
  waitsOn   \* the lock each thread waits for in Acquire, or NULL

absVars == <<owner, waitsOn>>

Init ==
  /\ owner = [l \in Lock |-> NULL]
  /\ waitsOn = [t \in Thread |-> NULL]

Take(t, l) ==
  /\ waitsOn[t] = NULL /\ owner[l] = NULL
  /\ owner' = [owner EXCEPT ![l] = t]
  /\ UNCHANGED waitsOn

Wait(t, l) ==
  /\ waitsOn[t] = NULL /\ owner[l] # NULL
  /\ waitsOn' = [waitsOn EXCEPT ![t] = l]
  /\ UNCHANGED owner

\* A waiting thread gets the lock and leaves Acquire.
Grant(t, l) ==
  /\ waitsOn[t] = l /\ owner[l] = NULL
  /\ owner' = [owner EXCEPT ![l] = t]
  /\ waitsOn' = [waitsOn EXCEPT ![t] = NULL]

\* By convention only the thread that acquired the lock releases it, and it
\* does so when it is not waiting for another one.
Release(t, l) ==
  /\ owner[l] = t /\ waitsOn[t] = NULL
  /\ owner' = [owner EXCEPT ![l] = NULL]
  /\ UNCHANGED waitsOn

Next ==
  \E l \in Lock, t \in Thread :
    Take(t, l) \/ Wait(t, l) \/ Grant(t, l) \/ Release(t, l)

Spec ==
  /\ Init /\ [][Next]_absVars
  /\ \A l \in Lock : WF_absVars(\E t \in Thread : Grant(t, l))
=============================================================================
