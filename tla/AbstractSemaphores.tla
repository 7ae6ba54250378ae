------------------------- MODULE AbstractSemaphores -------------------------
(***************************************************************************)
(* What synch.h promises of semaphores: P waits until the value is         *)
(* positive and takes one from it, V adds one, both atomically; and a      *)
(* positive value does not wait for ever for a thread in P to take it.     *)
(* Nothing is promised about which thread takes it: a thread that has just *)
(* called P may be served before one that has waited for long.             *)
(***************************************************************************)
EXTENDS Naturals

CONSTANTS Thread, Semaphore, NULL, MaxValue

VARIABLES
  value,    \* value of each semaphore
  waitsOn   \* the semaphore each thread waits on in P, or NULL

absVars == <<value, waitsOn>>

Init ==
  /\ value \in [Semaphore -> 0..MaxValue]
  /\ waitsOn = [t \in Thread |-> NULL]

\* t finds a positive value on entering P.
Down(t, s) ==
  /\ waitsOn[t] = NULL /\ value[s] > 0
  /\ value' = [value EXCEPT ![s] = @ - 1]
  /\ UNCHANGED waitsOn

Wait(t, s) ==
  /\ waitsOn[t] = NULL /\ value[s] = 0
  /\ waitsOn' = [waitsOn EXCEPT ![t] = s]
  /\ UNCHANGED value

\* A waiting thread gets its unit and leaves P.
Grant(t, s) ==
  /\ waitsOn[t] = s /\ value[s] > 0
  /\ value' = [value EXCEPT ![s] = @ - 1]
  /\ waitsOn' = [waitsOn EXCEPT ![t] = NULL]

Up(s) ==
  /\ value[s] < MaxValue
  /\ value' = [value EXCEPT ![s] = @ + 1]
  /\ UNCHANGED waitsOn

Next ==
  \E s \in Semaphore :
    \/ Up(s)
    \/ \E t \in Thread : Down(t, s) \/ Wait(t, s) \/ Grant(t, s)

Spec ==
  /\ Init /\ [][Next]_absVars
  /\ \A s \in Semaphore : WF_absVars(\E t \in Thread : Grant(t, s))
=============================================================================
