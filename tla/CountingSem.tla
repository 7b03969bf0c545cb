---------------------------- MODULE CountingSem -----------------------------
(* What uthread_sem.h promises: a count that a signal raises and that a wait lowers
   once it is positive, and nobody gets past a wait for free. *)
EXTENDS Naturals

CONSTANTS Threads, Initial

VARIABLES
  count,    \* the value of the semaphore
  waiting,  \* the threads inside uthread_sem_wait
  passed    \* the threads that got past it and owe a signal

vars == <<count, waiting, passed>>

Init == count = Initial /\ waiting = {} /\ passed = {}

Call(t) == t \notin waiting /\ waiting' = waiting \cup {t} /\ UNCHANGED <<count, passed>>

(* Past the wait, at once or after waiting: only for one of the count. *)
Pass(t) ==
  /\ t \notin passed /\ passed' = passed \cup {t}
  /\ count > 0 /\ count' = count - 1
  /\ waiting' = waiting \ {t}

(* A signal by a thread that passed, or by one that never waits. *)
GiveBack(t) == t \in passed /\ passed' = passed \ {t} /\ count' = count + 1 /\ UNCHANGED waiting
Signal == count' = count + 1 /\ UNCHANGED <<waiting, passed>>

Next == Signal \/ \E t \in Threads : Call(t) \/ Pass(t) \/ GiveBack(t)

Spec == Init /\ [][Next]_vars
=============================================================================
