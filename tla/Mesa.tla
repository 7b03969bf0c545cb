-------------------------------- MODULE Mesa --------------------------------
(***************************************************************************)
(* What uthread_mutex_cond.h promises of a mutex and its condition          *)
(* variables, with no queue of the mutex, no blocking and no waking: one    *)
(* exclusive holder or any number of readers; a wait gives the mutex up and *)
(* ends only by a signal (which wakes at most one thread, the longest       *)
(* waiting) or a broadcast (which wakes all); a woken thread competes for   *)
(* the mutex again.                                                         *)
(***************************************************************************)
EXTENDS Naturals, Sequences, Functions

CONSTANTS Threads, Conds

VARIABLES
  role,     \* what a thread is to the mutex
  waiting   \* the threads that wait on a condition variable, longest first

vars == <<role, waiting>>

Roles == {"out", "want", "wantRead", "write", "read", "wait"}

TypeOK == role \in [Threads -> Roles] /\ waiting \in [Conds -> Seq(Threads)]

Init == role = [t \in Threads |-> "out"] /\ waiting = [c \in Conds |-> <<>>]

Become(t, r) == role' = [role EXCEPT ![t] = r]
Others(t) == { role[u] : u \in Threads \ {t} }

Request(t) == /\ role[t] = "out" /\ \E r \in {"want", "wantRead"} : Become(t, r)
              /\ UNCHANGED waiting

Acquire(t) == /\ \/ role[t] = "want" /\ Others(t) \cap {"write", "read"} = {} /\ Become(t, "write")
                 \/ role[t] = "wantRead" /\ "write" \notin Others(t) /\ Become(t, "read")
              /\ UNCHANGED waiting

Release(t) == /\ role[t] \in {"write", "read"} /\ Become(t, "out")
              /\ UNCHANGED waiting

Wait(t, c) == /\ role[t] = "write" /\ Become(t, "wait")
              /\ waiting' = [waiting EXCEPT ![c] = Append(@, t)]

Signal(t, c) == /\ role[t] = "write" /\ waiting[c] # <<>>
                /\ Become(Head(waiting[c]), "want")
                /\ waiting' = [waiting EXCEPT ![c] = Tail(@)]

Broadcast(t, c) == /\ role[t] = "write" /\ waiting[c] # <<>>
                   /\ role' = [u \in Threads |-> IF u \in Range(waiting[c]) THEN "want" ELSE role[u]]
                   /\ waiting' = [waiting EXCEPT ![c] = <<>>]

Next == \E t \in Threads : \/ Request(t) \/ Acquire(t) \/ Release(t)
                           \/ \E c \in Conds : Wait(t, c) \/ Signal(t, c) \/ Broadcast(t, c)

Spec == Init /\ [][Next]_vars
=============================================================================
