----------------------------- MODULE Semaphore ------------------------------
(***************************************************************************)
(* a10/uthreads/uthread_sem.c.  A section under sem->spinlock is one step;  *)
(* uthread_block is the step to "asleep", uthread_unblock puts a thread     *)
(* into `woken`, and Resume is the return from uthread_block (the spinlock  *)
(* taken and dropped after it changes nothing).  Some threads use the       *)
(* semaphore as a lock (wait, then signal), others only signal.             *)
(***************************************************************************)
EXTENDS Integers, Sequences, FiniteSets, Functions

CONSTANTS
  Threads,
  Producers,  \* the threads that signal without having waited
  Initial,    \* the argument of uthread_sem_create
  MaxValue    \* bound: producers signal only below this value

ASSUME ThreadsAssumption == IsFiniteSet(Threads) /\ Producers \subseteq Threads
ASSUME InitialAssumption == Initial \in Nat /\ MaxValue \in Nat

VARIABLES
  value,         \* sem->value
  waiter_queue,  \* sem->waiter_queue
  woken,         \* threads unblocked whose uthread_block has not returned
  at             \* out, asleep in uthread_sem_wait, or in (past it)

vars == <<value, waiter_queue, woken, at>>

(* uthread_sem_create *)
Init ==
  /\ value = Initial
  /\ waiter_queue = <<>>
  /\ woken = {}
  /\ at = [t \in Threads |-> "out"]

Goto(t, l) == at' = [at EXCEPT ![t] = l]
EnqueueUnset(q, t) == Append(q, "unset")
Enqueue(q, t) == IF t \in Range(q) THEN q ELSE Append(q, t)

SleepsAtMinusOne == value - 1 < -1
SleepsAtZero == value - 1 <= 0
MustSleep == value - 1 < 0

Wait(t) ==
  /\ t \notin Producers /\ at[t] = "out"
  /\ value' = value - 1
  /\ IF MustSleep THEN waiter_queue' = Enqueue(waiter_queue, t) /\ Goto(t, "asleep")
                  ELSE UNCHANGED waiter_queue /\ Goto(t, "in")
  /\ UNCHANGED woken

Resume(t) ==
  /\ at[t] = "asleep" /\ t \in woken
  /\ woken' = woken \ {t}
  /\ Goto(t, "in")
  /\ UNCHANGED <<value, waiter_queue>>

KeepHead == waiter_queue
LeaveHead == Tail(waiter_queue)

(* Increment, and wake the longest waiting thread if there is one. *)
SemSignal ==
  /\ value' = value + 1
  /\ IF waiter_queue # <<>>
       THEN waiter_queue' = LeaveHead /\ woken' = woken \cup {Head(waiter_queue)}
       ELSE UNCHANGED <<waiter_queue, woken>>

Leave(t) == at[t] = "in" /\ SemSignal /\ Goto(t, "out")

Produce(t) == t \in Producers /\ value < MaxValue /\ SemSignal /\ UNCHANGED at

Next == \E t \in Threads : Wait(t) \/ Resume(t) \/ Leave(t) \/ Produce(t)

(* A woken thread runs again (UThreads!ReadyRuns), and a thread that got past the
   semaphore signals it in the end; nobody has to wait or to produce. *)
Fairness == \A t \in Threads : WF_vars(Resume(t) \/ Leave(t))

Spec == Init /\ [][Next]_vars /\ Fairness

(***************************************************************************)
(* Properties.                                                              *)
(***************************************************************************)
TypeOK ==
  /\ value \in Int
  /\ waiter_queue \in Seq(Threads)
  /\ woken \subseteq Threads
  /\ at \in [Threads -> {"out", "asleep", "in"}]

(* A negative value counts the sleepers nobody has signalled: that is what lets a
   signal wake one exactly when it is needed, with no test of the value. *)
ValueCountsWaiters == Len(waiter_queue) = IF value < 0 THEN -value ELSE 0

(* Sleepers are queued or woken, never both and never neither, and nobody else is:
   the uthread_block, which is not repeated after a wakeup, ends only by a signal. *)
SleeperInPlace == \A t \in Threads :
  IF at[t] = "asleep" THEN (t \in Range(waiter_queue)) # (t \in woken)
                      ELSE t \notin Range(waiter_queue) \cup woken

(* Nobody starves: a queued thread gets its turn, although others keep coming and the
   semaphore may never be positive again. *)
WaiterServed == Initial > 0 => \A t \in Threads : (at[t] = "asleep") ~> (at[t] = "in")

(* Its clients see a counting semaphore; a signal already given to a sleeper that has
   not run yet still counts. *)
Abstract == INSTANCE CountingSem WITH
  count <- (IF value > 0 THEN value ELSE 0) + Cardinality(woken),
  waiting <- { t \in Threads : at[t] = "asleep" },
  passed <- { t \in Threads : at[t] = "in" }

ImplementsCountingSem == Abstract!Spec
=============================================================================
