------------------------------ MODULE Monitor -------------------------------
(***************************************************************************)
(* a10/uthreads/uthread_mutex_cond.c: one mutex (exclusive and read-only    *)
(* locks) and its condition variables, on top of uthread_block/unblock.     *)
(*                                                                          *)
(* A section under mutex->spinlock is one step.  uthread_block is the step  *)
(* into a *_sleep place; uthread_unblock puts a thread into `woken` (on the *)
(* ready queue, once, whether it has blocked yet or not) and Resume is its  *)
(* return from uthread_block.  The calls a program makes are arbitrary, in  *)
(* the order the header asks for.                                           *)
(***************************************************************************)
EXTENDS Naturals, Sequences, FiniteSets, Functions

CONSTANTS Threads, Conds, NoThread

ASSUME ThreadsAssumption == IsFiniteSet(Threads) /\ NoThread \notin Threads

VARIABLES
  holder,               \* mutex->holder
  reader_count,         \* mutex->reader_count
  waiter_queue,         \* mutex->waiter_queue
  reader_waiter_queue,  \* mutex->reader_waiter_queue
  cond_queue,           \* cond->waiter_queue of each condition variable
  woken,                \* threads with a uthread_unblock that no uthread_block has used up
  at                    \* where a thread is in the code of this file

queues == <<waiter_queue, reader_waiter_queue, cond_queue>>
vars == <<holder, reader_count, queues, woken, at>>

Places == {"out", "lock", "lock_sleep", "rlock", "rlock_sleep", "writing", "reading",
           "wait_unlock", "wait_sleep"}

(* uthread_mutex_create, uthread_cond_create *)
Init ==
  /\ holder = NoThread
  /\ reader_count = 0
  /\ waiter_queue = <<>>
  /\ reader_waiter_queue = <<>>
  /\ cond_queue = [c \in Conds |-> <<>>]
  /\ woken = {}
  /\ at = [t \in Threads |-> "out"]

Goto(t, l) == at' = [at EXCEPT ![t] = l]

(* uthread_enqueue: a thread that is on the queue stays where it is. *)
Enqueue(q, t) == IF t \in Range(q) THEN q ELSE Append(q, t)

Call(t) ==
  /\ at[t] = "out"
  /\ Goto(t, "lock") \/ Goto(t, "rlock")
  /\ UNCHANGED <<holder, reader_count, queues, woken>>

(***************************************************************************)
(* uthread_mutex_lock, uthread_mutex_lock_readonly: one turn of the loop.   *)
(***************************************************************************)
LockIgnoresReaders == holder # NoThread
LockIgnoresHolder == reader_count > 0
LockBusy == holder # NoThread \/ reader_count > 0

Lock(t) ==
  /\ at[t] = "lock"
  /\ IF LockBusy
       THEN /\ waiter_queue' = Enqueue(waiter_queue, t)
            /\ Goto(t, "lock_sleep")
            /\ UNCHANGED holder
       ELSE /\ holder' = t
            /\ Goto(t, "writing")
            /\ UNCHANGED waiter_queue
  /\ UNCHANGED <<reader_count, reader_waiter_queue, cond_queue, woken>>

ReadBusy == holder # NoThread \/ waiter_queue # <<>>

LockReadonly(t) ==
  /\ at[t] = "rlock"
  /\ IF ReadBusy
       THEN /\ reader_waiter_queue' = Enqueue(reader_waiter_queue, t)
            /\ Goto(t, "rlock_sleep")
            /\ UNCHANGED reader_count
       ELSE /\ reader_count' = reader_count + 1
            /\ Goto(t, "reading")
            /\ UNCHANGED reader_waiter_queue
  /\ UNCHANGED <<holder, waiter_queue, cond_queue, woken>>

(* uthread_block returns to the loop it was called from, or to the mutex_lock at
   the end of uthread_cond_wait. *)
Resume(t) ==
  /\ t \in woken
  /\ \/ at[t] \in {"lock_sleep", "wait_sleep"} /\ Goto(t, "lock")
     \/ at[t] = "rlock_sleep" /\ Goto(t, "rlock")
  /\ woken' = woken \ {t}
  /\ UNCHANGED <<holder, reader_count, queues>>

(***************************************************************************)
(* uthread_mutex_unlock.                                                    *)
(***************************************************************************)
ReadersLeftAlwaysLess == reader_count - 1
ReadersLeftNone == 0
ReadersLeft == IF holder # NoThread THEN reader_count ELSE reader_count - 1

(* The last one out wakes a writer, or every reader when no writer waits. *)
WakeNext ==
  IF waiter_queue # <<>>
    THEN /\ waiter_queue' = Tail(waiter_queue)
         /\ woken' = woken \cup {Head(waiter_queue)}
         /\ UNCHANGED reader_waiter_queue
    ELSE /\ reader_waiter_queue' = <<>>
         /\ woken' = woken \cup Range(reader_waiter_queue)
         /\ UNCHANGED waiter_queue

LastOutIfReader == ReadersLeft = 0 /\ holder = NoThread
LastOut == ReadersLeft = 0

MutexUnlock ==
  /\ holder' = NoThread
  /\ reader_count' = ReadersLeft
  /\ IF LastOut THEN WakeNext ELSE UNCHANGED <<waiter_queue, reader_waiter_queue, woken>>

Unlock(t) ==
  /\ at[t] \in {"writing", "reading"}
  /\ MutexUnlock
  /\ Goto(t, "out")
  /\ UNCHANGED cond_queue

(***************************************************************************)
(* uthread_cond_wait, uthread_cond_signal, uthread_cond_broadcast.          *)
(***************************************************************************)
CondWait(t, c) ==
  /\ at[t] = "writing"
  /\ cond_queue' = [cond_queue EXCEPT ![c] = Enqueue(@, t)]
  /\ Goto(t, "wait_unlock")
  /\ UNCHANGED <<holder, reader_count, waiter_queue, reader_waiter_queue, woken>>

CondWaitUnlock(t) ==
  /\ at[t] = "wait_unlock"
  /\ MutexUnlock
  /\ Goto(t, "wait_sleep")
  /\ UNCHANGED cond_queue

(* With nobody waiting a signal or a broadcast changes nothing. *)
SignalKeeps(q) == q
SignalLeaves(q) == Tail(q)

CondSignal(t, c) ==
  /\ at[t] = "writing"
  /\ cond_queue[c] # <<>>
  /\ cond_queue' = [cond_queue EXCEPT ![c] = SignalLeaves(@)]
  /\ woken' = woken \cup {Head(cond_queue[c])}
  /\ UNCHANGED <<holder, reader_count, waiter_queue, reader_waiter_queue, at>>

(* The loop of the broadcast is one step: only the holder touches the queue, and the
   threads woken early can do no more than queue for the mutex. *)
CondBroadcast(t, c) ==
  /\ at[t] = "writing"
  /\ cond_queue[c] # <<>>
  /\ cond_queue' = [cond_queue EXCEPT ![c] = <<>>]
  /\ woken' = woken \cup Range(cond_queue[c])
  /\ UNCHANGED <<holder, reader_count, waiter_queue, reader_waiter_queue, at>>

(* What a thread inside the mutex code does next; Call and the condition variable
   operations are the program's choice. *)
Step(t) == Lock(t) \/ LockReadonly(t) \/ Resume(t) \/ Unlock(t) \/ CondWaitUnlock(t)

Next == \E t \in Threads :
  \/ Call(t) \/ Step(t)
  \/ \E c \in Conds : CondWait(t, c) \/ CondSignal(t, c) \/ CondBroadcast(t, c)

(* uthreads are scheduled in FIFO order over a ready queue that loses nobody
   (UThreads!ReadyRuns), and a program gives back the mutex it holds. *)
Fairness == \A t \in Threads : WF_vars(Step(t))

Spec == Init /\ [][Next]_vars /\ Fairness

(***************************************************************************)
(* Properties.                                                              *)
(***************************************************************************)
TypeOK ==
  /\ holder \in Threads \cup {NoThread}
  /\ reader_count \in Nat
  /\ waiter_queue \in Seq(Threads)
  /\ reader_waiter_queue \in Seq(Threads)
  /\ cond_queue \in [Conds -> Seq(Threads)]
  /\ woken \subseteq Threads
  /\ at \in [Threads -> Places]

Writers == { t \in Threads : at[t] \in {"writing", "wait_unlock"} }
Readers == { t \in Threads : at[t] = "reading" }

(* uthread_mutex_cond.h: a thread that is past uthread_mutex_lock is alone; readers
   share the mutex with readers only.  Over barging lockers, woken waiters and
   threads coming back from uthread_cond_wait. *)
Exclusion == /\ \A t, u \in Writers : t = u
             /\ Writers = {} \/ Readers = {}

(* The asserts of uthread_mutex_unlock and of the uthread_cond_ operations: the
   fields name exactly the threads that hold the mutex. *)
HolderTruth == /\ \A t \in Threads : holder = t <=> t \in Writers
               /\ reader_count = Cardinality(Readers)

OnMutex == Range(waiter_queue)
OnReaders == Range(reader_waiter_queue)
OnConds == UNION { Range(cond_queue[c]) : c \in Conds }
Asleep == {"lock_sleep", "rlock_sleep", "wait_sleep"}

(* A sleeping thread is in exactly one place from which it can be woken, the queue of
   the call it sleeps in or `woken`; a thread that does not sleep is in none.  No
   wakeup is lost between the spinlock_unlock and the uthread_block, and none is left
   over to end a later uthread_block early. *)
WaiterInPlace == \A t \in Threads :
  /\ t \in OnMutex => at[t] = "lock_sleep"
  /\ t \in OnReaders => at[t] = "rlock_sleep"
  /\ t \in OnConds => at[t] \in {"wait_unlock", "wait_sleep"}
  /\ t \in woken => at[t] \in Asleep /\ t \notin OnMutex \cup OnReaders \cup OnConds
  /\ at[t] \in Asleep => t \in OnMutex \cup OnReaders \cup OnConds \cup woken
  /\ at[t] = "wait_unlock" => t \in OnConds

WriterComing(t) == at[t] = "lock" \/ (t \in woken /\ at[t] \in {"lock_sleep", "wait_sleep"})
ReaderComing(t) == at[t] = "rlock" \/ (t \in woken /\ at[t] = "rlock_sleep")

(* A free mutex leaves nobody behind: while writers queue for it another writer is on
   its way to it, and while readers queue somebody is; whoever comes will pass it on. *)
NobodyStranded == (holder = NoThread /\ reader_count = 0) =>
  /\ waiter_queue # <<>> => \E t \in Threads : WriterComing(t)
  /\ reader_waiter_queue # <<>> => \E t \in Threads : WriterComing(t) \/ ReaderComing(t)

(* While a thread wants the mutex somebody gets it: locking does not deadlock. *)
Progress == (\E t \in Threads : at[t] \in {"lock", "rlock", "lock_sleep", "rlock_sleep"})
              ~> (\E t \in Threads : at[t] \in {"writing", "reading"})

(* The monitor it implements.  A thread waits, for its callers, from the moment the
   mutex is let go; once it is off the condition's queue it wants the mutex again. *)
RoleOf(t) ==
  IF at[t] \in {"lock", "lock_sleep"} THEN "want"
  ELSE IF at[t] \in {"rlock", "rlock_sleep"} THEN "wantRead"
  ELSE IF at[t] \in {"writing", "wait_unlock"} THEN "write"
  ELSE IF at[t] = "reading" THEN "read"
  ELSE IF at[t] = "wait_sleep" THEN IF t \in OnConds THEN "wait" ELSE "want"
  ELSE "out"

(* The last on a queue may be a thread that has not let go yet. *)
LetGo(q) == IF q # <<>> /\ at[q[Len(q)]] = "wait_unlock" THEN SubSeq(q, 1, Len(q) - 1) ELSE q

Abstract == INSTANCE Mesa WITH
  role <- [t \in Threads |-> RoleOf(t)],
  waiting <- [c \in Conds |-> LetGo(cond_queue[c])]

(* Every step of the queues, the wakeups and the retries is a step of Mesa or none:
   in particular no uthread_cond_wait returns without a signal meant for it. *)
ImplementsMesa == Abstract!Spec
=============================================================================
