------------------------------ MODULE Counter -------------------------------
(* a10/q2.c: threads that count up and then down again under one uthread mutex.
   cnt += 1 is a load and a store. *)
EXTENDS Integers

CONSTANTS Threads, NoThread,
          N  \* the constant N of q2.c (100000 there): iterations up, and down

VARIABLES holder, reader_count, waiter_queue, reader_waiter_queue, cond_queue, woken, at,
          cnt,     \* the shared counter
          loaded,  \* <<what a thread has loaded from cnt>> between the load and the store
          i        \* iterations of a thread so far, up and down together

monitor == <<holder, reader_count, waiter_queue, reader_waiter_queue, cond_queue, woken, at>>

M == INSTANCE Monitor WITH Conds <- {}

Init == /\ M!Init /\ cnt = 0
        /\ loaded = [t \in Threads |-> <<>>]
        /\ i = [t \in Threads |-> 0]

(* countUp for N iterations, then countDown *)
Delta(t) == IF i[t] < N THEN 1 ELSE -1

LockCall(t) == /\ i[t] < 2 * N /\ M!Call(t) /\ at'[t] = "lock"
               /\ UNCHANGED <<cnt, loaded, i>>

Load(t) == /\ at[t] = "writing" /\ loaded[t] = <<>>
           /\ loaded' = [loaded EXCEPT ![t] = <<cnt>>]
           /\ UNCHANGED <<monitor, cnt, i>>

(* The store, and the unlock after it. *)
Store(t) == /\ at[t] = "writing" /\ loaded[t] # <<>>
            /\ cnt' = loaded[t][1] + Delta(t)
            /\ M!Unlock(t)
            /\ loaded' = [loaded EXCEPT ![t] = <<>>]
            /\ i' = [i EXCEPT ![t] = @ + 1]

MutexStep(t) == (M!Lock(t) \/ M!Resume(t)) /\ UNCHANGED <<cnt, loaded, i>>

Step(t) == LockCall(t) \/ Load(t) \/ Store(t) \/ MutexStep(t)

Done == \A t \in Threads : i[t] = 2 * N
=============================================================================
