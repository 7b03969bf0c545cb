------------------------------ MODULE Barrier -------------------------------
(* a10/q3.c: every thread prints a, meets the others in waitForAllOtherThreads, and
   prints b. *)
EXTENDS Naturals, FiniteSets

CONSTANTS Threads, NoThread, BarrierCond

NUM_THREADS == Cardinality(Threads)

VARIABLES holder, reader_count, waiter_queue, reader_waiter_queue, cond_queue, woken, at,
          count,  \* threads that have arrived since the last broadcast
          pc      \* a (before the barrier), arriving, leaving, b (past it)

monitor == <<holder, reader_count, waiter_queue, reader_waiter_queue, cond_queue, woken, at>>

M == INSTANCE Monitor WITH Conds <- {BarrierCond}

Init == M!Init /\ count = 0 /\ pc = [t \in Threads |-> "a"]

Goto(t, l) == pc' = [pc EXCEPT ![t] = l]

LockCall(t) == /\ pc[t] = "a" /\ M!Call(t) /\ at'[t] = "lock"
               /\ Goto(t, "arriving") /\ UNCHANGED count

LastArrivesEarly == count + 2 = NUM_THREADS
LastArrives == count + 1 = NUM_THREADS

WakeOne(t) == M!CondSignal(t, BarrierCond)
WakeAll(t) == IF cond_queue[BarrierCond] = <<>> THEN UNCHANGED monitor
                                                ELSE M!CondBroadcast(t, BarrierCond)

(* count++, then the broadcast by the last one, or a wait that is not repeated: there
   is no condition to test again after it. *)
Arrive(t) ==
  /\ pc[t] = "arriving" /\ at[t] = "writing"
  /\ IF LastArrives THEN count' = 0 /\ WakeAll(t)
                    ELSE count' = count + 1 /\ M!CondWait(t, BarrierCond)
  /\ Goto(t, "leaving")

Leave(t) == /\ pc[t] = "leaving" /\ at[t] = "writing" /\ M!Unlock(t)
            /\ Goto(t, "b") /\ UNCHANGED count

MonitorStep(t) == (M!Lock(t) \/ M!Resume(t) \/ M!CondWaitUnlock(t)) /\ UNCHANGED <<count, pc>>

Step(t) == LockCall(t) \/ Arrive(t) \/ Leave(t) \/ MonitorStep(t)

Done == \A t \in Threads : pc[t] = "b"
(* One thread past the barrier means that all have come to it. *)
Together == (\E t \in Threads : pc[t] = "b") => \A t \in Threads : pc[t] \in {"leaving", "b"}
=============================================================================
