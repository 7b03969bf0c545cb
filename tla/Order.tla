------------------------------- MODULE Order --------------------------------
(* a10/q4.c: p0, p1 and p2 print in that order although they start in any, each
   waiting for the done flag of the one before it. *)
EXTENDS Naturals, Sequences

CONSTANTS p0, p1, p2, cond0, cond1, NoThread

Threads == {p0, p1, p2}

VARIABLES holder, reader_count, waiter_queue, reader_waiter_queue, cond_queue, woken, at,
          done,     \* the conditions whose done flag is set
          printed,  \* the output
          pc        \* start, body (inside the mutex, before the print), unlock, returned

monitor == <<holder, reader_count, waiter_queue, reader_waiter_queue, cond_queue, woken, at>>

M == INSTANCE Monitor WITH Conds <- {cond0, cond1}

Init == M!Init /\ done = {} /\ printed = <<>> /\ pc = [t \in Threads |-> "start"]

Goto(t, l) == pc' = [pc EXCEPT ![t] = l]

(* The condition a thread waits for, and the one it signals. *)
Awaits(t) == CASE t = p0 -> {} [] t = p1 -> {cond0} [] t = p2 -> {cond1}
Signals(t) == CASE t = p0 -> {cond0} [] t = p1 -> {cond1} [] t = p2 -> {}

LockCall(t) == /\ pc[t] = "start" /\ M!Call(t) /\ at'[t] = "lock"
               /\ Goto(t, "body") /\ UNCHANGED <<done, printed>>

GoesOnAlways(t) == TRUE
GoesOn(t) == Awaits(t) \subseteq done

(* while (!done) wait *)
AwaitTurn(t) == /\ pc[t] = "body" /\ at[t] = "writing" /\ ~GoesOn(t)
                /\ \E c \in Awaits(t) : M!CondWait(t, c)
                /\ UNCHANGED <<done, printed, pc>>

FlagForgotten(t) == done
FlagSet(t) == done \cup Signals(t)

(* It prints, sets the flag, signals. *)
Prints(t) == /\ pc[t] = "body" /\ at[t] = "writing" /\ GoesOn(t)
             /\ printed' = Append(printed, t)
             /\ done' = FlagSet(t)
             /\ IF \E c \in Signals(t) : cond_queue[c] # <<>>
                  THEN \E c \in Signals(t) : M!CondSignal(t, c)
                  ELSE UNCHANGED monitor
             /\ Goto(t, "unlock")

Return(t) == /\ pc[t] = "unlock" /\ M!Unlock(t)
             /\ Goto(t, "returned") /\ UNCHANGED <<done, printed>>

MonitorStep(t) == (M!Lock(t) \/ M!Resume(t) \/ M!CondWaitUnlock(t)) /\ UNCHANGED <<done, printed, pc>>

Step(t) == LockCall(t) \/ AwaitTurn(t) \/ Prints(t) \/ Return(t) \/ MonitorStep(t)

Done == \A t \in Threads : pc[t] = "returned"
(* The output is zero, one, two, or a beginning of it. *)
InOrder == \E n \in 0 .. 3 : printed = SubSeq(<<p0, p1, p2>>, 1, n)
=============================================================================
