-------------------------- MODULE SemaphoreProofs ---------------------------
(***************************************************************************)
(* The value and the queue of a semaphore agree, no sleeper is lost, and it *)
(* implements a counter that is never negative, for any threads, any        *)
(* producers and any initial value.                                         *)
(***************************************************************************)
EXTENDS Semaphore, SharedTheorems, FiniteSetTheorems, TLAPS

(* Nobody is on the queue twice: without it a thread could be dequeued and still be
   there, both queued and woken. *)
QueuedOnce == IsInjective(waiter_queue)

IInv == TypeOK /\ ValueCountsWaiters /\ SleeperInPlace /\ QueuedOnce

(* A signal keeps value and queue in step, and moves the head from queued to woken. *)
LEMMA SignalEffect ==
  ASSUME IInv, SemSignal
  PROVE  /\ value' \in Int /\ waiter_queue' \in Seq(Threads) /\ woken' \subseteq Threads
         /\ ValueCountsWaiters' /\ QueuedOnce'
         /\ \/ waiter_queue' = waiter_queue /\ woken' = woken
            \/ \E h \in Range(waiter_queue) :
                 /\ Range(waiter_queue') = Range(waiter_queue) \ {h}
                 /\ woken' = woken \cup {h}
<1> USE DEF IInv, TypeOK, QueuedOnce
<1>1. CASE waiter_queue = <<>>
  <2>1. waiter_queue' = waiter_queue /\ woken' = woken /\ value' = value + 1
    BY <1>1 DEF SemSignal
  <2>2. value >= 0
    BY <1>1 DEF ValueCountsWaiters
  <2>3. ValueCountsWaiters'
    BY <1>1, <2>1, <2>2 DEF ValueCountsWaiters
  <2> QED BY <2>1, <2>3
<1>2. CASE waiter_queue # <<>>
  <2>1. /\ waiter_queue' = Tail(waiter_queue) /\ value' = value + 1
        /\ woken' = woken \cup {Head(waiter_queue)}
    BY <1>2 DEF SemSignal, LeaveHead
  <2>2. Len(waiter_queue) # 0 /\ Len(waiter_queue) \in Nat
    BY <1>2
  <2>3. value < 0 /\ Len(waiter_queue) = -value
    BY <2>2 DEF ValueCountsWaiters
  <2>4. Len(waiter_queue') = -value - 1 /\ waiter_queue' \in Seq(Threads)
    BY <1>2, <2>1, <2>3, TailRest
  <2>5. ValueCountsWaiters'
    BY <2>1, <2>3, <2>4 DEF ValueCountsWaiters
  <2>6. /\ Head(waiter_queue) \in Range(waiter_queue) /\ Head(waiter_queue) \in Threads
        /\ Range(waiter_queue') = Range(waiter_queue) \ {Head(waiter_queue)}
        /\ QueuedOnce'
    BY <1>2, <2>1, TailRest
  <2> QED BY <2>1, <2>4, <2>5, <2>6
<1> QED BY <1>1, <1>2

LEMMA InvInit == Init => IInv
<1> SUFFICES ASSUME Init PROVE IInv
  OBVIOUS
<1>1. Range(waiter_queue) = {}
  BY DEF Init, Range
<1>2. Len(waiter_queue) = 0 /\ value \in Nat
  BY InitialAssumption DEF Init
<1>3. SleeperInPlace
  BY <1>1 DEF Init, SleeperInPlace
<1>4. ValueCountsWaiters
  BY <1>2 DEF ValueCountsWaiters
<1>5. TypeOK /\ QueuedOnce
  BY <1>2 DEF Init, TypeOK, QueuedOnce, IsInjective
<1> QED BY <1>3, <1>4, <1>5 DEF IInv

LEMMA InvStep == IInv /\ [Next]_vars => IInv'
<1> SUFFICES ASSUME IInv, [Next]_vars PROVE IInv'
  OBVIOUS
<1>1. ASSUME NEW t \in Threads, Wait(t) PROVE IInv'
  <2>1. value' = value - 1 /\ woken' = woken /\ at[t] = "out" /\ value \in Int
    BY <1>1 DEF Wait, IInv, TypeOK
  <2>2. t \notin Range(waiter_queue) /\ t \notin woken
    BY <2>1 DEF IInv, SleeperInPlace
  <2>3. CASE MustSleep
    <3>1. waiter_queue' = Enqueue(waiter_queue, t) /\ at' = [at EXCEPT ![t] = "asleep"]
      BY <1>1, <2>3 DEF Wait, Goto
    <3>2. /\ waiter_queue' \in Seq(Threads) /\ Len(waiter_queue') = Len(waiter_queue) + 1
          /\ Range(waiter_queue') = Range(waiter_queue) \cup {t} /\ QueuedOnce'
      BY <2>2, <3>1, AppendNew DEF IInv, TypeOK, QueuedOnce, Enqueue
    <3>3. TypeOK'
      BY <2>1, <3>1, <3>2 DEF IInv, TypeOK
    <3>4. ValueCountsWaiters'
      BY <2>1, <2>3, <3>2 DEF IInv, ValueCountsWaiters, MustSleep
    <3>5. SleeperInPlace'
      BY <2>1, <2>2, <3>1, <3>2 DEF IInv, TypeOK, SleeperInPlace
    <3> QED BY <3>2, <3>3, <3>4, <3>5 DEF IInv
  <2>4. CASE ~MustSleep
    <3>1. waiter_queue' = waiter_queue /\ at' = [at EXCEPT ![t] = "in"]
      BY <1>1, <2>4 DEF Wait, Goto
    <3>2. TypeOK' /\ QueuedOnce'
      BY <2>1, <3>1 DEF IInv, TypeOK, QueuedOnce
    <3>3. ValueCountsWaiters'
      BY <2>1, <2>4, <3>1 DEF IInv, ValueCountsWaiters, MustSleep
    <3>4. SleeperInPlace'
      BY <2>1, <2>2, <3>1 DEF IInv, TypeOK, SleeperInPlace
    <3> QED BY <3>2, <3>3, <3>4 DEF IInv
  <2> QED BY <2>3, <2>4
<1>2. ASSUME NEW t \in Threads, Resume(t) PROVE IInv'
  <2>1. /\ at[t] = "asleep" /\ t \in woken /\ woken' = woken \ {t}
        /\ at' = [at EXCEPT ![t] = "in"] /\ value' = value /\ waiter_queue' = waiter_queue
    BY <1>2 DEF Resume, Goto
  <2>2. TypeOK' /\ QueuedOnce' /\ ValueCountsWaiters'
    BY <2>1 DEF IInv, TypeOK, QueuedOnce, ValueCountsWaiters
  <2>3. SleeperInPlace'
    BY <2>1 DEF IInv, TypeOK, SleeperInPlace
  <2> QED BY <2>2, <2>3 DEF IInv
<1>3. ASSUME NEW t \in Threads, SemSignal,
             at' = at \/ (at[t] = "in" /\ at' = [at EXCEPT ![t] = "out"])
      PROVE  IInv'
  <2>1. TypeOK' /\ ValueCountsWaiters' /\ QueuedOnce'
    BY <1>3, SignalEffect DEF IInv, TypeOK
  <2>2. SleeperInPlace'
    BY <1>3, SignalEffect DEF IInv, TypeOK, SleeperInPlace
  <2> QED BY <2>1, <2>2 DEF IInv
<1>4. ASSUME NEW t \in Threads, Leave(t) PROVE IInv'
  BY <1>3, <1>4 DEF Leave, Goto
<1>5. ASSUME NEW t \in Threads, Produce(t) PROVE IInv'
  BY <1>3, <1>5 DEF Produce
<1>6. CASE UNCHANGED vars
  BY <1>6 DEF vars, IInv, TypeOK, ValueCountsWaiters, SleeperInPlace, QueuedOnce
<1> QED BY <1>1, <1>2, <1>4, <1>5, <1>6 DEF Next

(* The value counts the sleepers, for any number of threads: a signal can rely on it. *)
THEOREM ValueCorrect == Spec => []ValueCountsWaiters
<1>1. IInv => ValueCountsWaiters
  BY DEF IInv
<1> QED BY <1>1, InvInit, InvStep, PTL DEF Spec

(* No sleeper of a semaphore is lost and no wakeup is left over. *)
THEOREM SleeperCorrect == Spec => []SleeperInPlace
<1>1. IInv => SleeperInPlace
  BY DEF IInv
<1> QED BY <1>1, InvInit, InvStep, PTL DEF Spec

(***************************************************************************)
(* The counting semaphore that clients see.                                 *)
(***************************************************************************)
(* A signal adds one to the count, whether it raises the value or wakes a sleeper. *)
LEMMA SignalCounts ==
  ASSUME IInv, SemSignal
  PROVE  LET count == (IF value > 0 THEN value ELSE 0) + Cardinality(woken)
         IN  count \in Nat /\ count' = count + 1
<1>1. value \in Int /\ IsFiniteSet(woken) /\ Cardinality(woken) \in Nat
  BY ThreadsAssumption, FS_Subset, FS_CardinalityType DEF IInv, TypeOK
<1>2. CASE waiter_queue = <<>>
  <2>1. value >= 0
    BY <1>1, <1>2 DEF IInv, ValueCountsWaiters
  <2>2. value' = value + 1 /\ woken' = woken
    BY <1>2 DEF SemSignal
  <2> QED BY <1>1, <2>1, <2>2
<1>3. CASE waiter_queue # <<>>
  <2> DEFINE h == Head(waiter_queue)
  <2>1. h \in Range(waiter_queue) /\ h \in Threads
    BY <1>3, TailRest DEF IInv, TypeOK
  <2>2. h \notin woken
    BY <2>1 DEF IInv, SleeperInPlace
  <2>3. value' = value + 1 /\ woken' = woken \cup {h}
    BY <1>3 DEF SemSignal
  <2>4. Cardinality(woken') = Cardinality(woken) + 1
    BY <1>1, <2>2, <2>3, FS_AddElement
  <2>5. value < 0
    BY <1>1, <1>3, EmptyRange DEF IInv, TypeOK, ValueCountsWaiters
  <2> QED BY <1>1, <2>3, <2>4, <2>5
<1> QED BY <1>2, <1>3

LEMMA InitSimulates == Init => Abstract!Init
<1> SUFFICES ASSUME Init PROVE Abstract!Init
  OBVIOUS
<1>1. Cardinality(woken) = 0
  BY FS_EmptySet DEF Init
<1>2. { t \in Threads : at[t] = "asleep" } = {} /\ { t \in Threads : at[t] = "in" } = {}
  BY DEF Init
<1>3. (IF value > 0 THEN value ELSE 0) + Cardinality(woken) = Initial
  BY <1>1, InitialAssumption DEF Init
<1> QED BY <1>2, <1>3 DEF Abstract!Init

(* Each operation is one of the counting semaphore: a wait that sleeps is a call, one
   that does not, and the return of one that did, is a pass. *)
LEMMA StepSimulates == IInv /\ [Next]_vars => [Abstract!Next]_Abstract!vars
<1> SUFFICES ASSUME IInv, [Next]_vars PROVE [Abstract!Next]_Abstract!vars
  OBVIOUS
<1> DEFINE count == (IF value > 0 THEN value ELSE 0) + Cardinality(woken)
           sleeping == { t \in Threads : at[t] = "asleep" }
           inside == { t \in Threads : at[t] = "in" }
<1>1. value \in Int /\ IsFiniteSet(woken) /\ Cardinality(woken) \in Nat
  BY ThreadsAssumption, FS_Subset, FS_CardinalityType DEF IInv, TypeOK
<1>2. ASSUME NEW t \in Threads, Wait(t) PROVE Abstract!Call(t) \/ Abstract!Pass(t)
  <2>1. value' = value - 1 /\ woken' = woken /\ at[t] = "out"
    BY <1>2 DEF Wait
  <2>2. CASE MustSleep
    <3>1. sleeping' = sleeping \cup {t} /\ inside' = inside /\ t \notin sleeping
      BY <1>2, <2>1, <2>2 DEF Wait, Goto, IInv, TypeOK
    <3>2. count' = count
      BY <1>1, <2>1, <2>2 DEF MustSleep
    <3> QED BY <3>1, <3>2 DEF Abstract!Call
  <2>3. CASE ~MustSleep
    <3>1. sleeping' = sleeping \ {t} /\ inside' = inside \cup {t} /\ t \notin inside
      BY <1>2, <2>1, <2>3 DEF Wait, Goto, IInv, TypeOK
    <3>2. count > 0 /\ count' = count - 1
      BY <1>1, <2>1, <2>3 DEF MustSleep
    <3> QED BY <3>1, <3>2 DEF Abstract!Pass
  <2> QED BY <2>2, <2>3
<1>3. ASSUME NEW t \in Threads, Resume(t) PROVE Abstract!Pass(t)
  <2>1. at[t] = "asleep" /\ t \in woken /\ woken' = woken \ {t} /\ value' = value
    BY <1>3 DEF Resume
  <2>2. sleeping' = sleeping \ {t} /\ inside' = inside \cup {t} /\ t \notin inside
    BY <1>3, <2>1 DEF Resume, Goto, IInv, TypeOK
  <2>3. Cardinality(woken') = Cardinality(woken) - 1 /\ Cardinality(woken') \in Nat
    BY <1>1, <2>1, FS_RemoveElement, FS_CardinalityType
  <2>4. count > 0 /\ count' = count - 1
    BY <1>1, <2>1, <2>3
  <2> QED BY <2>2, <2>4 DEF Abstract!Pass
<1>4. ASSUME NEW t \in Threads, Leave(t) PROVE Abstract!GiveBack(t)
  <2>1. sleeping' = sleeping /\ inside' = inside \ {t} /\ t \in inside
    BY <1>4 DEF Leave, Goto, IInv, TypeOK
  <2>2. count' = count + 1
    BY <1>4, SignalCounts DEF Leave
  <2> QED BY <2>1, <2>2 DEF Abstract!GiveBack
<1>5. ASSUME NEW t \in Threads, Produce(t) PROVE Abstract!Signal
  <2>1. sleeping' = sleeping /\ inside' = inside
    BY <1>5 DEF Produce
  <2>2. count' = count + 1
    BY <1>5, SignalCounts DEF Produce
  <2> QED BY <2>1, <2>2 DEF Abstract!Signal
<1>6. CASE UNCHANGED vars
  BY <1>6 DEF vars, Abstract!vars
<1> HIDE DEF count, sleeping, inside
<1> QED BY <1>2, <1>3, <1>4, <1>5, <1>6 DEF Next, Abstract!Next

(* uthread_sem.h: to its clients, however many they are, the semaphore with its negative
   values, its queue and its wakeups is a counter that nobody passes for free. *)
THEOREM SemaphoreImplements == Spec => ImplementsCountingSem
BY InitSimulates, StepSimulates, InvInit, InvStep, PTL DEF Spec, ImplementsCountingSem, Abstract!Spec
=============================================================================
