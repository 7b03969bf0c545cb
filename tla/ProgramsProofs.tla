--------------------------- MODULE ProgramsProofs ---------------------------
(***************************************************************************)
(* What q2.c, q3.c, q4.c and smoke.c promise, for any number of iterations: *)
(* the counter comes back to zero, the barrier holds everybody, the output  *)
(* is in order, and in every round the right smoker smokes.                 *)
(***************************************************************************)
EXTENDS Programs, SharedTheorems, FiniteSetTheorems, SequenceTheorems, TLAPS

(***************************************************************************)
(* q2.c.                                                                    *)
(***************************************************************************)
Counters == {t1, t2, t3}

(* What k iterations of a thread have added to cnt. *)
Contribution(k) == IF k <= N THEN k ELSE 2 * N - k

CounterType == /\ i \in [Counters -> 0 .. 2 * N]
               /\ at \in [Counters -> {"out", "lock", "lock_sleep", "writing"}]
               /\ holder \in Counters \cup {NoThread} /\ reader_count = 0
               /\ DOMAIN loaded = Counters
               /\ cnt \in Int

(* Whoever has loaded cnt holds the mutex, and cnt has not changed since; so every
   iteration so far counts. *)
CounterInv == /\ CounterType
              /\ \A t \in Counters : holder = t <=> at[t] = "writing"
              /\ \A t \in Counters : loaded[t] # <<>> => at[t] = "writing" /\ loaded[t] = <<cnt>>
              /\ \A t \in Counters : at[t] # "out" => i[t] < 2 * N
              /\ cnt = Contribution(i[t1]) + Contribution(i[t2]) + Contribution(i[t3])

(* Only a store changes cnt, and it changes it by what its iteration contributes. *)
LEMMA CounterStep == CounterInv /\ (\E t \in Counters : Q2!Step(t)) => CounterInv'
<1> SUFFICES ASSUME CounterInv, NEW t \in Counters, Q2!Step(t) PROVE CounterInv'
  OBVIOUS
<1> USE NAssumption, NamesAssumption
<1>1. CASE Q2!LockCall(t)
  BY <1>1 DEF Q2!LockCall, Q2!M!Call, Q2!M!Goto, CounterInv, CounterType, Counters
<1>2. CASE Q2!Load(t)
  BY <1>2 DEF Q2!Load, Q2!monitor, CounterInv, CounterType, Counters
<1>3. CASE Q2!Store(t)
  <2>1. holder = t /\ loaded[t] = <<cnt>> /\ loaded[t][1] = cnt /\ at[t] = "writing"
    BY <1>3 DEF Q2!Store, CounterInv
  <2>2. /\ holder' = NoThread /\ reader_count' = 0
        /\ at' = [at EXCEPT ![t] = "out"]
    BY <1>3, <2>1 DEF Q2!Store, Q2!M!Unlock, Q2!M!MutexUnlock, Q2!M!ReadersLeft, Q2!M!Goto,
                      CounterInv, CounterType, Counters
  <2>3. /\ cnt' = cnt + (IF i[t] < N THEN 1 ELSE -1)
        /\ loaded' = [loaded EXCEPT ![t] = <<>>]
        /\ i' = [i EXCEPT ![t] = @ + 1]
        /\ i[t] < 2 * N
    BY <1>3, <2>1 DEF Q2!Store, Q2!Delta, CounterInv
  <2>4. CounterType'
    BY <2>2, <2>3 DEF CounterInv, CounterType
  <2>5. \A u \in Counters : u # t => loaded[u] = <<>>
    BY <2>1 DEF CounterInv
  <2>6. Contribution(i'[t]) = Contribution(i[t]) + (IF i[t] < N THEN 1 ELSE -1)
    BY <2>3 DEF Contribution, CounterInv, CounterType
  <2>7. \A u \in Counters : u # t => Contribution(i'[u]) = Contribution(i[u])
    BY <2>3 DEF CounterInv, CounterType
  <2>8. \A u \in Counters : Contribution(i[u]) \in Int
    BY DEF Contribution, CounterInv, CounterType
  <2>9. cnt' = Contribution(i'[t1]) + Contribution(i'[t2]) + Contribution(i'[t3])
    <3>1. cnt' - cnt = Contribution(i'[t]) - Contribution(i[t])
      BY <2>3, <2>6, <2>8 DEF CounterInv, CounterType
    <3>2. cnt = Contribution(i[t1]) + Contribution(i[t2]) + Contribution(i[t3]) /\ cnt' \in Int
      BY <2>4 DEF CounterInv, CounterType
    <3>3. \A u \in Counters : Contribution(i'[u]) \in Int
      BY <2>6, <2>7, <2>8
    <3>4. CASE t = t1
      <4>1. Contribution(i'[t2]) = Contribution(i[t2]) /\ Contribution(i'[t3]) = Contribution(i[t3])
        BY <2>7, <3>4 DEF Counters
      <4> QED BY <2>8, <3>1, <3>4, <3>2, <3>3, <4>1 DEF Counters
    <3>5. CASE t = t2
      <4>1. Contribution(i'[t1]) = Contribution(i[t1]) /\ Contribution(i'[t3]) = Contribution(i[t3])
        BY <2>7, <3>5 DEF Counters
      <4> QED BY <2>8, <3>1, <3>5, <3>2, <3>3, <4>1 DEF Counters
    <3>6. CASE t = t3
      <4>1. Contribution(i'[t1]) = Contribution(i[t1]) /\ Contribution(i'[t2]) = Contribution(i[t2])
        BY <2>7, <3>6 DEF Counters
      <4> QED BY <2>8, <3>1, <3>6, <3>2, <3>3, <4>1 DEF Counters
    <3> QED BY <3>4, <3>5, <3>6 DEF Counters
  <2>10. \A u \in Counters : /\ holder' = u <=> at'[u] = "writing"
                             /\ at'[u] # "out" => at[u] # "out" /\ i'[u] = i[u]
                             /\ loaded'[u] = <<>>
    BY <2>1, <2>2, <2>3, <2>5 DEF CounterInv, CounterType, Counters
  <2> QED BY <2>4, <2>9, <2>10 DEF CounterInv
<1>4. CASE Q2!M!Lock(t) /\ UNCHANGED <<cnt, loaded, i>>
  BY <1>4 DEF Q2!M!Lock, Q2!M!LockBusy, Q2!M!Goto, CounterInv, CounterType, Counters
<1>5. CASE Q2!M!Resume(t) /\ UNCHANGED <<cnt, loaded, i>>
  BY <1>5 DEF Q2!M!Resume, Q2!M!Goto, CounterInv, CounterType, Counters
<1> QED BY <1>1, <1>2, <1>3, <1>4, <1>5 DEF Q2!Step, Q2!MutexStep

LEMMA CounterInit == Q2!Init => CounterInv
BY NAssumption, NamesAssumption
   DEF Q2!Init, Q2!M!Init, CounterInv, CounterType, Counters, Contribution

(***************************************************************************)
(* q3.c.                                                                    *)
(***************************************************************************)
Leaving == { t \in Party : pc[t] = "leaving" }

(* Until the last one arrives, whoever has left its count behind waits on the condition
   and not in the mutex: no unlock can wake it, and count counts them. *)
Gathering == /\ \A t \in Party : pc[t] = "leaving" => at[t] \in {"wait_unlock", "wait_sleep"}
             /\ \A t \in Range(waiter_queue) \cup woken : at[t] = "lock_sleep"
             /\ IsInjective(waiter_queue) /\ Range(waiter_queue) \cap woken = {}
             /\ reader_waiter_queue = <<>>
             /\ count = Cardinality(Leaving)

BarrierInv == \/ /\ pc \in [Party -> {"a", "arriving", "leaving"}]
                 /\ at \in [Party -> Q3!M!Places]
                 /\ waiter_queue \in Seq(Party) /\ woken \subseteq Party
                 /\ Gathering
              \/ pc \in [Party -> {"leaving", "b"}]

(* An unlock by a thread outside the queue wakes the head of the queue, or nobody. *)
LEMMA WakesLocker ==
  ASSUME NEW t \in Party, Gathering, waiter_queue \in Seq(Party), woken \subseteq Party,
         Q3!M!MutexUnlock
  PROVE  /\ waiter_queue' \in Seq(Party) /\ woken' \subseteq Party
         /\ reader_waiter_queue' = <<>>
         /\ Range(waiter_queue') \cup woken' = Range(waiter_queue) \cup woken
         /\ IsInjective(waiter_queue') /\ Range(waiter_queue') \cap woken' = {}
<1>1. CASE Q3!M!LastOut /\ waiter_queue # <<>>
  <2>1. /\ waiter_queue' = Tail(waiter_queue)
        /\ woken' = woken \cup {Head(waiter_queue)}
        /\ reader_waiter_queue' = <<>>
    BY <1>1 DEF Q3!M!MutexUnlock, Q3!M!WakeNext, Gathering
  <2>2. /\ Tail(waiter_queue) \in Seq(Party)
        /\ Head(waiter_queue) \in Party
        /\ Head(waiter_queue) \in Range(waiter_queue)
        /\ Range(Tail(waiter_queue)) = Range(waiter_queue) \ {Head(waiter_queue)}
        /\ IsInjective(Tail(waiter_queue))
    BY <1>1, TailRest DEF Gathering
  <2> QED BY <2>1, <2>2 DEF Gathering
<1>2. CASE Q3!M!LastOut /\ waiter_queue = <<>>
  <2>1. /\ waiter_queue' = waiter_queue
        /\ reader_waiter_queue' = <<>>
        /\ woken' = woken \cup Q3!M!Range(<<>>)
    BY <1>2 DEF Q3!M!MutexUnlock, Q3!M!WakeNext, Gathering
  <2>2. Q3!M!Range(<<>>) = {}
    BY DEF Q3!M!Range
  <2> QED BY <2>1, <2>2 DEF Gathering
<1>3. CASE ~Q3!M!LastOut
  BY <1>3 DEF Q3!M!MutexUnlock, Gathering
<1> QED BY <1>1, <1>2, <1>3

LEMMA BarrierStep == BarrierInv /\ (\E t \in Party : Q3!Step(t)) => BarrierInv'
<1> SUFFICES ASSUME BarrierInv, NEW t \in Party, Q3!Step(t) PROVE BarrierInv'
  OBVIOUS
<1>1. CASE pc \in [Party -> {"leaving", "b"}]
  BY <1>1 DEF BarrierInv, Q3!Step, Q3!LockCall, Q3!Arrive, Q3!Leave, Q3!MonitorStep, Q3!Goto
<1>2. CASE /\ pc \in [Party -> {"a", "arriving", "leaving"}]
           /\ at \in [Party -> Q3!M!Places]
           /\ waiter_queue \in Seq(Party) /\ woken \subseteq Party
           /\ Gathering
  <2> USE <1>2
  <2>1. CASE Q3!LockCall(t)
    <3>1. /\ at' = [at EXCEPT ![t] = "lock"] /\ pc' = [pc EXCEPT ![t] = "arriving"]
          /\ at[t] = "out" /\ pc[t] = "a"
          /\ UNCHANGED <<waiter_queue, reader_waiter_queue, woken, count>>
      BY <2>1 DEF Q3!LockCall, Q3!Goto, Q3!M!Call, Q3!M!Goto, Q3!M!queues
    <3>2. Leaving' = Leaving
      BY <3>1 DEF Leaving
    <3>3. Range(waiter_queue) \subseteq Party
      BY EmptyRange
    <3> QED BY <3>1, <3>2, <3>3 DEF BarrierInv, Gathering, Q3!M!Places
  <2>2. CASE Q3!Arrive(t)
    <3>1. /\ pc[t] = "arriving" /\ at[t] = "writing" /\ pc' = [pc EXCEPT ![t] = "leaving"]
      BY <2>2 DEF Q3!Arrive, Q3!Goto
    <3>2. /\ IsFiniteSet(Leaving) /\ Leaving \subseteq Party /\ t \notin Leaving
          /\ Cardinality(Leaving \cup {t}) = Cardinality(Leaving) + 1
          /\ IsFiniteSet(Leaving \cup {t})
      BY <3>1, PartyAssumption, FS_Subset, FS_AddElement DEF Leaving
    <3>3. Leaving' = Leaving \cup {t}
      BY <3>1 DEF Leaving
    <3>4. CASE Q3!LastArrives
      <4>1. Q3!NUM_THREADS = Cardinality(Party)
        BY Zenon DEF Q3!NUM_THREADS, Q3!Cardinality, Cardinality
      <4>3. Cardinality(Leaving \cup {t}) = Cardinality(Party)
        BY <3>2, <3>4, <4>1 DEF Q3!LastArrives, Gathering
      <4>2. Leaving \cup {t} = Party
        BY <3>2, <4>3, PartyAssumption, FS_Subset
      <4>4. \A u \in Party : pc'[u] = "leaving"
        BY <3>1, <4>2 DEF Leaving
      <4> QED BY <3>1, <4>4 DEF BarrierInv
    <3>5. CASE ~Q3!LastArrives
      <4>1. /\ at' = [at EXCEPT ![t] = "wait_unlock"] /\ count' = count + 1
            /\ UNCHANGED <<waiter_queue, reader_waiter_queue, woken>>
        BY <2>2, <3>5 DEF Q3!Arrive, Q3!M!CondWait, Q3!M!Goto
      <4>2. Range(waiter_queue) \subseteq Party
        BY EmptyRange
      <4> QED BY <3>1, <3>2, <3>3, <4>1, <4>2 DEF BarrierInv, Gathering, Q3!M!Places
    <3> QED BY <3>4, <3>5
  <2>3. CASE Q3!Leave(t)
    BY <2>3 DEF Q3!Leave, Gathering
  <2>4. CASE Q3!M!Lock(t) /\ UNCHANGED <<count, pc>>
    <3>1. Leaving' = Leaving /\ pc[t] # "leaving" /\ at[t] = "lock"
      BY <2>4 DEF Leaving, Q3!M!Lock, Gathering
    <3>2. CASE Q3!M!LockBusy
      <4>1. t \notin Range(waiter_queue) \cup woken
        BY <3>1 DEF Gathering
      <4>2. /\ waiter_queue' = Append(waiter_queue, t)
            /\ at' = [at EXCEPT ![t] = "lock_sleep"]
            /\ UNCHANGED <<reader_waiter_queue, woken>>
        BY <2>4, <3>2, <4>1 DEF Q3!M!Lock, Q3!M!Enqueue, Q3!M!Goto, Q3!M!Range, Range
      <4>3. /\ Append(waiter_queue, t) \in Seq(Party)
            /\ Range(Append(waiter_queue, t)) = Range(waiter_queue) \cup {t}
            /\ IsInjective(Append(waiter_queue, t))
        BY <4>1, AppendNew DEF Gathering
      <4>4. Range(waiter_queue) \subseteq Party
        BY EmptyRange
      <4> QED BY <2>4, <3>1, <4>1, <4>2, <4>3, <4>4 DEF BarrierInv, Gathering, Q3!M!Places
    <3>3. CASE ~Q3!M!LockBusy
      <4>1. /\ at' = [at EXCEPT ![t] = "writing"]
            /\ UNCHANGED <<waiter_queue, reader_waiter_queue, woken>>
        BY <2>4, <3>3 DEF Q3!M!Lock, Q3!M!Goto
      <4>2. Range(waiter_queue) \subseteq Party
        BY EmptyRange
      <4> QED BY <2>4, <3>1, <4>1, <4>2 DEF BarrierInv, Gathering, Q3!M!Places
    <3> QED BY <3>2, <3>3
  <2>5. CASE Q3!M!Resume(t) /\ UNCHANGED <<count, pc>>
    <3>1. Leaving' = Leaving /\ t \in woken /\ at[t] = "lock_sleep" /\ pc[t] # "leaving"
      BY <2>5 DEF Leaving, Q3!M!Resume, Gathering
    <3>2. /\ at' = [at EXCEPT ![t] = "lock"] /\ woken' = woken \ {t}
          /\ UNCHANGED <<waiter_queue, reader_waiter_queue>>
      BY <2>5, <3>1 DEF Q3!M!Resume, Q3!M!Goto, Q3!M!queues
    <3>3. Range(waiter_queue) \subseteq Party
      BY EmptyRange
    <3> QED BY <2>5, <3>1, <3>2, <3>3 DEF BarrierInv, Gathering, Q3!M!Places
  <2>6. CASE Q3!M!CondWaitUnlock(t) /\ UNCHANGED <<count, pc>>
    <3>1. /\ Leaving' = Leaving /\ at[t] = "wait_unlock" /\ Q3!M!MutexUnlock
          /\ at' = [at EXCEPT ![t] = "wait_sleep"]
      BY <2>6 DEF Leaving, Q3!M!CondWaitUnlock, Q3!M!Goto
    <3>2. /\ waiter_queue' \in Seq(Party) /\ woken' \subseteq Party
          /\ reader_waiter_queue' = <<>>
          /\ Range(waiter_queue') \cup woken' = Range(waiter_queue) \cup woken
          /\ IsInjective(waiter_queue') /\ Range(waiter_queue') \cap woken' = {}
      BY <3>1, WakesLocker
    <3>3. t \notin Range(waiter_queue) \cup woken /\ Range(waiter_queue) \subseteq Party
      BY <3>1, EmptyRange DEF Gathering
    <3> QED BY <2>6, <3>1, <3>2, <3>3 DEF BarrierInv, Gathering, Q3!M!Places
  <2> QED BY <2>1, <2>2, <2>3, <2>4, <2>5, <2>6 DEF Q3!Step, Q3!MonitorStep
<1> QED BY <1>1, <1>2 DEF BarrierInv

LEMMA BarrierInit == Q3!Init => BarrierInv
<1> SUFFICES ASSUME Q3!Init PROVE BarrierInv
  OBVIOUS
<1>1. Leaving = {} /\ Range(<<>>) = {} /\ IsInjective(<<>>) /\ <<>> \in Seq(Party)
  BY DEF Q3!Init, Leaving, Range, IsInjective
<1> QED BY <1>1, FS_EmptySet DEF Q3!Init, Q3!M!Init, BarrierInv, Gathering, Q3!M!Places

(***************************************************************************)
(* q4.c.                                                                    *)
(***************************************************************************)
Early == {"start", "body"}
Late == {"unlock", "returned"}

(* The flags, the output and what a thread has left to do tell the same. *)
OrderInv == /\ pc \in [Counters -> Early \cup Late]
            /\ \/ /\ printed = <<>> /\ done = {}
                  /\ pc[t1] \in Early /\ pc[t2] \in Early /\ pc[t3] \in Early
               \/ /\ printed = <<t1>> /\ done = {cond0}
                  /\ pc[t1] \in Late /\ pc[t2] \in Early /\ pc[t3] \in Early
               \/ /\ printed = <<t1, t2>> /\ done = {cond0, cond1}
                  /\ pc[t1] \in Late /\ pc[t2] \in Late /\ pc[t3] \in Early
               \/ /\ printed = <<t1, t2, t3>> /\ done = {cond0, cond1}
                  /\ pc[t1] \in Late /\ pc[t2] \in Late /\ pc[t3] \in Late

LEMMA Flags ==
  /\ Q4!Awaits(t1) = {} /\ Q4!Awaits(t2) = {cond0} /\ Q4!Awaits(t3) = {cond1}
  /\ Q4!Signals(t1) = {cond0} /\ Q4!Signals(t2) = {cond1} /\ Q4!Signals(t3) = {}
BY NamesAssumption, Zenon DEF Q4!Awaits, Q4!Signals

(* A line more of output, and the outputs that InOrder speaks of. *)
LEMMA OneMore == ASSUME NEW a, NEW b, NEW c
  PROVE Append(<<a>>, b) = <<a, b>> /\ Append(<<a, b>>, c) = <<a, b, c>>
<1>1. /\ <<a>> \in Seq({a, b, c}) /\ <<a, b>> \in Seq({a, b, c}) /\ <<a, b, c>> \in Seq({a, b, c})
      /\ Len(<<a>>) = 1 /\ Len(<<a, b>>) = 2 /\ Len(<<a, b, c>>) = 3
  OBVIOUS
<1>2. /\ Append(<<a>>, b) \in Seq({a, b, c}) /\ Len(Append(<<a>>, b)) = 2
      /\ Append(<<a>>, b)[1] = a /\ Append(<<a>>, b)[2] = b
  BY <1>1
<1>3. /\ Append(<<a, b>>, c) \in Seq({a, b, c}) /\ Len(Append(<<a, b>>, c)) = 3
      /\ Append(<<a, b>>, c)[1] = a /\ Append(<<a, b>>, c)[2] = b
      /\ Append(<<a, b>>, c)[3] = c
  BY <1>1
<1>4. Append(<<a>>, b) = <<a, b>>
  <2>1. \A k \in 1 .. 2 : Append(<<a>>, b)[k] = <<a, b>>[k]
    BY <1>2
  <2> QED BY <2>1, <1>1, <1>2, SeqEqual, Zenon
<1>5. Append(<<a, b>>, c) = <<a, b, c>>
  <2>1. \A k \in 1 .. 3 : Append(<<a, b>>, c)[k] = <<a, b, c>>[k]
    BY <1>3
  <2> QED BY <2>1, <1>1, <1>3, SeqEqual, Zenon
<1> QED BY <1>4, <1>5

LEMMA Beginnings == ASSUME NEW a, NEW b, NEW c
  PROVE /\ SubSeq(<<a, b, c>>, 1, 1) = <<a>>
        /\ SubSeq(<<a, b, c>>, 1, 2) = <<a, b>>
        /\ SubSeq(<<a, b, c>>, 1, 3) = <<a, b, c>>
<1>1. /\ <<a>> \in Seq({a, b, c}) /\ <<a, b>> \in Seq({a, b, c}) /\ <<a, b, c>> \in Seq({a, b, c})
      /\ Len(<<a>>) = 1 /\ Len(<<a, b>>) = 2 /\ Len(<<a, b, c>>) = 3
  OBVIOUS
<1>2. \A m \in 1 .. 3 : /\ SubSeq(<<a, b, c>>, 1, m) \in Seq({a, b, c})
                        /\ Len(SubSeq(<<a, b, c>>, 1, m)) = m
                        /\ \A k \in 1 .. m : SubSeq(<<a, b, c>>, 1, m)[k] = <<a, b, c>>[k]
  BY <1>1
<1>3. /\ \A k \in 1 .. 1 : <<a>>[k] = <<a, b, c>>[k]
      /\ \A k \in 1 .. 2 : <<a, b>>[k] = <<a, b, c>>[k]
  OBVIOUS
<1>4. 1 \in 1 .. 3 /\ 2 \in 1 .. 3 /\ 3 \in 1 .. 3
  OBVIOUS
<1>5. SubSeq(<<a, b, c>>, 1, 1) = <<a>>
  <2>1. /\ SubSeq(<<a, b, c>>, 1, 1) \in Seq({a, b, c}) /\ Len(SubSeq(<<a, b, c>>, 1, 1)) = 1
        /\ \A k \in 1 .. 1 : SubSeq(<<a, b, c>>, 1, 1)[k] = <<a>>[k]
    BY <1>2, <1>3, <1>4
  <2> QED BY <1>1, <2>1, SeqEqual, Zenon
<1>6. SubSeq(<<a, b, c>>, 1, 2) = <<a, b>>
  <2>1. /\ SubSeq(<<a, b, c>>, 1, 2) \in Seq({a, b, c}) /\ Len(SubSeq(<<a, b, c>>, 1, 2)) = 2
        /\ \A k \in 1 .. 2 : SubSeq(<<a, b, c>>, 1, 2)[k] = <<a, b>>[k]
    BY <1>2, <1>3, <1>4
  <2> QED BY <1>1, <2>1, SeqEqual, Zenon
<1>7. SubSeq(<<a, b, c>>, 1, 3) = <<a, b, c>>
  <2>1. /\ SubSeq(<<a, b, c>>, 1, 3) \in Seq({a, b, c}) /\ Len(SubSeq(<<a, b, c>>, 1, 3)) = 3
        /\ \A k \in 1 .. 3 : SubSeq(<<a, b, c>>, 1, 3)[k] = <<a, b, c>>[k]
    BY <1>2, <1>3, <1>4
  <2> QED BY <1>1, <2>1, SeqEqual, Zenon
<1> QED BY <1>5, <1>6, <1>7

LEMMA OrderStep == OrderInv /\ (\E t \in Counters : Q4!Step(t)) => OrderInv'
<1> SUFFICES ASSUME OrderInv, NEW t \in Counters, Q4!Step(t) PROVE OrderInv'
  OBVIOUS
<1> USE NamesAssumption DEF OrderInv, Early, Late
<1>1. CASE Q4!LockCall(t)
  BY <1>1 DEF Q4!LockCall, Q4!Goto, Counters
<1>2. CASE Q4!AwaitTurn(t)
  BY <1>2 DEF Q4!AwaitTurn
<1>3. CASE Q4!Prints(t)
  <2>1. /\ printed' = Append(printed, t) /\ done' = done \cup Q4!Signals(t)
        /\ pc[t] = "body" /\ pc' = [pc EXCEPT ![t] = "unlock"] /\ Q4!Awaits(t) \subseteq done
    BY <1>3 DEF Q4!Prints, Q4!FlagSet, Q4!GoesOn, Q4!Goto
  <2>2. CASE t = t1
    BY <2>1, <2>2, Flags DEF Counters
  <2>3. CASE t = t2
    <3>1. /\ printed = <<t1>> /\ done = {cond0}
          /\ pc[t1] \in Late /\ pc[t2] \in Early /\ pc[t3] \in Early
      BY <2>1, <2>3, Flags
    <3>2. printed' = <<t1, t2>> /\ done' = {cond0, cond1}
      BY <2>1, <2>3, <3>1, Flags, OneMore
    <3> QED BY <2>1, <2>3, <3>1, <3>2 DEF Counters
  <2>4. CASE t = t3
    <3>1. /\ printed = <<t1, t2>> /\ done = {cond0, cond1}
          /\ pc[t1] \in Late /\ pc[t2] \in Late /\ pc[t3] \in Early
      BY <2>1, <2>4, Flags
    <3>2. printed' = <<t1, t2, t3>> /\ done' = {cond0, cond1}
      BY <2>1, <2>4, <3>1, Flags, OneMore
    <3> QED BY <2>1, <2>4, <3>1, <3>2 DEF Counters
  <2> QED BY <2>2, <2>3, <2>4 DEF Counters
<1>4. CASE Q4!Return(t)
  BY <1>4 DEF Q4!Return, Q4!Goto, Counters
<1>5. CASE Q4!MonitorStep(t)
  BY <1>5 DEF Q4!MonitorStep
<1> QED BY <1>1, <1>2, <1>3, <1>4, <1>5 DEF Q4!Step

LEMMA OrderInit == Q4!Init => OrderInv
BY DEF Q4!Init, Q4!Threads, OrderInv, Early, Late, Counters

(***************************************************************************)
(* smoke.c.                                                                 *)
(***************************************************************************)
SmokeSteps == {"start", "loop", "second", "third", "waiting", "returned"}
SmokePlaces == {"out", "lock", "lock_sleep", "writing", "wait_unlock", "wait_sleep"}

(* The condition a thread waits for: each has one of its own. *)
CondOf(t) == IF t = Smoke!agent THEN Smoke!smoke ELSE Smoke!Awaits(t)

(* What smoke.c makes of the monitor: no readers, and on a condition nobody but its thread,
   which no unlock wakes. *)
Locks == /\ at \in [Smoke!Threads -> SmokePlaces]
         /\ holder \in Smoke!Threads \cup {NoThread} /\ reader_count = 0
         /\ \A t \in Smoke!Threads : holder = t <=> at[t] \in {"writing", "wait_unlock"}
         /\ waiter_queue \in Seq(Smoke!Threads) /\ IsInjective(waiter_queue)
         /\ \A t \in Range(waiter_queue) : at[t] = "lock_sleep" /\ t \notin woken
         /\ reader_waiter_queue = <<>>
         /\ \A t \in woken : t \in Smoke!Threads /\ at[t] \in {"lock_sleep", "wait_sleep"}
         /\ cond_queue \in [Smoke!Conds -> Seq(Smoke!Threads)]
         /\ \A t \in Smoke!Threads : cond_queue[CondOf(t)] = <<>> \/ cond_queue[CondOf(t)] = <<t>>
         /\ \A t \in Smoke!Threads : cond_queue[CondOf(t)] # <<>> =>
              at[t] \in {"wait_unlock", "wait_sleep"} /\ t \notin woken

(* The handlers and the smokers that have been signalled and have not acted. *)
Called(t) == pc[t] = "waiting" /\ cond_queue[CondOf(t)] = <<>>
Pending == { r \in Smoke!Resources : Called(Smoke!Handler(r)) }
ToSmoke == { r \in Smoke!Resources : Called(Smoke!Smoker(r)) }

Total(counts) == counts[1] + counts[2] + counts[4]

(* Between two rounds nothing is available and nobody has been signalled. *)
BetweenRounds == /\ pc[Smoke!agent] \in {"start", "loop", "returned"}
                 /\ materials = 0 /\ Pending = {} /\ ToSmoke = {}
                 /\ signal_count = smoke_count /\ Total(smoke_count) = round

(* In the round of smoker x the agent has signalled handlers of the other two ... *)
Offered(x) == /\ pc[Smoke!agent] \in {"second", "third", "waiting"}
              /\ ToSmoke = {} /\ x \notin Pending
              /\ materials \in {0} \cup (Smoke!Resources \ (Pending \cup {x}))
              /\ pc[Smoke!agent] \in {"second", "third"} => materials = 0
              /\ pc[Smoke!agent] = "second" => second \in Smoke!Resources \ (Pending \cup {x})
              /\ pc[Smoke!agent] = "waiting" => cond_queue[Smoke!smoke] # <<>>
              /\ signal_count = [smoke_count EXCEPT ![x] = @ + 1] /\ Total(smoke_count) = round

(* ... these have signalled x, which will smoke ... *)
Passed(x) == /\ pc[Smoke!agent] = "waiting" /\ cond_queue[Smoke!smoke] # <<>>
             /\ materials = 0 /\ Pending = {} /\ ToSmoke = {x}
             /\ signal_count = [smoke_count EXCEPT ![x] = @ + 1] /\ Total(smoke_count) = round

(* ... and has smoked. *)
Smoked == /\ pc[Smoke!agent] = "waiting" /\ cond_queue[Smoke!smoke] = <<>>
          /\ materials = 0 /\ Pending = {} /\ ToSmoke = {}
          /\ signal_count = smoke_count /\ Total(smoke_count) = round + 1

(* Once the agent has found everybody ready, a worker that does not wait holds the mutex
   until it waits again. *)
Settled == (readyFirst = Smoke!Everybody /\ pc[Smoke!agent] # "start") =>
             \A t \in Smoke!Workers : pc[t] = "waiting" \/ (pc[t] = "loop" /\ at[t] = "writing")

Rounds == /\ pc \in [Smoke!Threads -> SmokeSteps]
          /\ smoke_count \in [Smoke!Resources -> Nat] /\ round \in Nat
          /\ \A t \in Smoke!Workers : cond_queue[CondOf(t)] # <<>> => pc[t] = "waiting"
          /\ \/ BetweenRounds \/ Smoked
             \/ \E x \in Smoke!Resources : Offered(x) \/ Passed(x)

(* From its first signal until it waits the agent keeps the mutex; it returns when all rounds
   are over. *)
Agency == /\ pc[Smoke!agent] \in {"second", "third"} => at[Smoke!agent] = "writing"
          /\ pc[Smoke!agent] = "returned" => round = NUM_ITERATIONS

SmokeInv == Locks /\ Rounds /\ Settled /\ Agency

LEMMA SmokeNames ==
  /\ \A r \in Smoke!Resources : /\ Smoke!Handler(r) \in Smoke!Workers
                                /\ Smoke!Smoker(r) \in Smoke!Workers
                                /\ CondOf(Smoke!Handler(r)) = Smoke!Available(r)
                                /\ CondOf(Smoke!Smoker(r)) = Smoke!Pair(r)
  /\ \A r, s \in Smoke!Resources : /\ Smoke!Handler(r) # Smoke!Smoker(s)
                                   /\ Smoke!Handler(r) = Smoke!Handler(s) => r = s
                                   /\ Smoke!Smoker(r) = Smoke!Smoker(s) => r = s
  /\ Smoke!agent \notin Smoke!Workers /\ CondOf(Smoke!agent) = Smoke!smoke
  /\ \A t \in Smoke!Workers : CondOf(t) = Smoke!Awaits(t)
  /\ \A t \in Smoke!Workers : \E r \in Smoke!Resources : t \in {Smoke!Handler(r), Smoke!Smoker(r)}
<1>1. \A r \in Smoke!Resources : /\ Smoke!Handler(r) \in Smoke!Workers
                                 /\ Smoke!Smoker(r) \in Smoke!Workers
  BY DEF Smoke!Handler, Smoke!Smoker, Smoke!Workers, Smoke!Resources
<1>2. Smoke!agent \notin Smoke!Workers
  BY DEF Smoke!agent, Smoke!Workers, Smoke!Resources
<1>3. \A r, s \in Smoke!Resources : /\ Smoke!Handler(r) # Smoke!Smoker(s)
                                    /\ Smoke!Handler(r) = Smoke!Handler(s) => r = s
                                    /\ Smoke!Smoker(r) = Smoke!Smoker(s) => r = s
  BY DEF Smoke!Handler, Smoke!Smoker
<1>4. \A t \in Smoke!Workers : CondOf(t) = Smoke!Awaits(t)
  BY <1>2 DEF CondOf
<1>5. \A r \in Smoke!Resources : /\ Smoke!Awaits(Smoke!Handler(r)) = Smoke!Available(r)
                                 /\ Smoke!Awaits(Smoke!Smoker(r)) = Smoke!Pair(r)
  BY DEF Smoke!Handler, Smoke!Smoker, Smoke!Awaits
<1>6. \A t \in Smoke!Workers : \E r \in Smoke!Resources : t \in {Smoke!Handler(r), Smoke!Smoker(r)}
  BY DEF Smoke!Workers, Smoke!Handler, Smoke!Smoker
<1> QED BY <1>1, <1>2, <1>3, <1>4, <1>5, <1>6 DEF CondOf

(* Nobody shares a condition. *)
LEMMA OwnCond ==
  /\ \A t \in Smoke!Threads : CondOf(t) \in Smoke!Conds
  /\ \A t, u \in Smoke!Threads : CondOf(t) = CondOf(u) => t = u
<1>1. \A r \in Smoke!Resources : Smoke!Available(r) \in Smoke!Conds /\ Smoke!Pair(r) \in Smoke!Conds
  BY DEF Smoke!Available, Smoke!Pair, Smoke!Conds
<1>2. Smoke!smoke \in Smoke!Conds
  BY DEF Smoke!Conds
<1>3. \A r, s \in Smoke!Resources : /\ Smoke!Available(r) # Smoke!Pair(s)
                                    /\ Smoke!Available(r) = Smoke!Available(s) => r = s
                                    /\ Smoke!Pair(r) = Smoke!Pair(s) => r = s
                                    /\ Smoke!smoke # Smoke!Available(r) /\ Smoke!smoke # Smoke!Pair(r)
  BY DEF Smoke!Available, Smoke!Pair, Smoke!smoke
<1>4. \A t \in Smoke!Threads : t = Smoke!agent \/ \E r \in Smoke!Resources : t \in {Smoke!Handler(r), Smoke!Smoker(r)}
  BY SmokeNames DEF Smoke!Threads
<1> QED BY <1>1, <1>2, <1>3, <1>4, SmokeNames

(* A signal to u takes it off its condition, if it waits there. *)
LEMMA SignalTo ==
  ASSUME Locks, NEW t \in Smoke!Threads, NEW u \in Smoke!Threads, at[t] = "writing",
         Smoke!Signal(t, CondOf(u))
  PROVE  Locks' /\ at' = at /\ cond_queue' = [cond_queue EXCEPT ![CondOf(u)] = <<>>]
<1>1. CASE cond_queue[CondOf(u)] = <<>>
  <2>1. UNCHANGED Smoke!monitor
    BY <1>1 DEF Smoke!Signal
  <2>2. cond_queue' = [cond_queue EXCEPT ![CondOf(u)] = <<>>]
    BY <1>1, <2>1, OwnCond DEF Smoke!monitor, Locks
  <2> QED BY <2>1, <2>2 DEF Smoke!monitor, Locks
<1>2. CASE cond_queue[CondOf(u)] # <<>>
  <2>1. cond_queue[CondOf(u)] = <<u>> /\ CondOf(u) \in Smoke!Conds
    BY <1>2, OwnCond DEF Locks
  <2>2. Head(<<u>>) = u /\ Tail(<<u>>) = <<>>
    OBVIOUS
  <2>3. /\ cond_queue' = [cond_queue EXCEPT ![CondOf(u)] = <<>>]
        /\ woken' = woken \cup {u}
        /\ UNCHANGED <<holder, reader_count, waiter_queue, reader_waiter_queue, at>>
    BY <1>2, <2>1, <2>2 DEF Smoke!Signal, Smoke!M!CondSignal, Smoke!M!SignalLeaves
  <2>4. at[u] = "wait_sleep"
    BY <1>2 DEF Locks
  <2>5. \A v \in Smoke!Threads :
          /\ v = u => cond_queue'[CondOf(v)] = <<>>
          /\ v # u => cond_queue'[CondOf(v)] = cond_queue[CondOf(v)]
    BY <2>1, <2>3, OwnCond DEF Locks
  <2>6. \A v \in Smoke!Threads : cond_queue'[CondOf(v)] = <<>> \/ cond_queue'[CondOf(v)] = <<v>>
    BY <2>5 DEF Locks
  <2>7. \A v \in Smoke!Threads : cond_queue'[CondOf(v)] # <<>> =>
          at'[v] \in {"wait_unlock", "wait_sleep"} /\ v \notin woken'
    BY <2>5, <2>3 DEF Locks
  <2>8. \A v \in Range(waiter_queue) : at[v] = "lock_sleep" /\ v \notin woken'
    BY <2>3, <2>4 DEF Locks
  <2>9. \A v \in woken' : v \in Smoke!Threads /\ at[v] \in {"lock_sleep", "wait_sleep"}
    BY <2>3, <2>4 DEF Locks
  <2>10. cond_queue' \in [Smoke!Conds -> Seq(Smoke!Threads)]
    <3>1. <<>> \in Seq(Smoke!Threads)
      OBVIOUS
    <3> QED BY <2>3, <3>1 DEF Locks
  <2> QED BY <2>3, <2>6, <2>7, <2>8, <2>9, <2>10 DEF Locks
<1> QED BY <1>1, <1>2

(* A thread that waits is on its condition, alone. *)
LEMMA WaitsOn ==
  ASSUME Locks, NEW t \in Smoke!Threads, Smoke!M!CondWait(t, CondOf(t))
  PROVE  /\ Locks' /\ at[t] = "writing" /\ at' = [at EXCEPT ![t] = "wait_unlock"]
         /\ cond_queue' = [cond_queue EXCEPT ![CondOf(t)] = <<t>>]
<1>1. /\ at[t] = "writing" /\ at' = [at EXCEPT ![t] = "wait_unlock"]
      /\ cond_queue' = [cond_queue EXCEPT ![CondOf(t)] = Smoke!M!Enqueue(@, t)]
      /\ UNCHANGED <<holder, reader_count, waiter_queue, reader_waiter_queue, woken>>
  BY DEF Smoke!M!CondWait, Smoke!M!Goto
<1>2. cond_queue[CondOf(t)] = <<>> /\ CondOf(t) \in Smoke!Conds
  BY <1>1, OwnCond DEF Locks
<1>3. Smoke!M!Enqueue(<<>>, t) = <<t>>
  <2>1. Smoke!M!Range(<<>>) = {} /\ Append(<<>>, t) = <<t>>
    BY DEF Smoke!M!Range
  <2> QED BY <2>1 DEF Smoke!M!Enqueue
<1>4. cond_queue' = [cond_queue EXCEPT ![CondOf(t)] = <<t>>]
  BY <1>1, <1>2, <1>3
<1>5. t \notin woken /\ t \notin Range(waiter_queue)
  BY <1>1 DEF Locks
<1>6. \A v \in Smoke!Threads :
        /\ v = t => cond_queue'[CondOf(v)] = <<v>> /\ at'[v] = "wait_unlock"
        /\ v # t => cond_queue'[CondOf(v)] = cond_queue[CondOf(v)] /\ at'[v] = at[v]
  BY <1>1, <1>2, <1>4, OwnCond DEF Locks
<1>7. \A v \in Smoke!Threads : cond_queue'[CondOf(v)] = <<>> \/ cond_queue'[CondOf(v)] = <<v>>
  BY <1>6 DEF Locks
<1>8. \A v \in Smoke!Threads : cond_queue'[CondOf(v)] # <<>> =>
        at'[v] \in {"wait_unlock", "wait_sleep"} /\ v \notin woken'
  BY <1>1, <1>5, <1>6 DEF Locks
<1>9. \A v \in Range(waiter_queue) : v \in Smoke!Threads
  BY EmptyRange DEF Locks
<1>10. \A v \in Smoke!Threads : holder' = v <=> at'[v] \in {"writing", "wait_unlock"}
  BY <1>1, <1>6 DEF Locks
<1>11. \A v \in woken' : v \in Smoke!Threads /\ at'[v] \in {"lock_sleep", "wait_sleep"}
  BY <1>1, <1>5, <1>6 DEF Locks
<1>12. \A v \in Range(waiter_queue') : at'[v] = "lock_sleep" /\ v \notin woken'
  BY <1>1, <1>5, <1>6, <1>9 DEF Locks
<1>13. at' \in [Smoke!Threads -> SmokePlaces] /\ cond_queue' \in [Smoke!Conds -> Seq(Smoke!Threads)]
  <2>1. <<t>> \in Seq(Smoke!Threads)
    OBVIOUS
  <2> QED BY <1>1, <1>4, <2>1 DEF Locks, SmokePlaces
<1>14. /\ holder' \in Smoke!Threads \cup {NoThread} /\ reader_count' = 0
       /\ waiter_queue' \in Seq(Smoke!Threads) /\ IsInjective(waiter_queue')
       /\ reader_waiter_queue' = <<>>
  BY <1>1 DEF Locks
<1> QED BY <1>1, <1>4, <1>7, <1>8, <1>10, <1>11, <1>12, <1>13, <1>14 DEF Locks

(* An unlock wakes a thread that sleeps at the mutex, or nobody. *)
LEMMA UnlockKeeps ==
  ASSUME Locks, NEW t \in Smoke!Threads, at[t] \in {"writing", "wait_unlock"}, Smoke!M!MutexUnlock
  PROVE  /\ holder = t /\ holder' = NoThread /\ reader_count' = 0 /\ reader_waiter_queue' = <<>>
         /\ waiter_queue' \in Seq(Smoke!Threads) /\ IsInjective(waiter_queue')
         /\ \A u \in Range(waiter_queue') : at[u] = "lock_sleep" /\ u \notin woken'
         /\ \A u \in woken' : u \in woken \/ (u \in Smoke!Threads /\ at[u] = "lock_sleep")
<1>1. holder = t /\ t # NoThread
  BY NoThreadAssumption DEF Locks
<1>2. /\ holder' = NoThread /\ reader_count' = 0 /\ Smoke!M!LastOut /\ Smoke!M!WakeNext
  BY <1>1 DEF Smoke!M!MutexUnlock, Smoke!M!ReadersLeft, Smoke!M!LastOut, Locks
<1>3. CASE waiter_queue # <<>>
  <2>1. /\ waiter_queue' = Tail(waiter_queue) /\ woken' = woken \cup {Head(waiter_queue)}
        /\ reader_waiter_queue' = <<>>
    BY <1>2, <1>3 DEF Smoke!M!WakeNext, Locks
  <2>2. /\ Tail(waiter_queue) \in Seq(Smoke!Threads)
        /\ Head(waiter_queue) \in Smoke!Threads
        /\ Head(waiter_queue) \in Range(waiter_queue)
        /\ Range(Tail(waiter_queue)) = Range(waiter_queue) \ {Head(waiter_queue)}
        /\ IsInjective(Tail(waiter_queue))
    BY <1>3, TailRest DEF Locks
  <2> QED BY <1>1, <1>2, <2>1, <2>2 DEF Locks
<1>4. CASE waiter_queue = <<>>
  <2>1. Smoke!M!Range(<<>>) = {}
    BY DEF Smoke!M!Range
  <2>2. /\ waiter_queue' = waiter_queue /\ woken' = woken /\ reader_waiter_queue' = <<>>
    BY <1>2, <1>4, <2>1 DEF Smoke!M!WakeNext, Locks
  <2> QED BY <1>1, <1>2, <2>2 DEF Locks
<1> QED BY <1>3, <1>4

LEMMA UnlockedLocks ==
  ASSUME Locks, NEW t \in Smoke!Threads, at[t] \in {"writing", "wait_unlock"}, Smoke!M!MutexUnlock,
         UNCHANGED cond_queue, NEW l \in {"out", "wait_sleep"},
         at' = [at EXCEPT ![t] = l], l = "wait_sleep" <=> at[t] = "wait_unlock"
  PROVE  Locks'
<1>1. /\ holder = t /\ holder' = NoThread /\ reader_count' = 0 /\ reader_waiter_queue' = <<>>
      /\ waiter_queue' \in Seq(Smoke!Threads) /\ IsInjective(waiter_queue')
      /\ \A u \in Range(waiter_queue') : at[u] = "lock_sleep" /\ u \notin woken'
      /\ \A u \in woken' : u \in woken \/ (u \in Smoke!Threads /\ at[u] = "lock_sleep")
  BY UnlockKeeps
<1>2. \A u \in Range(waiter_queue') : u \in Smoke!Threads /\ u # t
  BY <1>1, EmptyRange
<1>3. \A u \in woken' : u \in Smoke!Threads /\ u # t /\ at'[u] \in {"lock_sleep", "wait_sleep"}
  BY <1>1 DEF Locks
<1>4. \A u \in Smoke!Threads : holder' = u <=> at'[u] \in {"writing", "wait_unlock"}
  BY <1>1, NoThreadAssumption DEF Locks
<1>5. \A u \in Smoke!Threads : cond_queue'[CondOf(u)] # <<>> =>
        at'[u] \in {"wait_unlock", "wait_sleep"} /\ u \notin woken'
  BY <1>1, <1>3 DEF Locks
<1>6. at' \in [Smoke!Threads -> SmokePlaces]
  BY DEF Locks, SmokePlaces
<1>7. \A u \in Range(waiter_queue') : at'[u] = "lock_sleep" /\ u \notin woken'
  BY <1>1, <1>2 DEF Locks
<1> QED BY <1>1, <1>3, <1>4, <1>5, <1>6, <1>7 DEF Locks

LEMMA CallLocks ==
  ASSUME Locks, NEW t \in Smoke!Threads, Smoke!M!Call(t), at'[t] = "lock"
  PROVE  Locks' /\ UNCHANGED cond_queue /\ at' = [at EXCEPT ![t] = "lock"]
<1>1. /\ at' = [at EXCEPT ![t] = "lock"] /\ at[t] = "out"
      /\ UNCHANGED <<holder, reader_count, waiter_queue, reader_waiter_queue, cond_queue, woken>>
  BY DEF Smoke!M!Call, Smoke!M!Goto, Smoke!M!queues, Locks
<1>2. \A u \in Range(waiter_queue) : u \in Smoke!Threads /\ u # t
  BY <1>1, EmptyRange DEF Locks
<1> QED BY <1>1, <1>2 DEF Locks, SmokePlaces

(* What the mutex does on its own leaves the conditions as they are, and moves nobody who
   is inside the mutex. *)
LEMMA MonitorLocks ==
  ASSUME Locks, NEW t \in Smoke!Threads,
         Smoke!M!Lock(t) \/ Smoke!M!Resume(t) \/ Smoke!M!CondWaitUnlock(t)
  PROVE  /\ Locks' /\ UNCHANGED cond_queue
         /\ \A u \in Smoke!Threads : at[u] = "writing" => at'[u] = "writing"
<1>1. CASE Smoke!M!Lock(t) /\ Smoke!M!LockBusy
  <2>1. t \notin Range(waiter_queue) /\ t \notin woken /\ at[t] = "lock"
    BY <1>1 DEF Smoke!M!Lock, Locks
  <2>2. /\ waiter_queue' = Append(waiter_queue, t) /\ at' = [at EXCEPT ![t] = "lock_sleep"]
        /\ UNCHANGED <<holder, reader_count, reader_waiter_queue, cond_queue, woken>>
    BY <1>1, <2>1 DEF Smoke!M!Lock, Smoke!M!Enqueue, Smoke!M!Goto, Smoke!M!Range, Range
  <2>3. /\ Append(waiter_queue, t) \in Seq(Smoke!Threads)
        /\ Range(Append(waiter_queue, t)) = Range(waiter_queue) \cup {t}
        /\ IsInjective(Append(waiter_queue, t))
    BY <2>1, AppendNew DEF Locks
  <2>4. Range(waiter_queue) \subseteq Smoke!Threads
    BY EmptyRange DEF Locks
  <2>5. \A u \in Range(waiter_queue') : at'[u] = "lock_sleep" /\ u \notin woken'
    BY <2>1, <2>2, <2>3, <2>4 DEF Locks
  <2> QED BY <2>1, <2>2, <2>3, <2>5 DEF Locks, SmokePlaces
<1>2. CASE Smoke!M!Lock(t) /\ ~Smoke!M!LockBusy
  <2>1. /\ holder' = t /\ at' = [at EXCEPT ![t] = "writing"] /\ at[t] = "lock" /\ holder = NoThread
        /\ UNCHANGED <<reader_count, waiter_queue, reader_waiter_queue, cond_queue, woken>>
    BY <1>2 DEF Smoke!M!Lock, Smoke!M!LockBusy, Smoke!M!Goto
  <2>2. Range(waiter_queue) \subseteq Smoke!Threads
    BY EmptyRange DEF Locks
  <2>3. \A u \in Smoke!Threads : holder' = u <=> at'[u] \in {"writing", "wait_unlock"}
    BY <2>1, NoThreadAssumption DEF Locks
  <2> QED BY <2>1, <2>2, <2>3 DEF Locks, SmokePlaces
<1>3. CASE Smoke!M!Resume(t)
  <2>1. /\ at' = [at EXCEPT ![t] = "lock"] /\ woken' = woken \ {t} /\ t \in woken
        /\ UNCHANGED <<holder, reader_count, waiter_queue, reader_waiter_queue, cond_queue>>
    BY <1>3 DEF Smoke!M!Resume, Smoke!M!Goto, Smoke!M!queues, Locks
  <2>2. Range(waiter_queue) \subseteq Smoke!Threads
    BY EmptyRange DEF Locks
  <2> QED BY <2>1, <2>2 DEF Locks, SmokePlaces
<1>4. CASE Smoke!M!CondWaitUnlock(t)
  <2>1. /\ at[t] = "wait_unlock" /\ Smoke!M!MutexUnlock /\ at' = [at EXCEPT ![t] = "wait_sleep"]
        /\ UNCHANGED cond_queue
    BY <1>4 DEF Smoke!M!CondWaitUnlock, Smoke!M!Goto
  <2>2. Locks'
    BY <2>1, UnlockedLocks
  <2> QED BY <2>1, <2>2 DEF Locks
<1> QED BY <1>1, <1>2, <1>3, <1>4

(***************************************************************************)
(* The rounds.                                                              *)
(***************************************************************************)

(* Whom a step calls, when it changes the conditions and the place of one thread. *)
LEMMA CalledAfter ==
  ASSUME NEW t \in Smoke!Threads, NEW l, pc' = [pc EXCEPT ![t] = l], pc \in [Smoke!Threads -> SmokeSteps],
         NEW u \in Smoke!Threads, NEW q, cond_queue \in [Smoke!Conds -> Seq(Smoke!Threads)],
         cond_queue' = [cond_queue EXCEPT ![CondOf(u)] = q]
  PROVE  /\ \A v \in Smoke!Threads :
              Called(v)' <=> /\ IF v = t THEN l = "waiting" ELSE pc[v] = "waiting"
                             /\ IF v = u THEN q = <<>> ELSE cond_queue[CondOf(v)] = <<>>
<1> USE OwnCond
<1> QED BY DEF Called

LEMMA CalledSame ==
  ASSUME UNCHANGED <<pc, cond_queue>>
  PROVE  Pending' = Pending /\ ToSmoke' = ToSmoke
BY DEF Pending, ToSmoke, Called

LEMMA RoundsSame ==
  ASSUME Rounds, UNCHANGED <<pc, cond_queue, materials, signal_count, smoke_count, round, second>>
  PROVE  Rounds'
BY CalledSame DEF Rounds, BetweenRounds, Offered, Passed, Smoked

LEMMA SmokeMonitorStep ==
  ASSUME SmokeInv, NEW t \in Smoke!Threads, Smoke!MonitorStep(t), UNCHANGED readyFirst
  PROVE  SmokeInv'
<1>1. /\ Locks' /\ UNCHANGED cond_queue
      /\ \A u \in Smoke!Threads : at[u] = "writing" => at'[u] = "writing"
      /\ UNCHANGED <<materials, num_active_threads, signal_count, smoke_count, round, second, pc>>
  BY MonitorLocks DEF Smoke!MonitorStep, Smoke!counts, SmokeInv
<1>2. Rounds'
  BY <1>1, RoundsSame DEF SmokeInv
<1>3. Settled' /\ Agency'
  BY <1>1 DEF SmokeInv, Settled, Agency, Smoke!Threads
<1> QED BY <1>1, <1>2, <1>3 DEF SmokeInv

LEMMA SmokeCountThreads ==
  ASSUME SmokeInv, Smoke!CountThreads, UNCHANGED readyFirst
  PROVE  SmokeInv'
<1>1. /\ UNCHANGED <<materials, signal_count, smoke_count, round, second, pc, readyFirst>>
      /\ UNCHANGED <<holder, reader_count, waiter_queue, reader_waiter_queue, cond_queue, woken, at>>
  BY DEF Smoke!CountThreads, Smoke!monitor
<1>2. Rounds'
  BY <1>1, RoundsSame DEF SmokeInv
<1> QED BY <1>1, <1>2 DEF SmokeInv, Locks, Settled, Agency

LEMMA SmokeStart ==
  ASSUME SmokeInv, NEW t \in Smoke!Threads, Smoke!Start(t), UNCHANGED readyFirst
  PROVE  SmokeInv'
<1>1. /\ pc[t] = "start" /\ pc' = [pc EXCEPT ![t] = "loop"] /\ at' = [at EXCEPT ![t] = "lock"]
      /\ Locks' /\ UNCHANGED cond_queue
      /\ UNCHANGED <<materials, num_active_threads, signal_count, smoke_count, round, second>>
      /\ at \in [Smoke!Threads -> SmokePlaces] /\ at[t] # "writing"
  BY CallLocks DEF Smoke!Start, Smoke!Goto, Smoke!counts, Smoke!M!Call, SmokeInv, Locks
<1>2. \A u \in Smoke!Threads : Called(u)' <=> Called(u)
  BY <1>1 DEF Called, SmokeInv, Rounds
<1>3. Pending' = Pending /\ ToSmoke' = ToSmoke
  BY <1>2, SmokeNames DEF Pending, ToSmoke, Smoke!Threads
<1>4. Rounds'
  <2>1. pc' \in [Smoke!Threads -> SmokeSteps]
    BY <1>1 DEF SmokeInv, Rounds, SmokeSteps
  <2>2. \A u \in Smoke!Workers : cond_queue'[CondOf(u)] # <<>> => pc'[u] = "waiting"
    BY <1>1 DEF SmokeInv, Rounds, Smoke!Threads
  <2>3. CASE t = Smoke!agent
    <3>1. BetweenRounds
      BY <1>1, <2>3 DEF SmokeInv, Rounds, Offered, Passed, Smoked
    <3>2. BetweenRounds'
      BY <1>1, <1>3, <2>3, <3>1 DEF BetweenRounds, SmokeInv, Rounds
    <3> QED BY <1>1, <2>1, <2>2, <3>2 DEF SmokeInv, Rounds
  <2>4. CASE t # Smoke!agent
    <3>1. pc'[Smoke!agent] = pc[Smoke!agent]
      BY <1>1, <2>4 DEF SmokeInv, Rounds
    <3> QED BY <1>1, <1>3, <2>1, <2>2, <3>1
            DEF SmokeInv, Rounds, BetweenRounds, Offered, Passed, Smoked
  <2> QED BY <2>3, <2>4
<1>5. Agency'
  BY <1>1 DEF SmokeInv, Rounds, Agency, Smoke!Threads
<1>6. Settled'
  <2>1. CASE t = Smoke!agent
    <3>1. SUFFICES ASSUME readyFirst = Smoke!Everybody, NEW u \in Smoke!Workers
                   PROVE  pc'[u] = "waiting"
      BY DEF Settled
    <3>2. Smoke!Ready(u) /\ u # Smoke!main
      <4>1. u # Smoke!main
        BY DEF Smoke!main, Smoke!Workers, Smoke!Resources
      <4> QED BY <2>1, <3>1, <4>1 DEF Smoke!Start, Smoke!Everybody
    <3>3. cond_queue[CondOf(u)] = <<u>> /\ <<u>> # <<>>
      BY <3>2, SmokeNames DEF Smoke!Ready
    <3>4. pc[u] = "waiting"
      BY <3>3 DEF SmokeInv, Rounds
    <3> QED BY <1>1, <2>1, <3>4, SmokeNames DEF SmokeInv, Rounds, Smoke!Threads
  <2>2. CASE t # Smoke!agent
    BY <1>1, <2>2 DEF SmokeInv, Rounds, Settled, Smoke!Threads
  <2> QED BY <2>1, <2>2
<1> QED BY <1>1, <1>4, <1>5, <1>6 DEF SmokeInv

LEMMA SmokeWorkerWaits ==
  ASSUME SmokeInv, NEW t \in Smoke!Workers, Smoke!WorkerWaits(t), UNCHANGED readyFirst
  PROVE  SmokeInv'
<1>1. /\ pc[t] = "loop" /\ pc' = [pc EXCEPT ![t] = "waiting"] /\ at[t] = "writing"
      /\ at' = [at EXCEPT ![t] = "wait_unlock"] /\ Locks'
      /\ cond_queue' = [cond_queue EXCEPT ![CondOf(t)] = <<t>>]
      /\ UNCHANGED <<materials, num_active_threads, signal_count, smoke_count, round, second>>
      /\ t \in Smoke!Threads /\ t # Smoke!agent
  BY WaitsOn, SmokeNames
     DEF Smoke!WorkerWaits, Smoke!Goto, Smoke!Holds, Smoke!counts, SmokeInv, Smoke!Threads
<1>2. /\ pc \in [Smoke!Threads -> SmokeSteps] /\ at \in [Smoke!Threads -> SmokePlaces]
      /\ cond_queue \in [Smoke!Conds -> Seq(Smoke!Threads)] /\ <<t>> # <<>>
  <2>1. /\ pc \in [Smoke!Threads -> SmokeSteps]
        /\ at \in [Smoke!Threads -> SmokePlaces]
        /\ cond_queue \in [Smoke!Conds -> Seq(Smoke!Threads)]
    BY DEF SmokeInv, Rounds, Locks
  <2>3. <<t>> # <<>>
    OBVIOUS
  <2> QED BY <2>1, <2>3
<1>3. \A u \in Smoke!Threads : Called(u)' <=> Called(u)
  <2>1. \A u \in Smoke!Threads :
          Called(u)' <=> /\ IF u = t THEN "waiting" = "waiting" ELSE pc[u] = "waiting"
                         /\ IF u = t THEN <<t>> = <<>> ELSE cond_queue[CondOf(u)] = <<>>
    BY <1>1, <1>2, CalledAfter
  <2> QED BY <1>1, <1>2, <2>1 DEF Called
<1>4. Pending' = Pending /\ ToSmoke' = ToSmoke
  BY <1>3, SmokeNames DEF Pending, ToSmoke, Smoke!Threads
<1>5. /\ pc'[Smoke!agent] = pc[Smoke!agent]
      /\ cond_queue'[Smoke!smoke] = cond_queue[Smoke!smoke]
      /\ at'[Smoke!agent] = at[Smoke!agent]
  BY <1>1, <1>2, OwnCond, SmokeNames DEF Smoke!Threads
<1>6. \A u \in Smoke!Workers : cond_queue'[CondOf(u)] # <<>> => pc'[u] = "waiting"
  <2> SUFFICES ASSUME NEW u \in Smoke!Workers, cond_queue'[CondOf(u)] # <<>> PROVE pc'[u] = "waiting"
    OBVIOUS
  <2>1. CASE u = t
    BY <1>1, <1>2, <2>1
  <2>2. CASE u # t
    <3>1. cond_queue'[CondOf(u)] = cond_queue[CondOf(u)]
      BY <1>1, <1>2, <2>2, OwnCond DEF Smoke!Threads
    <3> QED BY <1>1, <1>2, <2>2, <3>1 DEF SmokeInv, Rounds, Smoke!Threads
  <2> QED BY <2>1, <2>2
<1>7. Rounds'
  <2>1. pc' \in [Smoke!Threads -> SmokeSteps]
    BY <1>1 DEF SmokeInv, Rounds, SmokeSteps
  <2> QED BY <1>1, <1>4, <1>5, <1>6, <2>1 DEF SmokeInv, Rounds, BetweenRounds, Offered, Passed, Smoked
<1>8. Settled' /\ Agency'
  BY <1>1, <1>2, <1>5 DEF SmokeInv, Settled, Agency, Smoke!Threads
<1> QED BY <1>1, <1>7, <1>8 DEF SmokeInv

(* A worker in the mutex means that the agent is not, and that the worker was called. *)
LEMMA Acting ==
  ASSUME SmokeInv, NEW t \in Smoke!Workers, Smoke!Holds(t, "waiting")
  PROVE  /\ Called(t) /\ t \in Smoke!Threads /\ t # Smoke!agent /\ at[Smoke!agent] # "writing"
         /\ pc[t] = "waiting" /\ at[t] = "writing"
         /\ pc[Smoke!agent] \notin {"second", "third"}
<1>1. t \in Smoke!Threads /\ t # Smoke!agent /\ Smoke!agent \in Smoke!Threads
  BY SmokeNames DEF Smoke!Threads
<1> QED BY <1>1 DEF Smoke!Holds, Called, SmokeInv, Locks, Agency

LEMMA ThreeResources ==
  /\ \A r \in Smoke!Resources : Smoke!SmokersPair(0 + r) \notin Smoke!Resources
  /\ \A r, m, x \in Smoke!Resources :
       m # r /\ x \notin {r, m} => Smoke!SmokersPair(m + r) = x
  /\ 0 \notin Smoke!Resources
  /\ \A r, s \in Smoke!Resources :
       s # r => /\ Smoke!AllResources - r - s \in Smoke!Resources \ {r, s}
                /\ \A p \in Smoke!Resources : p \in {r, s, Smoke!AllResources - r - s}
BY DEF Smoke!Resources, Smoke!SmokersPair, Smoke!AllResources

LEMMA SmokeHandle ==
  ASSUME SmokeInv, NEW r \in Smoke!Resources, Smoke!Handle(r), UNCHANGED readyFirst
  PROVE  SmokeInv'
<1> DEFINE h == Smoke!Handler(r)
<1>1. /\ h \in Smoke!Workers /\ h \in Smoke!Threads /\ h # Smoke!agent
      /\ Called(h) /\ pc[h] = "waiting" /\ at[h] = "writing"
      /\ pc[Smoke!agent] \notin {"second", "third"}
  BY SmokeNames, Acting DEF Smoke!Handle, Smoke!Threads
<1>2. r \in Pending
  BY <1>1 DEF Pending
<1>3. PICK x \in Smoke!Resources : Offered(x)
  BY <1>2 DEF SmokeInv, Rounds, BetweenRounds, Smoked, Passed
<1>4. /\ pc' = [pc EXCEPT ![h] = "loop"]
      /\ UNCHANGED <<num_active_threads, signal_count, smoke_count, round, second>>
  BY DEF Smoke!Handle, Smoke!Goto
<1>5. /\ pc \in [Smoke!Threads -> SmokeSteps]
      /\ cond_queue \in [Smoke!Conds -> Seq(Smoke!Threads)]
      /\ pc[Smoke!agent] = "waiting" /\ x # r /\ ToSmoke = {} /\ x \notin Pending
      /\ \A u \in Smoke!Threads : pc'[u] = IF u = h THEN "loop" ELSE pc[u]
      /\ Smoke!agent \in Smoke!Threads
  <2>1. /\ pc \in [Smoke!Threads -> SmokeSteps]
        /\ cond_queue \in [Smoke!Conds -> Seq(Smoke!Threads)]
    BY DEF SmokeInv, Rounds, Locks
  <2>3. pc[Smoke!agent] = "waiting" /\ x # r /\ ToSmoke = {} /\ x \notin Pending
    BY <1>1, <1>2, <1>3 DEF Offered
  <2>4. \A u \in Smoke!Threads : pc'[u] = IF u = h THEN "loop" ELSE pc[u]
    BY <1>1, <1>4, <2>1
  <2>5. Smoke!agent \in Smoke!Threads
    BY DEF Smoke!Threads
  <2> QED BY <2>1, <2>3, <2>4, <2>5
<1>6. \/ /\ materials = 0 /\ materials' = r
         /\ UNCHANGED Smoke!monitor
      \/ /\ materials \in Smoke!Resources \ (Pending \cup {x}) /\ materials' = 0
         /\ Smoke!Signal(h, CondOf(Smoke!Smoker(x)))
  <2>1. CASE materials = 0
    <3>1. Smoke!SmokersPair(materials + r) \notin Smoke!Resources /\ materials + r = r
      BY <2>1, ThreeResources DEF Smoke!Resources
    <3> QED BY <2>1, <3>1 DEF Smoke!Handle
  <2>2. CASE materials # 0
    <3>1. materials \in Smoke!Resources \ (Pending \cup {x})
      BY <1>3, <2>2 DEF Offered
    <3>2. Smoke!SmokersPair(materials + r) = x
      BY <1>2, <1>5, <3>1, ThreeResources
    <3> QED BY <3>1, <3>2, SmokeNames DEF Smoke!Handle, Smoke!UsedUp
  <2> QED BY <2>1, <2>2
<1>7. CASE materials = 0 /\ materials' = r /\ UNCHANGED Smoke!monitor
  <2>1. UNCHANGED <<holder, reader_count, waiter_queue, reader_waiter_queue, cond_queue, woken, at>>
    BY <1>7 DEF Smoke!monitor
  <2>2. \A u \in Smoke!Threads : Called(u)' <=> Called(u) /\ u # h
    BY <1>5, <2>1 DEF Called
  <2>3. Pending' = Pending \ {r} /\ ToSmoke' = {}
    BY <1>5, <2>2, SmokeNames DEF Pending, ToSmoke, Smoke!Threads
  <2>4. Offered(x)'
    <3>1. pc'[Smoke!agent] = "waiting"
      BY <1>1, <1>5
    <3>2. cond_queue'[Smoke!smoke] # <<>>
      BY <1>3, <1>5, <2>1 DEF Offered
    <3>3. materials' \in Smoke!Resources \ (Pending' \cup {x})
      BY <1>5, <1>7, <2>3
    <3> QED BY <1>3, <1>4, <1>5, <2>3, <3>1, <3>2, <3>3 DEF Offered
  <2>5. \A u \in Smoke!Workers : cond_queue'[CondOf(u)] # <<>> => pc'[u] = "waiting"
    BY <1>1, <1>5, <2>1 DEF SmokeInv, Rounds, Called, Smoke!Threads
  <2>6. Rounds'
    BY <1>4, <1>5, <2>4, <2>5 DEF SmokeInv, Rounds, SmokeSteps
  <2>7. Settled' /\ Agency'
    BY <1>1, <1>4, <1>5, <2>1 DEF SmokeInv, Settled, Agency, Smoke!Threads
  <2> QED BY <2>1, <2>6, <2>7 DEF SmokeInv, Locks
<1>8. CASE /\ materials \in Smoke!Resources \ (Pending \cup {x}) /\ materials' = 0
           /\ Smoke!Signal(h, CondOf(Smoke!Smoker(x)))
  <2> DEFINE s == Smoke!Smoker(x)
  <2>1. s \in Smoke!Workers /\ s \in Smoke!Threads /\ s # h /\ s # Smoke!agent
    BY SmokeNames DEF Smoke!Threads
  <2>2. /\ Locks' /\ at' = at /\ cond_queue' = [cond_queue EXCEPT ![CondOf(s)] = <<>>]
    BY <1>1, <1>8, <2>1, SignalTo DEF SmokeInv
  <2>3. \A u \in Smoke!Threads :
          Called(u)' <=> /\ IF u = h THEN "loop" = "waiting" ELSE pc[u] = "waiting"
                         /\ IF u = s THEN <<>> = <<>> ELSE cond_queue[CondOf(u)] = <<>>
    BY <1>1, <1>4, <1>5, <2>1, <2>2, CalledAfter
  <2>4. Pending' = {}
    <3>1. \A p \in Smoke!Resources : p \in Pending' <=> p \in Pending /\ p # r
      BY <2>1, <2>3, SmokeNames DEF Pending, Called, Smoke!Threads
    <3>2. \A p \in Smoke!Resources : p \in {r, materials, x}
      BY <1>2, <1>5, <1>8 DEF Smoke!Resources
    <3>3. Pending' \subseteq Smoke!Resources
      BY DEF Pending
    <3> QED BY <1>5, <1>8, <3>1, <3>2, <3>3
  <2>5. ToSmoke' = IF pc[s] = "waiting" THEN {x} ELSE {}
    <3>1. \A p \in Smoke!Resources : p \in ToSmoke' <=> p \in ToSmoke \/ (p = x /\ pc[s] = "waiting")
      BY <2>1, <2>3, SmokeNames DEF ToSmoke, Called, Smoke!Threads
    <3>2. ToSmoke' \subseteq Smoke!Resources
      BY DEF ToSmoke
    <3> QED BY <1>5, <3>1, <3>2
  <2>6. pc'[Smoke!agent] = "waiting" /\ cond_queue'[Smoke!smoke] # <<>>
    <3>1. cond_queue[Smoke!smoke] # <<>>
      BY <1>3, <1>5 DEF Offered
    <3>2. CondOf(s) # Smoke!smoke
      BY <1>5, <2>1, OwnCond, SmokeNames
    <3> QED BY <1>1, <1>5, <2>2, <3>1, <3>2
  <2>7. Offered(x)' \/ Passed(x)'
    BY <1>3, <1>4, <1>8, <2>4, <2>5, <2>6 DEF Offered, Passed
  <2>8. \A u \in Smoke!Workers : cond_queue'[CondOf(u)] # <<>> => pc'[u] = "waiting"
    <3>1. \A u \in Smoke!Workers : cond_queue'[CondOf(u)] # <<>> => cond_queue[CondOf(u)] # <<>>
      BY <1>5, <2>1, <2>2, OwnCond DEF Smoke!Threads
    <3> QED BY <1>1, <1>5, <3>1 DEF SmokeInv, Rounds, Called, Smoke!Threads
  <2>9. Rounds'
    <3>1. pc' \in [Smoke!Threads -> SmokeSteps]
      BY <1>4, <1>5 DEF SmokeSteps
    <3> QED BY <1>4, <2>7, <2>8, <3>1 DEF SmokeInv, Rounds
  <2>10. Settled' /\ Agency'
    BY <1>1, <1>4, <1>5, <2>2 DEF SmokeInv, Settled, Agency, Smoke!Threads
  <2> QED BY <2>2, <2>9, <2>10 DEF SmokeInv
<1> QED BY <1>6, <1>7, <1>8

LEMMA SmokeSmokes ==
  ASSUME SmokeInv, NEW r \in Smoke!Resources, Smoke!Smokes(r), UNCHANGED readyFirst
  PROVE  SmokeInv'
<1> DEFINE s == Smoke!Smoker(r)
<1>1. /\ s \in Smoke!Workers /\ s \in Smoke!Threads /\ s # Smoke!agent
      /\ Smoke!agent \in Smoke!Threads
      /\ Called(s) /\ pc[s] = "waiting" /\ at[s] = "writing"
      /\ pc[Smoke!agent] \notin {"second", "third"}
  BY SmokeNames, Acting DEF Smoke!Smokes, Smoke!Threads
<1>2. r \in ToSmoke
  BY <1>1 DEF ToSmoke
<1>3. Passed(r)
  <2>1. PICK x \in Smoke!Resources : Passed(x)
    BY <1>2 DEF SmokeInv, Rounds, BetweenRounds, Smoked, Offered
  <2> QED BY <1>2, <2>1 DEF Passed
<1>4. /\ pc' = [pc EXCEPT ![s] = "loop"]
      /\ smoke_count' = [smoke_count EXCEPT ![r] = @ + 1]
      /\ UNCHANGED <<materials, num_active_threads, signal_count, round, second>>
  BY DEF Smoke!Smokes, Smoke!Goto
<1>5. /\ pc \in [Smoke!Threads -> SmokeSteps] /\ smoke_count \in [Smoke!Resources -> Nat]
      /\ cond_queue \in [Smoke!Conds -> Seq(Smoke!Threads)]
  BY DEF SmokeInv, Rounds, Locks
<1>6. /\ Locks' /\ at' = at /\ cond_queue' = [cond_queue EXCEPT ![Smoke!smoke] = <<>>]
  BY <1>1, SignalTo, SmokeNames DEF SmokeInv, Smoke!Smokes
<1>7. \A u \in Smoke!Workers : Called(u)' <=> Called(u) /\ u # s
  <2>1. \A u \in Smoke!Workers : cond_queue'[CondOf(u)] = cond_queue[CondOf(u)]
    BY <1>5, <1>6, OwnCond, SmokeNames DEF Smoke!Threads
  <2> QED BY <1>1, <1>4, <1>5, <2>1 DEF Called, Smoke!Threads
<1>8. Pending' = {} /\ ToSmoke' = {}
  <2>1. \A p \in Smoke!Resources : /\ p \in Pending' <=> p \in Pending
                                   /\ p \in ToSmoke' <=> p \in ToSmoke /\ p # r
    BY <1>7, SmokeNames DEF Pending, ToSmoke
  <2>2. Pending' \subseteq Smoke!Resources /\ ToSmoke' \subseteq Smoke!Resources
    BY DEF Pending, ToSmoke
  <2> QED BY <1>3, <2>1, <2>2 DEF Passed
<1>9. Total(smoke_count') = Total(smoke_count) + 1 /\ smoke_count' \in [Smoke!Resources -> Nat]
  <2>1. \A p \in Smoke!Resources :
          smoke_count[p] \in Nat /\ smoke_count'[p] = IF p = r THEN smoke_count[p] + 1 ELSE smoke_count[p]
    BY <1>4, <1>5
  <2>2. 1 \in Smoke!Resources /\ 2 \in Smoke!Resources /\ 4 \in Smoke!Resources /\ r \in {1, 2, 4}
    BY DEF Smoke!Resources
  <2>3. Total(smoke_count') = Total(smoke_count) + 1
    BY <2>1, <2>2 DEF Total
  <2> QED BY <1>4, <1>5, <2>3
<1>10. pc'[Smoke!agent] = pc[Smoke!agent] /\ cond_queue'[Smoke!smoke] = <<>>
  BY <1>1, <1>4, <1>5, <1>6, OwnCond, SmokeNames
<1>11. Smoked'
  BY <1>3, <1>4, <1>8, <1>9, <1>10 DEF Passed, Smoked
<1>12. \A u \in Smoke!Workers : cond_queue'[CondOf(u)] # <<>> => pc'[u] = "waiting"
  <2>1. \A u \in Smoke!Workers : cond_queue'[CondOf(u)] = cond_queue[CondOf(u)]
    BY <1>5, <1>6, OwnCond, SmokeNames DEF Smoke!Threads
  <2>2. cond_queue[CondOf(s)] = <<>>
    BY <1>1 DEF Called
  <2> QED BY <1>1, <1>4, <1>5, <2>1, <2>2 DEF SmokeInv, Rounds, Smoke!Threads
<1>13. Rounds'
  <2>1. pc' \in [Smoke!Threads -> SmokeSteps]
    BY <1>4, <1>5 DEF SmokeSteps
  <2> QED BY <1>4, <1>9, <1>11, <1>12, <2>1 DEF SmokeInv, Rounds
<1>14. Settled' /\ Agency'
  BY <1>1, <1>4, <1>5, <1>6, <1>10 DEF SmokeInv, Settled, Agency, Smoke!Threads
<1> QED BY <1>6, <1>13, <1>14 DEF SmokeInv

(* A step of the agent alone, when its round is known to be as it should be. *)
LEMMA AgentMoves ==
  ASSUME SmokeInv, NEW l \in SmokeSteps, pc' = [pc EXCEPT ![Smoke!agent] = l],
         l # "start", pc[Smoke!agent] # "start",
         \A u \in Smoke!Workers : at'[u] = at[u] /\ cond_queue'[CondOf(u)] \in {cond_queue[CondOf(u)], <<>>},
         UNCHANGED <<smoke_count, readyFirst>>, round' \in Nat,
         BetweenRounds' \/ Smoked' \/ \E x \in Smoke!Resources : Offered(x)' \/ Passed(x)'
  PROVE  Rounds' /\ Settled'
<1>1. pc \in [Smoke!Threads -> SmokeSteps] /\ pc' \in [Smoke!Threads -> SmokeSteps]
  BY DEF SmokeInv, Rounds
<1>2. \A u \in Smoke!Workers : pc'[u] = pc[u]
  BY <1>1, SmokeNames DEF Smoke!Threads
<1>3. Rounds'
  BY <1>1, <1>2 DEF SmokeInv, Rounds
<1>4. Settled'
  BY <1>2 DEF SmokeInv, Settled
<1> QED BY <1>3, <1>4

LEMMA SmokeAgentAwaits ==
  ASSUME SmokeInv, Smoke!AgentAwaitsThreads, UNCHANGED readyFirst
  PROVE  SmokeInv'
<1>1. Smoke!agent \in Smoke!Threads
  BY DEF Smoke!Threads
<1>2. /\ Locks' /\ at' = [at EXCEPT ![Smoke!agent] = "wait_unlock"]
      /\ cond_queue' = [cond_queue EXCEPT ![Smoke!smoke] = <<Smoke!agent>>]
      /\ pc[Smoke!agent] = "loop"
      /\ UNCHANGED <<materials, num_active_threads, signal_count, smoke_count, round, second, pc>>
  BY <1>1, WaitsOn, SmokeNames
     DEF Smoke!AgentAwaitsThreads, Smoke!Holds, Smoke!counts, SmokeInv
<1>3. \A u \in Smoke!Workers : cond_queue'[CondOf(u)] = cond_queue[CondOf(u)] /\ at'[u] = at[u]
  BY <1>1, <1>2, OwnCond, SmokeNames DEF SmokeInv, Locks, Smoke!Threads
<1>4. Pending' = Pending /\ ToSmoke' = ToSmoke
  BY <1>2, <1>3, SmokeNames DEF Pending, ToSmoke, Called
<1>5. BetweenRounds
  BY <1>2 DEF SmokeInv, Rounds, Offered, Passed, Smoked
<1>6. BetweenRounds'
  BY <1>2, <1>4, <1>5 DEF BetweenRounds
<1>7. Rounds'
  BY <1>2, <1>3, <1>6 DEF SmokeInv, Rounds
<1>8. Settled' /\ Agency'
  BY <1>2, <1>3 DEF SmokeInv, Settled, Agency
<1> QED BY <1>2, <1>7, <1>8 DEF SmokeInv

LEMMA SmokeAgentFirst ==
  ASSUME SmokeInv, NEW r \in Smoke!Resources, Smoke!AgentFirst(r), UNCHANGED readyFirst
  PROVE  SmokeInv'
<1> DEFINE h == Smoke!Handler(r)
<1>1. h \in Smoke!Threads /\ Smoke!agent \in Smoke!Threads /\ h \in Smoke!Workers
  BY SmokeNames DEF Smoke!Threads
<1>2. PICK s \in Smoke!Resources \ {r} :
        /\ signal_count' = [signal_count EXCEPT ![Smoke!AllResources - r - s] = @ + 1]
        /\ second' = s
  BY DEF Smoke!AgentFirst
<1> DEFINE x == Smoke!AllResources - r - s
<1>3. /\ pc[Smoke!agent] = "loop" /\ at[Smoke!agent] = "writing"
      /\ pc' = [pc EXCEPT ![Smoke!agent] = "second"]
      /\ UNCHANGED <<materials, num_active_threads, smoke_count, round>>
  BY DEF Smoke!AgentFirst, Smoke!Holds, Smoke!Goto
<1>4. /\ Locks' /\ at' = at /\ cond_queue' = [cond_queue EXCEPT ![CondOf(h)] = <<>>]
  BY <1>1, <1>3, SignalTo, SmokeNames DEF SmokeInv, Smoke!AgentFirst
<1>5. x \in Smoke!Resources \ {r, s}
  BY <1>2, ThreeResources
<1>6. BetweenRounds
  BY <1>3 DEF SmokeInv, Rounds, Offered, Passed, Smoked
<1>7. /\ pc \in [Smoke!Threads -> SmokeSteps] /\ smoke_count \in [Smoke!Resources -> Nat]
      /\ cond_queue \in [Smoke!Conds -> Seq(Smoke!Threads)] /\ round \in Nat
  BY DEF SmokeInv, Rounds, Locks
<1>8. \A u \in Smoke!Threads :
        u # h => cond_queue'[CondOf(u)] = cond_queue[CondOf(u)]
  BY <1>1, <1>4, <1>7, OwnCond
<1>9. \A u \in Smoke!Workers : u # h => (Called(u)' <=> Called(u))
  BY <1>1, <1>3, <1>7, <1>8, SmokeNames DEF Called, Smoke!Threads
<1>10. Pending' \subseteq {r} /\ ToSmoke' = {}
  <2>1. \A p \in Smoke!Resources : /\ p \in Pending' => p \in Pending \/ p = r
                                   /\ p \in ToSmoke' => p \in ToSmoke
    BY <1>9, SmokeNames DEF Pending, ToSmoke
  <2>2. Pending' \subseteq Smoke!Resources /\ ToSmoke' \subseteq Smoke!Resources
    BY DEF Pending, ToSmoke
  <2> QED BY <1>6, <2>1, <2>2 DEF BetweenRounds
<1>11. pc'[Smoke!agent] = "second"
  BY <1>1, <1>3, <1>7
<1>12. Offered(x)'
  <2>1. signal_count' = [smoke_count' EXCEPT ![x] = @ + 1] /\ Total(smoke_count') = round' /\ materials' = 0
    BY <1>2, <1>3, <1>6 DEF BetweenRounds
  <2>2. second' \in Smoke!Resources \ (Pending' \cup {x})
    BY <1>2, <1>5, <1>10
  <2>3. x \notin Pending'
    BY <1>5, <1>10
  <2> QED BY <1>10, <1>11, <2>1, <2>2, <2>3 DEF Offered
<1>13. Rounds' /\ Settled'
  <2>1. \A u \in Smoke!Workers : at'[u] = at[u] /\ cond_queue'[CondOf(u)] \in {cond_queue[CondOf(u)], <<>>}
    BY <1>1, <1>4, <1>7, <1>8, OwnCond DEF Smoke!Threads
  <2> QED BY <1>3, <1>5, <1>7, <1>12, <2>1, AgentMoves DEF SmokeSteps
<1>14. Agency'
  BY <1>3, <1>4, <1>11 DEF SmokeInv, Agency
<1> QED BY <1>4, <1>13, <1>14 DEF SmokeInv

LEMMA SmokeAgentSecond ==
  ASSUME SmokeInv, Smoke!AgentSecond, UNCHANGED readyFirst
  PROVE  SmokeInv'
<1>1. /\ pc[Smoke!agent] = "second" /\ at[Smoke!agent] = "writing"
      /\ pc' = [pc EXCEPT ![Smoke!agent] = "third"]
      /\ UNCHANGED <<materials, num_active_threads, signal_count, smoke_count, round, second>>
  BY DEF Smoke!AgentSecond, Smoke!Holds, Smoke!Goto, Smoke!counts
<1>2. PICK x \in Smoke!Resources : Offered(x)
  BY <1>1 DEF SmokeInv, Rounds, BetweenRounds, Passed, Smoked
<1>3. second \in Smoke!Resources /\ second # x
  BY <1>1, <1>2 DEF Offered
<1> DEFINE h == Smoke!Handler(second)
<1>4. h \in Smoke!Threads /\ Smoke!agent \in Smoke!Threads /\ h \in Smoke!Workers
  BY <1>3, SmokeNames DEF Smoke!Threads
<1>5. /\ Locks' /\ at' = at /\ cond_queue' = [cond_queue EXCEPT ![CondOf(h)] = <<>>]
  BY <1>1, <1>3, <1>4, SignalTo, SmokeNames DEF SmokeInv, Smoke!AgentSecond
<1>6. /\ pc \in [Smoke!Threads -> SmokeSteps] /\ round \in Nat
      /\ cond_queue \in [Smoke!Conds -> Seq(Smoke!Threads)]
  BY DEF SmokeInv, Rounds, Locks
<1>7. \A u \in Smoke!Threads : u # h => cond_queue'[CondOf(u)] = cond_queue[CondOf(u)]
  BY <1>4, <1>5, <1>6, OwnCond
<1>8. \A u \in Smoke!Workers : u # h => (Called(u)' <=> Called(u))
  BY <1>1, <1>4, <1>6, <1>7, SmokeNames DEF Called, Smoke!Threads
<1>9. Pending' \subseteq Pending \cup {second} /\ ToSmoke' = {}
  <2>1. \A p \in Smoke!Resources : /\ p \in Pending' => p \in Pending \/ p = second
                                   /\ p \in ToSmoke' => p \in ToSmoke
    BY <1>3, <1>8, SmokeNames DEF Pending, ToSmoke
  <2>2. Pending' \subseteq Smoke!Resources /\ ToSmoke' \subseteq Smoke!Resources
    BY DEF Pending, ToSmoke
  <2> QED BY <1>2, <2>1, <2>2 DEF Offered
<1>10. pc'[Smoke!agent] = "third"
  BY <1>1, <1>4, <1>6
<1>11. Offered(x)'
  BY <1>1, <1>2, <1>3, <1>9, <1>10 DEF Offered
<1>12. Rounds' /\ Settled'
  <2>1. \A u \in Smoke!Workers : at'[u] = at[u] /\ cond_queue'[CondOf(u)] \in {cond_queue[CondOf(u)], <<>>}
    BY <1>4, <1>5, <1>6, <1>7, OwnCond DEF Smoke!Threads
  <2> QED BY <1>1, <1>6, <1>11, <2>1, AgentMoves DEF SmokeSteps
<1>13. Agency'
  BY <1>1, <1>5, <1>10 DEF SmokeInv, Agency
<1> QED BY <1>5, <1>12, <1>13 DEF SmokeInv

LEMMA SmokeAgentWaits ==
  ASSUME SmokeInv, Smoke!AgentWaits, UNCHANGED readyFirst
  PROVE  SmokeInv'
<1>1. Smoke!agent \in Smoke!Threads
  BY DEF Smoke!Threads
<1>2. /\ pc[Smoke!agent] = "third" /\ pc' = [pc EXCEPT ![Smoke!agent] = "waiting"]
      /\ Locks' /\ at' = [at EXCEPT ![Smoke!agent] = "wait_unlock"]
      /\ cond_queue' = [cond_queue EXCEPT ![Smoke!smoke] = <<Smoke!agent>>]
      /\ UNCHANGED <<materials, num_active_threads, signal_count, smoke_count, round, second>>
  BY <1>1, WaitsOn, SmokeNames
     DEF Smoke!AgentWaits, Smoke!Holds, Smoke!Goto, Smoke!counts, SmokeInv
<1>3. PICK x \in Smoke!Resources : Offered(x)
  BY <1>2 DEF SmokeInv, Rounds, BetweenRounds, Passed, Smoked
<1>4. /\ pc \in [Smoke!Threads -> SmokeSteps] /\ round \in Nat
      /\ cond_queue \in [Smoke!Conds -> Seq(Smoke!Threads)] /\ at \in [Smoke!Threads -> SmokePlaces]
  BY DEF SmokeInv, Rounds, Locks
<1>5. \A u \in Smoke!Workers : cond_queue'[CondOf(u)] = cond_queue[CondOf(u)] /\ at'[u] = at[u]
  BY <1>1, <1>2, <1>4, OwnCond, SmokeNames DEF Smoke!Threads
<1>6. Pending' = Pending /\ ToSmoke' = ToSmoke
  <2>1. \A u \in Smoke!Workers : pc'[u] = pc[u]
    BY <1>2, <1>4, SmokeNames DEF Smoke!Threads
  <2>2. \A u \in Smoke!Workers : Called(u)' <=> Called(u)
    BY <1>5, <2>1 DEF Called
  <2> QED BY <2>2, SmokeNames DEF Pending, ToSmoke
<1>7. pc'[Smoke!agent] = "waiting" /\ cond_queue'[Smoke!smoke] # <<>>
  <2>1. Smoke!smoke \in Smoke!Conds /\ <<Smoke!agent>> # <<>>
    BY <1>1, OwnCond, SmokeNames
  <2> QED BY <1>1, <1>2, <1>4, <2>1
<1>8. Offered(x)'
  BY <1>2, <1>3, <1>6, <1>7 DEF Offered
<1>9. Rounds' /\ Settled'
  BY <1>2, <1>4, <1>5, <1>8, AgentMoves DEF SmokeSteps
<1>10. Agency'
  BY <1>7 DEF Agency
<1> QED BY <1>2, <1>9, <1>10 DEF SmokeInv

LEMMA SmokeAgentLoops ==
  ASSUME SmokeInv, Smoke!AgentLoops, UNCHANGED readyFirst
  PROVE  SmokeInv'
<1>1. /\ pc[Smoke!agent] = "waiting" /\ at[Smoke!agent] = "writing"
      /\ pc' = [pc EXCEPT ![Smoke!agent] = "loop"] /\ round' = round + 1
      /\ UNCHANGED <<holder, reader_count, waiter_queue, reader_waiter_queue, cond_queue, woken, at>>
      /\ UNCHANGED <<materials, num_active_threads, signal_count, smoke_count, second>>
      /\ Smoke!agent \in Smoke!Threads
  BY DEF Smoke!AgentLoops, Smoke!Holds, Smoke!Goto, Smoke!monitor, Smoke!Threads
<1>2. /\ pc \in [Smoke!Threads -> SmokeSteps] /\ round \in Nat
  BY DEF SmokeInv, Rounds
<1>3. cond_queue[Smoke!smoke] = <<>>
  BY <1>1, SmokeNames DEF SmokeInv, Locks
<1>4. Smoked
  BY <1>1, <1>3 DEF SmokeInv, Rounds, BetweenRounds, Offered, Passed
<1>5. Pending' = Pending /\ ToSmoke' = ToSmoke
  BY <1>1, <1>2, SmokeNames DEF Pending, ToSmoke, Called, Smoke!Threads
<1>6. pc'[Smoke!agent] = "loop"
  BY <1>1, <1>2
<1>7. BetweenRounds'
  BY <1>1, <1>4, <1>5, <1>6 DEF Smoked, BetweenRounds
<1>8. Rounds' /\ Settled'
  BY <1>1, <1>2, <1>7, AgentMoves DEF SmokeSteps
<1> QED BY <1>1, <1>6, <1>8 DEF SmokeInv, Locks, Agency

LEMMA SmokeAgentReturns ==
  ASSUME SmokeInv, Smoke!AgentReturns, UNCHANGED readyFirst
  PROVE  SmokeInv'
<1>1. /\ pc[Smoke!agent] = "loop" /\ at[Smoke!agent] = "writing" /\ round = NUM_ITERATIONS
      /\ pc' = [pc EXCEPT ![Smoke!agent] = "returned"]
      /\ UNCHANGED <<materials, num_active_threads, signal_count, smoke_count, round, second>>
      /\ Smoke!agent \in Smoke!Threads
      /\ Smoke!M!MutexUnlock /\ at' = [at EXCEPT ![Smoke!agent] = "out"] /\ UNCHANGED cond_queue
  BY DEF Smoke!AgentReturns, Smoke!Holds, Smoke!Goto, Smoke!counts, Smoke!Threads,
         Smoke!M!Unlock, Smoke!M!Goto
<1>2. Locks'
  BY <1>1, UnlockedLocks DEF SmokeInv
<1>3. /\ pc \in [Smoke!Threads -> SmokeSteps] /\ round \in Nat /\ at \in [Smoke!Threads -> SmokePlaces]
  BY DEF SmokeInv, Rounds, Locks
<1>4. BetweenRounds
  BY <1>1 DEF SmokeInv, Rounds, Offered, Passed, Smoked
<1>5. Pending' = Pending /\ ToSmoke' = ToSmoke
  BY <1>1, <1>3, SmokeNames DEF Pending, ToSmoke, Called, Smoke!Threads
<1>6. pc'[Smoke!agent] = "returned"
  BY <1>1, <1>3
<1>7. BetweenRounds'
  BY <1>1, <1>4, <1>5, <1>6 DEF BetweenRounds
<1>8. Rounds' /\ Settled'
  <2>1. \A u \in Smoke!Workers : at'[u] = at[u]
    BY <1>1, <1>3, SmokeNames DEF Smoke!Threads
  <2> QED BY <1>1, <1>3, <1>7, <2>1, AgentMoves DEF SmokeSteps
<1>9. Agency'
  BY <1>1, <1>6 DEF Agency
<1> QED BY <1>2, <1>8, <1>9 DEF SmokeInv

LEMMA SmokeInvStep == SmokeInv /\ Smoke!Step => SmokeInv'
BY SmokeMonitorStep, SmokeCountThreads, SmokeStart, SmokeWorkerWaits, SmokeHandle, SmokeSmokes,
   SmokeAgentAwaits, SmokeAgentFirst, SmokeAgentSecond, SmokeAgentWaits, SmokeAgentLoops,
   SmokeAgentReturns, SmokeNames
   DEF Smoke!Step, Smoke!Agent, Smoke!Worker

LEMMA SmokeInvInit == Smoke!Init => SmokeInv
<1> SUFFICES ASSUME Smoke!Init PROVE SmokeInv
  OBVIOUS
<1>1. Locks
  <2>1. /\ holder = NoThread /\ reader_count = 0 /\ waiter_queue = <<>> /\ reader_waiter_queue = <<>>
        /\ cond_queue = [c \in Smoke!Conds |-> <<>>] /\ woken = {}
        /\ at = [t \in Smoke!Threads |-> "out"]
    BY DEF Smoke!Init, Smoke!M!Init
  <2>2. Range(<<>>) = {} /\ IsInjective(<<>>) /\ <<>> \in Seq(Smoke!Threads)
    BY DEF Range, IsInjective
  <2> QED BY <2>1, <2>2, OwnCond, NoThreadAssumption DEF Locks, SmokePlaces
<1>2. /\ pc = [t \in Smoke!Threads |-> "start"] /\ materials = 0 /\ round = 0
      /\ signal_count = [r \in Smoke!Resources |-> 0] /\ smoke_count = [r \in Smoke!Resources |-> 0]
      /\ cond_queue = [c \in Smoke!Conds |-> <<>>]
  BY DEF Smoke!Init, Smoke!M!Init
<1>3. pc[Smoke!agent] = "start" /\ Total(smoke_count) = 0
  BY <1>2 DEF Smoke!Threads, Total, Smoke!Resources
<1>4. Pending = {} /\ ToSmoke = {}
  BY <1>2, SmokeNames DEF Pending, ToSmoke, Called, Smoke!Threads
<1>5. Rounds
  <2>1. \A u \in Smoke!Workers : cond_queue[CondOf(u)] = <<>>
    BY <1>2, OwnCond DEF Smoke!Threads
  <2> QED BY <1>2, <1>3, <1>4, <2>1 DEF Rounds, BetweenRounds, SmokeSteps
<1> QED BY <1>1, <1>3, <1>5 DEF SmokeInv, Settled, Agency

LEMMA BetweenReady ==
  ASSUME SmokeInv, readyFirst = Smoke!Everybody, Smoke!Holds(Smoke!agent, "loop"),
         NEW t \in Smoke!Workers
  PROVE  Smoke!Ready(t)
<1>1. /\ t \in Smoke!Threads /\ t # Smoke!agent /\ Smoke!agent \in Smoke!Threads
      /\ pc[Smoke!agent] = "loop" /\ at[Smoke!agent] = "writing" /\ t # Smoke!main
  BY SmokeNames DEF Smoke!Threads, Smoke!Holds, Smoke!main, Smoke!Workers, Smoke!Resources
<1>2. at[t] \notin {"writing", "wait_unlock"}
  BY <1>1 DEF SmokeInv, Locks
<1>3. pc[t] = "waiting"
  BY <1>1, <1>2 DEF SmokeInv, Settled
<1>4. BetweenRounds
  BY <1>1 DEF SmokeInv, Rounds, Offered, Passed, Smoked
<1>5. ~Called(t)
  BY <1>4, SmokeNames DEF BetweenRounds, Pending, ToSmoke
<1>6. cond_queue[CondOf(t)] = <<t>> /\ at[t] = "wait_sleep"
  BY <1>1, <1>2, <1>3, <1>5 DEF SmokeInv, Locks, Called
<1> QED BY <1>1, <1>6, SmokeNames DEF Smoke!Ready

(***************************************************************************)
(* The programs.                                                            *)
(***************************************************************************)
ProgramInv == /\ program = "q2" => CounterInv
              /\ program = "q3" => BarrierInv
              /\ program = "q4" => OrderInv
              /\ program = "smoke" => SmokeInv

LEMMA ProgramInit == Init => ProgramInv
BY CounterInit, BarrierInit, OrderInit, SmokeInvInit DEF Init, ProgramInv

LEMMA ProgramStep == ProgramInv /\ [Next]_vars => ProgramInv'
<1> SUFFICES ASSUME ProgramInv, [Next]_vars PROVE ProgramInv'
  OBVIOUS
<1>1. ASSUME UNCHANGED vars PROVE ProgramInv'
  <2>1. /\ CounterInv => CounterInv'
        /\ BarrierInv => BarrierInv'
        /\ OrderInv => OrderInv'
    BY <1>1 DEF vars, q2vars, q4vars, CounterInv, CounterType, BarrierInv, Gathering, Leaving, OrderInv
  <2>2. ASSUME SmokeInv PROVE SmokeInv'
    <3>1. Rounds'
      BY <1>1, <2>2, RoundsSame DEF SmokeInv, vars, smokevars
    <3> QED BY <1>1, <2>2, <3>1 DEF SmokeInv, Locks, Settled, Agency, vars, smokevars
  <2> QED BY <1>1, <2>1, <2>2 DEF ProgramInv, vars
<1>2. ASSUME NEW t \in Threads, Step(t) PROVE ProgramInv'
  BY <1>2, CounterStep, BarrierStep, OrderStep DEF Step, ProgramInv, Counters
<1>3. ASSUME SmokeStep PROVE ProgramInv'
  BY <1>3, SmokeInvStep DEF SmokeStep, ProgramInv
<1> QED BY <1>1, <1>2, <1>3 DEF Next, Finished

LEMMA ProgramAlways == Spec => []ProgramInv
BY ProgramInit, ProgramStep, PTL DEF Spec

(* q2.c: cnt is zero once everybody is through, for every number N of iterations. *)
THEOREM CountsBackCorrect == Spec => []CountsBack
<1>1. ProgramInv => CountsBack
  BY NAssumption DEF ProgramInv, CounterInv, CounterType, Counters, Contribution, CountsBack, Q2!Done
<1> QED BY <1>1, ProgramAlways, PTL

(* q3.c: no b comes before all have arrived, however many they are. *)
THEOREM BarrierCorrect == Spec => []NobodyAhead
<1>1. ProgramInv => NobodyAhead
  BY DEF ProgramInv, BarrierInv, Gathering, NobodyAhead, Q3!Together
<1> QED BY <1>1, ProgramAlways, PTL

(* q4.c: zero, one, two, in that order, whoever comes first. *)
THEOREM OrderCorrect == Spec => []PrintedInOrder
<1>1. SubSeq(<<t1, t2, t3>>, 1, 0) = <<>>
  OBVIOUS
<1>2. 0 \in 0 .. 3 /\ 1 \in 0 .. 3 /\ 2 \in 0 .. 3 /\ 3 \in 0 .. 3
  OBVIOUS
<1>3. OrderInv => \E n \in 0 .. 3 : printed = SubSeq(<<t1, t2, t3>>, 1, n)
  BY <1>1, <1>2, Beginnings DEF OrderInv
<1>4. ProgramInv => PrintedInOrder
  BY <1>3 DEF ProgramInv, PrintedInOrder, Q4!InOrder
<1> QED BY <1>4, ProgramAlways, PTL

(* smoke.c: when the agent returns the smoker of every round was the right one, whoever was
   late to start, for every number of rounds. *)
THEOREM CountsMatchCorrect == Spec => []CountsMatch
<1>1. SmokeInv => Smoke!CountsMatch
  BY DEF SmokeInv, Rounds, Agency, BetweenRounds, Offered, Passed, Smoked, Total, Smoke!CountsMatch
<1>2. ProgramInv => CountsMatch
  BY <1>1 DEF ProgramInv, CountsMatch
<1> QED BY <1>2, ProgramAlways, PTL

(* smoke.c:45: if everybody was ready for the first round, everybody is for each. *)
THEOREM EachRoundReadyCorrect == Spec => []EachRoundReady
<1>1. SmokeInv => Smoke!EachRoundReady
  BY BetweenReady DEF Smoke!EachRoundReady, Smoke!SignalsOnlyReady
<1>2. ProgramInv => EachRoundReady
  BY <1>1 DEF ProgramInv, EachRoundReady
<1> QED BY <1>2, ProgramAlways, PTL
=============================================================================
