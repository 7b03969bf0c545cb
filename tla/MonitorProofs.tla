--------------------------- MODULE MonitorProofs ----------------------------
(***************************************************************************)
(* The uthread mutex and its condition variables, for any finite set of     *)
(* threads and any conditions: exclusion, sleepers that are where a wakeup  *)
(* finds them and are not left behind, and the refinement to Mesa.          *)
(***************************************************************************)
EXTENDS Monitor, SharedTheorems, FiniteSetTheorems, TLAPS

(* What makes Exclusion and HolderTruth inductive: a named holder shuts readers out,
   so that an unlock by a reader is never taken for one by a writer. *)
IInv == TypeOK /\ HolderTruth /\ (holder # NoThread => Readers = {})

(* The elements of a queue and of what the operations make of it are threads. *)
LEMMA QueueType ==
  ASSUME NEW q \in Seq(Threads), NEW t \in Threads
  PROVE  /\ Enqueue(q, t) \in Seq(Threads)
         /\ Range(q) \subseteq Threads
         /\ q # <<>> => Head(q) \in Threads /\ Tail(q) \in Seq(Threads)
BY DEF Enqueue, Range

LEMMA ReadersFinite == IsFiniteSet(Readers) /\ Cardinality(Readers) \in Nat
BY ThreadsAssumption, FS_Subset, FS_CardinalityType DEF Readers

(* Both kinds of holders leave through uthread_mutex_unlock, which tells them apart
   by the holder field alone. *)
LEMMA UnlockInv ==
  ASSUME IInv, NEW t \in Threads, MutexUnlock, UNCHANGED cond_queue,
         \/ at[t] \in {"writing", "reading"} /\ Goto(t, "out")
         \/ at[t] = "wait_unlock" /\ Goto(t, "wait_sleep")
  PROVE  IInv'
<1> USE DEF IInv
<1>1. /\ at' \in [Threads -> Places]
      /\ at'[t] \in {"out", "wait_sleep"}
      /\ \A u \in Threads : u # t => at'[u] = at[u]
  BY DEF TypeOK, Goto, Places
<1>2. /\ waiter_queue' \in Seq(Threads)
      /\ reader_waiter_queue' \in Seq(Threads)
      /\ woken' \subseteq Threads
  <2>1. CASE LastOut /\ waiter_queue # <<>>
    <3>1. Head(waiter_queue) \in Threads /\ Tail(waiter_queue) \in Seq(Threads)
      BY <2>1, QueueType DEF TypeOK
    <3> QED BY <2>1, <3>1 DEF TypeOK, MutexUnlock, WakeNext
  <2>2. CASE LastOut /\ waiter_queue = <<>>
    <3>1. Range(reader_waiter_queue) \subseteq Threads
      BY QueueType DEF TypeOK
    <3> QED BY <2>2, <3>1 DEF TypeOK, MutexUnlock, WakeNext
  <2>3. CASE ~LastOut
    BY <2>3 DEF TypeOK, MutexUnlock
  <2> QED BY <2>1, <2>2, <2>3
<1>3. CASE t \in Writers
  <2>1. holder = t /\ Readers = {} /\ holder # NoThread
    BY <1>3, ThreadsAssumption DEF HolderTruth
  <2>2. reader_count' = reader_count /\ holder' = NoThread
    BY <2>1 DEF MutexUnlock, ReadersLeft
  <2>3. Readers' = Readers /\ Writers' = Writers \ {t}
    BY <1>1, <1>3 DEF Readers, Writers
  <2>4. HolderTruth'
    BY <2>1, <2>2, <2>3, ThreadsAssumption DEF HolderTruth
  <2> QED BY <1>1, <1>2, <2>2, <2>4 DEF TypeOK
<1>4. CASE t \in Readers
  <2>1. holder = NoThread
    BY <1>4
  <2>2. reader_count' = reader_count - 1 /\ holder' = NoThread
    BY <2>1 DEF MutexUnlock, ReadersLeft
  <2>3. Readers' = Readers \ {t} /\ Writers' = Writers
    BY <1>1, <1>4 DEF Readers, Writers
  <2>4. Cardinality(Readers') = Cardinality(Readers) - 1
    BY <1>4, <2>3, ReadersFinite, FS_RemoveElement
  <2>5. reader_count' = Cardinality(Readers')
    BY <2>2, <2>4 DEF HolderTruth
  <2>6. reader_count' \in Nat
    BY <2>3, <2>5, ReadersFinite, FS_RemoveElement, FS_CardinalityType
  <2>7. HolderTruth'
    BY <2>1, <2>2, <2>3, <2>5 DEF HolderTruth
  <2> QED BY <1>1, <1>2, <2>2, <2>6, <2>7 DEF TypeOK
<1> QED BY <1>3, <1>4 DEF Writers, Readers

(* Steps that leave the fields of the mutex alone and neither begin nor end a hold. *)
LEMMA QuietInv ==
  ASSUME IInv, UNCHANGED <<holder, reader_count>>,
         Writers' = Writers, Readers' = Readers, TypeOK'
  PROVE  IInv'
BY DEF IInv, HolderTruth

(* Initially nobody holds the mutex, and every step keeps the invariant. *)
LEMMA InvInit == Init => IInv
<1> SUFFICES ASSUME Init PROVE IInv
  OBVIOUS
<1>1. Readers = {} /\ Writers = {}
  BY DEF Init, Readers, Writers
<1>2. TypeOK
  BY DEF Init, TypeOK, Places
<1> QED BY <1>1, <1>2, ThreadsAssumption, FS_EmptySet DEF Init, IInv, HolderTruth

LEMMA InvStep == IInv /\ [Next]_vars => IInv'
<1> SUFFICES ASSUME IInv, [Next]_vars PROVE IInv'
  OBVIOUS
<1> USE DEF IInv
<1>1. ASSUME NEW t \in Threads, Call(t) PROVE IInv'
  <2>1. TypeOK'
    BY <1>1 DEF Call, Goto, TypeOK, Places, queues
  <2>2. Writers' = Writers /\ Readers' = Readers
    BY <1>1 DEF Call, Goto, TypeOK, Writers, Readers
  <2> QED BY <1>1, <2>1, <2>2, QuietInv DEF Call
<1>2. ASSUME NEW t \in Threads, Lock(t) PROVE IInv'
  <2>1. CASE LockBusy
    <3>1. waiter_queue' \in Seq(Threads)
      BY <1>2, <2>1, QueueType DEF Lock, TypeOK
    <3>2. at' \in [Threads -> Places]
      BY <1>2, <2>1 DEF Lock, Goto, TypeOK, Places
    <3>3. TypeOK'
      BY <1>2, <2>1, <3>1, <3>2 DEF Lock, TypeOK
    <3>4. Writers' = Writers /\ Readers' = Readers
      BY <1>2, <2>1 DEF Lock, Goto, TypeOK, Writers, Readers
    <3> QED BY <1>2, <2>1, <3>3, <3>4, QuietInv DEF Lock
  <2>2. CASE ~LockBusy
    <3>1. holder = NoThread /\ reader_count = 0
      BY <2>2 DEF LockBusy, TypeOK
    <3>2. Readers = {} /\ Writers = {}
      BY <3>1, ReadersFinite, FS_EmptySet, FS_Subset, ThreadsAssumption DEF HolderTruth, Writers, Readers
    <3>3. TypeOK'
      BY <1>2, <2>2 DEF Lock, Goto, TypeOK, Places
    <3>4. Writers' = {t} /\ Readers' = {} /\ holder' = t /\ reader_count' = 0
      BY <1>2, <2>2, <3>1, <3>2 DEF Lock, Goto, TypeOK, Writers, Readers
    <3>5. HolderTruth'
      BY <3>4, FS_EmptySet DEF HolderTruth
    <3> QED BY <3>3, <3>4, <3>5
  <2> QED BY <2>1, <2>2
<1>3. ASSUME NEW t \in Threads, LockReadonly(t) PROVE IInv'
  <2>1. CASE ReadBusy
    <3>1. reader_waiter_queue' \in Seq(Threads)
      BY <1>3, <2>1, QueueType DEF LockReadonly, TypeOK
    <3>2. at' \in [Threads -> Places]
      BY <1>3, <2>1 DEF LockReadonly, Goto, TypeOK, Places
    <3>3. TypeOK'
      BY <1>3, <2>1, <3>1, <3>2 DEF LockReadonly, TypeOK
    <3>4. Writers' = Writers /\ Readers' = Readers
      BY <1>3, <2>1 DEF LockReadonly, Goto, TypeOK, Writers, Readers
    <3> QED BY <1>3, <2>1, <3>3, <3>4, QuietInv DEF LockReadonly
  <2>2. CASE ~ReadBusy
    <3>1. holder = NoThread /\ holder' = holder /\ reader_count' = reader_count + 1
      BY <1>3, <2>2 DEF LockReadonly, ReadBusy
    <3>2. TypeOK'
      <4>1. reader_count' \in Nat
        BY <3>1 DEF TypeOK
      <4>2. at' \in [Threads -> Places]
        BY <1>3, <2>2 DEF LockReadonly, Goto, TypeOK, Places
      <4> QED BY <1>3, <2>2, <4>1, <4>2 DEF LockReadonly, TypeOK
    <3>3. Writers' = Writers /\ Readers' = Readers \cup {t} /\ t \notin Readers
      BY <1>3, <2>2 DEF LockReadonly, Goto, TypeOK, Writers, Readers
    <3>4. Cardinality(Readers') = Cardinality(Readers) + 1
      BY <3>3, ReadersFinite, FS_AddElement
    <3> QED BY <3>1, <3>2, <3>3, <3>4 DEF HolderTruth
  <2> QED BY <2>1, <2>2
<1>4. ASSUME NEW t \in Threads, Resume(t) PROVE IInv'
  <2>1. TypeOK'
    BY <1>4 DEF Resume, Goto, TypeOK, Places, queues
  <2>2. Writers' = Writers /\ Readers' = Readers
    BY <1>4 DEF Resume, Goto, TypeOK, Writers, Readers
  <2> QED BY <1>4, <2>1, <2>2, QuietInv DEF Resume
<1>5. ASSUME NEW t \in Threads, Unlock(t) PROVE IInv'
  BY <1>5, UnlockInv DEF Unlock
<1>6. ASSUME NEW t \in Threads, CondWaitUnlock(t) PROVE IInv'
  BY <1>6, UnlockInv DEF CondWaitUnlock
<1>7. ASSUME NEW t \in Threads, NEW c \in Conds, CondWait(t, c) PROVE IInv'
  <2>1. cond_queue' \in [Conds -> Seq(Threads)]
    <3>1. Enqueue(cond_queue[c], t) \in Seq(Threads)
      BY QueueType DEF TypeOK
    <3> QED BY <1>7, <3>1 DEF CondWait, TypeOK
  <2>2. TypeOK'
    BY <1>7, <2>1 DEF CondWait, Goto, TypeOK, Places
  <2>3. Writers' = Writers /\ Readers' = Readers
    BY <1>7 DEF CondWait, Goto, TypeOK, Writers, Readers
  <2> QED BY <1>7, <2>2, <2>3, QuietInv DEF CondWait
<1>8. ASSUME NEW t \in Threads, NEW c \in Conds, CondSignal(t, c) PROVE IInv'
  <2>1. /\ Head(cond_queue[c]) \in Threads
        /\ SignalLeaves(cond_queue[c]) \in Seq(Threads)
    BY <1>8, QueueType DEF CondSignal, SignalLeaves, TypeOK
  <2>2. TypeOK'
    BY <1>8, <2>1 DEF CondSignal, TypeOK
  <2>3. Writers' = Writers /\ Readers' = Readers
    BY <1>8 DEF CondSignal, Writers, Readers
  <2> QED BY <1>8, <2>2, <2>3, QuietInv DEF CondSignal
<1>9. ASSUME NEW t \in Threads, NEW c \in Conds, CondBroadcast(t, c) PROVE IInv'
  <2>1. Range(cond_queue[c]) \subseteq Threads
    BY QueueType DEF TypeOK
  <2>2. TypeOK'
    BY <1>9, <2>1 DEF CondBroadcast, TypeOK
  <2>3. Writers' = Writers /\ Readers' = Readers
    BY <1>9 DEF CondBroadcast, Writers, Readers
  <2> QED BY <1>9, <2>2, <2>3, QuietInv DEF CondBroadcast
<1>10. CASE UNCHANGED vars
  <2>1. TypeOK'
    BY <1>10 DEF vars, queues, TypeOK
  <2>2. Writers' = Writers /\ Readers' = Readers
    BY <1>10 DEF vars, Writers, Readers
  <2> QED BY <1>10, <2>1, <2>2, QuietInv DEF vars
<1> QED BY <1>1, <1>2, <1>3, <1>4, <1>5, <1>6, <1>7, <1>8, <1>9, <1>10 DEF Next, Step

LEMMA InvExclusion == IInv => Exclusion
BY ThreadsAssumption DEF IInv, HolderTruth, Exclusion, Writers

(* The fields of the mutex and the places of the threads keep their types; above all
   reader_count never goes below zero. *)
THEOREM TypeCorrect == Spec => []TypeOK
<1>1. IInv => TypeOK
  BY DEF IInv
<1> QED BY <1>1, InvInit, InvStep, PTL DEF Spec

(* The asserts on holder and reader_count never fail. *)
THEOREM HolderCorrect == Spec => []HolderTruth
<1>1. IInv => HolderTruth
  BY DEF IInv
<1> QED BY <1>1, InvInit, InvStep, PTL DEF Spec

(* A writer is alone, however many threads there are. *)
THEOREM ExclusionCorrect == Spec => []Exclusion
BY InvExclusion, InvInit, InvStep, PTL DEF Spec

(***************************************************************************)
(* Nobody sleeps where no wakeup finds it.                                  *)
(***************************************************************************)
(* Nobody is on a condition's queue twice, or on two of them. *)
OneCondition ==
  /\ \A c \in Conds : IsInjective(cond_queue[c])
  /\ \A c, d \in Conds : c # d => Range(cond_queue[c]) \cap Range(cond_queue[d]) = {}

QueueInv == IsInjective(waiter_queue) /\ OneCondition /\ WaiterInPlace

(* Nobody else waits on a condition when t joins the queue of c. *)
LEMMA CondJoins ==
  ASSUME TypeOK, OneCondition, NEW t \in Threads, NEW c \in Conds, t \notin OnConds,
         cond_queue' = [cond_queue EXCEPT ![c] = Enqueue(@, t)]
  PROVE  OneCondition' /\ OnConds' = OnConds \cup {t}
<1>1. t \notin Range(cond_queue[c]) /\ cond_queue[c] \in Seq(Threads)
  BY DEF OnConds, TypeOK
<1>2. cond_queue'[c] = Append(cond_queue[c], t)
  BY <1>1 DEF Enqueue, TypeOK
<1>3. IsInjective(cond_queue'[c]) /\ Range(cond_queue'[c]) = Range(cond_queue[c]) \cup {t}
  <2>1. IsInjective(cond_queue[c])
    BY DEF OneCondition
  <2>2. /\ IsInjective(Append(cond_queue[c], t))
        /\ Range(Append(cond_queue[c], t)) = Range(cond_queue[c]) \cup {t}
    BY <1>1, <2>1, AppendNew
  <2> QED BY <1>2, <2>2
<1>4. \A d \in Conds : d # c => cond_queue'[d] = cond_queue[d]
  BY DEF TypeOK
<1>5. OneCondition'
  BY <1>3, <1>4 DEF OneCondition, OnConds
<1>6. OnConds' = OnConds \cup {t}
  BY <1>3, <1>4 DEF OnConds
<1> QED BY <1>5, <1>6

(* A signal takes the head off the one queue it is on, a broadcast everybody on it. *)
LEMMA CondLeaves ==
  ASSUME TypeOK, OneCondition, NEW c \in Conds, NEW X,
         \/ /\ cond_queue[c] # <<>> /\ X = {Head(cond_queue[c])}
            /\ cond_queue' = [cond_queue EXCEPT ![c] = Tail(@)]
         \/ /\ X = Range(cond_queue[c])
            /\ cond_queue' = [cond_queue EXCEPT ![c] = <<>>]
  PROVE  OneCondition' /\ OnConds' = OnConds \ X /\ X \subseteq OnConds
<1>1. cond_queue[c] \in Seq(Threads) /\ IsInjective(cond_queue[c])
  BY DEF TypeOK, OneCondition
<1>2. /\ Range(cond_queue'[c]) = Range(cond_queue[c]) \ X /\ X \subseteq Range(cond_queue[c])
      /\ IsInjective(cond_queue'[c])
  <2>1. CASE cond_queue[c] # <<>> /\ X = {Head(cond_queue[c])} /\ cond_queue'[c] = Tail(cond_queue[c])
    BY <1>1, <2>1, TailRest
  <2>2. CASE X = Range(cond_queue[c]) /\ cond_queue'[c] = <<>>
    <3>1. Range(<<>>) = {} /\ IsInjective(<<>>)
      BY DEF Range, IsInjective
    <3> QED BY <2>2, <3>1
  <2> QED BY <2>1, <2>2 DEF TypeOK
<1>3. \A d \in Conds : d # c => cond_queue'[d] = cond_queue[d]
  BY DEF TypeOK
<1>4. OneCondition'
  BY <1>2, <1>3 DEF OneCondition
<1>5. \A x : x \in OnConds' <=> x \in OnConds /\ x \notin X
  <2>1. \A x : x \in OnConds' <=> \E d \in Conds : x \in Range(cond_queue'[d])
    BY DEF OnConds
  <2>2. \A x : x \in OnConds <=> \E d \in Conds : x \in Range(cond_queue[d])
    BY DEF OnConds
  <2>3. \A d \in Conds : \A x : x \in Range(cond_queue'[d]) <=> x \in Range(cond_queue[d]) /\ x \notin X
    BY <1>2, <1>3 DEF OneCondition
  <2> QED BY <2>1, <2>2, <2>3
<1>6. X \subseteq OnConds
  BY <1>2 DEF OnConds
<1> QED BY <1>4, <1>5, <1>6

(* An unlock moves some threads, X, from the queues of the mutex to the woken ones; if it
   leaves anybody on them it is not the last one out, or it wakes a writer. *)
LEMMA UnlockWakes ==
  ASSUME TypeOK, QueueInv, MutexUnlock
  PROVE  /\ IsInjective(waiter_queue')
         /\ \E X \in SUBSET (OnMutex \cup OnReaders) :
              /\ OnMutex' = OnMutex \ X /\ OnReaders' = OnReaders \ X /\ woken' = woken \cup X
              /\ LastOut /\ OnMutex # {} => X \cap OnMutex # {}
              /\ LastOut /\ OnMutex = {} => OnReaders' = {}
<1>1. waiter_queue \in Seq(Threads) /\ IsInjective(waiter_queue)
  BY DEF TypeOK, QueueInv
<1>2. OnMutex \cap OnReaders = {} /\ OnMutex \subseteq Threads
  BY <1>1, EmptyRange DEF QueueInv, WaiterInPlace, OnMutex, OnReaders
<1>3. CASE LastOut /\ waiter_queue # <<>>
  <2> DEFINE h == Head(waiter_queue)
  <2>1. /\ h \in OnMutex /\ OnMutex' = OnMutex \ {h} /\ woken' = woken \cup {h}
        /\ reader_waiter_queue' = reader_waiter_queue /\ IsInjective(waiter_queue')
    BY <1>1, <1>3, TailRest DEF MutexUnlock, WakeNext, OnMutex
  <2>2. OnReaders' = OnReaders \ {h}
    BY <1>2, <2>1 DEF OnReaders
  <2> HIDE DEF h
  <2> QED BY <2>1, <2>2
<1>4. CASE LastOut /\ waiter_queue = <<>>
  <2>1. OnMutex = {}
    BY <1>1, <1>4, EmptyRange DEF OnMutex
  <2>2. /\ woken' = woken \cup OnReaders /\ waiter_queue' = waiter_queue
        /\ OnReaders' = {}
    BY <1>4 DEF MutexUnlock, WakeNext, OnReaders, Range
  <2>3. OnMutex' = {}
    BY <2>1, <2>2 DEF OnMutex
  <2> QED BY <1>1, <2>1, <2>2, <2>3
<1>5. CASE ~LastOut
  <2>1. OnMutex' = OnMutex /\ OnReaders' = OnReaders /\ woken' = woken /\ waiter_queue' = waiter_queue
    BY <1>5 DEF MutexUnlock, OnMutex, OnReaders
  <2> QED BY <1>1, <1>5, <2>1
<1> QED BY <1>3, <1>4, <1>5

(* A step that moves the threads X from the queues to `woken`, and t to another place,
   keeps everybody in place, if t is where that place says. *)
LEMMA WakeInPlace ==
  ASSUME TypeOK, WaiterInPlace, NEW t \in Threads, NEW l \in Places, Goto(t, l),
         NEW X \in SUBSET (OnMutex \cup OnReaders), UNCHANGED OnConds,
         OnMutex' = OnMutex \ X, OnReaders' = OnReaders \ X, woken' = woken \cup X,
         \/ at[t] \in {"writing", "reading"} /\ l = "out"
         \/ at[t] = "wait_unlock" /\ l = "wait_sleep"
  PROVE  WaiterInPlace'
<1>1. at'[t] = l /\ \A u \in Threads : u # t => at'[u] = at[u]
  BY DEF TypeOK, Goto
<1>2. OnConds' = OnConds
  OBVIOUS
<1> QED BY <1>1, <1>2 DEF WaiterInPlace, Asleep

LEMMA UnlockQueueInv ==
  ASSUME TypeOK, QueueInv, NEW t \in Threads, MutexUnlock, UNCHANGED cond_queue,
         \/ at[t] \in {"writing", "reading"} /\ Goto(t, "out")
         \/ at[t] = "wait_unlock" /\ Goto(t, "wait_sleep")
  PROVE  QueueInv'
<1>1. PICK X \in SUBSET (OnMutex \cup OnReaders) :
        OnMutex' = OnMutex \ X /\ OnReaders' = OnReaders \ X /\ woken' = woken \cup X
  BY UnlockWakes
<1>2. UNCHANGED OnConds /\ OneCondition'
  BY DEF OnConds, QueueInv, OneCondition
<1>3. "out" \in Places /\ "wait_sleep" \in Places
  BY DEF Places
<1>4. WaiterInPlace'
  BY <1>1, <1>2, <1>3, WakeInPlace DEF QueueInv
<1> QED BY <1>2, <1>4, UnlockWakes DEF QueueInv

LEMMA QueueInvInit == Init => QueueInv
<1> SUFFICES ASSUME Init PROVE QueueInv
  OBVIOUS
<1>1. Range(<<>>) = {} /\ IsInjective(<<>>)
  BY DEF Range, IsInjective
<1>2. OnMutex = {} /\ OnReaders = {} /\ OnConds = {}
  BY <1>1 DEF Init, OnMutex, OnReaders, OnConds
<1>3. WaiterInPlace
  BY <1>2 DEF Init, WaiterInPlace, Asleep
<1> QED BY <1>1, <1>3 DEF Init, QueueInv, OneCondition

LEMMA QueueInvStep == IInv /\ QueueInv /\ [Next]_vars => QueueInv'
<1> SUFFICES ASSUME IInv, QueueInv, [Next]_vars PROVE QueueInv'
  OBVIOUS
<1>0. TypeOK /\ HolderTruth /\ WaiterInPlace /\ OneCondition
  BY DEF IInv, QueueInv
<1>1. ASSUME NEW t \in Threads, Call(t) PROVE QueueInv'
  <2>1. UNCHANGED <<waiter_queue, OnMutex, OnReaders, OnConds, woken>> /\ OneCondition'
    BY <1>0, <1>1 DEF Call, queues, OnMutex, OnReaders, OnConds, OneCondition
  <2>2. WaiterInPlace'
    BY <1>0, <1>1, <2>1 DEF Call, Goto, TypeOK, WaiterInPlace, Asleep
  <2> QED BY <2>1, <2>2 DEF QueueInv
<1>2. ASSUME NEW t \in Threads, Lock(t) PROVE QueueInv'
  <2>1. UNCHANGED <<OnReaders, OnConds, woken>> /\ OneCondition' /\ t \notin OnMutex
    BY <1>0, <1>2 DEF Lock, OnReaders, OnConds, OneCondition, WaiterInPlace
  <2>2. CASE LockBusy
    <3>1. waiter_queue' = Append(waiter_queue, t) /\ Goto(t, "lock_sleep")
      BY <1>2, <2>1, <2>2 DEF Lock, Enqueue, OnMutex
    <3>2. IsInjective(waiter_queue') /\ OnMutex' = OnMutex \cup {t}
      BY <2>1, <3>1, AppendNew DEF IInv, TypeOK, QueueInv, OnMutex
    <3>3. WaiterInPlace'
      BY <1>0, <1>2, <2>1, <3>1, <3>2 DEF Lock, Goto, TypeOK, WaiterInPlace, Asleep
    <3> QED BY <2>1, <3>2, <3>3 DEF QueueInv
  <2>3. CASE ~LockBusy
    <3>1. waiter_queue' = waiter_queue /\ OnMutex' = OnMutex /\ Goto(t, "writing")
      BY <1>2, <2>3 DEF Lock, OnMutex
    <3>2. WaiterInPlace'
      BY <1>0, <1>2, <2>1, <3>1 DEF Lock, Goto, TypeOK, WaiterInPlace, Asleep
    <3> QED BY <2>1, <3>1, <3>2 DEF QueueInv
  <2> QED BY <2>2, <2>3
<1>3. ASSUME NEW t \in Threads, LockReadonly(t) PROVE QueueInv'
  <2>1. UNCHANGED <<waiter_queue, OnMutex, OnConds, woken>> /\ OneCondition' /\ t \notin OnReaders
    BY <1>0, <1>3 DEF LockReadonly, OnMutex, OnConds, OneCondition, WaiterInPlace
  <2>2. CASE ReadBusy
    <3>1. reader_waiter_queue' = Append(reader_waiter_queue, t) /\ Goto(t, "rlock_sleep")
      BY <1>3, <2>1, <2>2 DEF LockReadonly, Enqueue, OnReaders
    <3>2. OnReaders' = OnReaders \cup {t}
      BY <3>1, AppendNew DEF IInv, TypeOK, OnReaders
    <3>3. WaiterInPlace'
      BY <1>0, <1>3, <2>1, <3>1, <3>2 DEF LockReadonly, Goto, TypeOK, WaiterInPlace, Asleep
    <3> QED BY <2>1, <3>3 DEF QueueInv
  <2>3. CASE ~ReadBusy
    <3>1. OnReaders' = OnReaders /\ Goto(t, "reading")
      BY <1>3, <2>3 DEF LockReadonly, OnReaders
    <3>2. WaiterInPlace'
      BY <1>0, <1>3, <2>1, <3>1 DEF LockReadonly, Goto, TypeOK, WaiterInPlace, Asleep
    <3> QED BY <2>1, <3>2 DEF QueueInv
  <2> QED BY <2>2, <2>3
<1>4. ASSUME NEW t \in Threads, Resume(t) PROVE QueueInv'
  <2>1. UNCHANGED <<waiter_queue, OnMutex, OnReaders, OnConds>> /\ OneCondition'
    BY <1>0, <1>4 DEF Resume, queues, OnMutex, OnReaders, OnConds, OneCondition
  <2>2. WaiterInPlace'
    BY <1>0, <1>4, <2>1 DEF Resume, Goto, TypeOK, WaiterInPlace, Asleep
  <2> QED BY <2>1, <2>2 DEF QueueInv
<1>5. ASSUME NEW t \in Threads, Unlock(t) PROVE QueueInv'
  BY <1>0, <1>5, UnlockQueueInv DEF Unlock
<1>6. ASSUME NEW t \in Threads, CondWaitUnlock(t) PROVE QueueInv'
  BY <1>0, <1>6, UnlockQueueInv DEF CondWaitUnlock
<1>7. ASSUME NEW t \in Threads, NEW c \in Conds, CondWait(t, c) PROVE QueueInv'
  <2>1. UNCHANGED <<waiter_queue, OnMutex, OnReaders, woken>> /\ t \notin OnConds
    BY <1>0, <1>7 DEF CondWait, OnMutex, OnReaders, WaiterInPlace
  <2>2. OneCondition' /\ OnConds' = OnConds \cup {t}
    BY <1>0, <1>7, <2>1, CondJoins DEF CondWait
  <2>3. WaiterInPlace'
    BY <1>0, <1>7, <2>1, <2>2 DEF CondWait, Goto, TypeOK, WaiterInPlace, Asleep
  <2> QED BY <2>1, <2>2, <2>3 DEF QueueInv
<1>8. ASSUME NEW t \in Threads, at[t] = "writing", NEW X, X \subseteq OnConds,
             UNCHANGED <<waiter_queue, reader_waiter_queue, at>>, OneCondition',
             OnConds' = OnConds \ X, woken' = woken \cup X
      PROVE  QueueInv'
  <2>1. \A u \in Threads : at[u] # "wait_unlock"
    BY <1>0, <1>8, ThreadsAssumption DEF HolderTruth, Writers
  <2>2. UNCHANGED <<OnMutex, OnReaders>>
    BY <1>8 DEF OnMutex, OnReaders
  <2>3. WaiterInPlace'
    BY <1>0, <1>8, <2>1, <2>2 DEF WaiterInPlace, Asleep
  <2> QED BY <1>8, <2>3 DEF QueueInv
<1>9. ASSUME NEW t \in Threads, NEW c \in Conds, CondSignal(t, c) PROVE QueueInv'
  <2> DEFINE X == {Head(cond_queue[c])}
  <2>1. OneCondition' /\ OnConds' = OnConds \ X /\ X \subseteq OnConds
    BY <1>0, <1>9, CondLeaves DEF CondSignal, SignalLeaves
  <2> QED BY <1>8, <1>9, <2>1 DEF CondSignal
<1>10. ASSUME NEW t \in Threads, NEW c \in Conds, CondBroadcast(t, c) PROVE QueueInv'
  <2> DEFINE X == Range(cond_queue[c])
  <2>1. OneCondition' /\ OnConds' = OnConds \ X /\ X \subseteq OnConds
    BY <1>0, <1>10, CondLeaves DEF CondBroadcast
  <2> QED BY <1>8, <1>10, <2>1 DEF CondBroadcast
<1>11. CASE UNCHANGED vars
  <2>1. UNCHANGED <<waiter_queue, OnMutex, OnReaders, OnConds, woken, at>> /\ OneCondition'
    BY <1>0, <1>11 DEF vars, queues, OnMutex, OnReaders, OnConds, OneCondition
  <2> QED BY <1>0, <2>1 DEF QueueInv, WaiterInPlace
<1> QED BY <1>1, <1>2, <1>3, <1>4, <1>5, <1>6, <1>7, <1>9, <1>10, <1>11 DEF Next, Step

(* A sleeper is always where its wakeup will look for it, however many threads, locks and
   condition variables. *)
THEOREM PlaceCorrect == Spec => []WaiterInPlace
<1>1. QueueInv => WaiterInPlace
  BY DEF QueueInv
<1> QED BY <1>1, InvInit, InvStep, QueueInvInit, QueueInvStep, PTL DEF Spec

(***************************************************************************)
(* Nobody is left behind at a free mutex.                                   *)
(***************************************************************************)
Free == holder = NoThread /\ reader_count = 0

(* The last one out leaves nobody behind: a writer it wakes is on its way, or there is
   no writer and no reader stays queued. *)
LEMMA UnlockStrandsNobody ==
  ASSUME TypeOK, QueueInv, NEW t \in Threads, MutexUnlock,
         at[t] \in {"writing", "reading", "wait_unlock"}, NEW l, Goto(t, l)
  PROVE  NobodyStranded'
<1>1. PICK X \in SUBSET (OnMutex \cup OnReaders) :
        /\ OnMutex' = OnMutex \ X /\ OnReaders' = OnReaders \ X /\ woken' = woken \cup X
        /\ LastOut /\ OnMutex # {} => X \cap OnMutex # {}
        /\ LastOut /\ OnMutex = {} => OnReaders' = {}
  BY UnlockWakes
<1>2. /\ waiter_queue' \in Seq(Threads) /\ reader_waiter_queue' \in Seq(Threads)
      /\ OnMutex \subseteq Threads
  BY QueueType, TailRest DEF TypeOK, OnMutex, MutexUnlock, WakeNext
<1>3. waiter_queue' # <<>> => OnMutex' # {}
  BY <1>2, EmptyRange DEF OnMutex
<1>4. reader_waiter_queue' # <<>> => OnReaders' # {}
  BY <1>2, EmptyRange DEF OnReaders
<1>5. CASE LastOut /\ OnMutex # {}
  <2>1. PICK u \in Threads : u \in X /\ u \in OnMutex
    BY <1>1, <1>2, <1>5
  <2>2. u \in woken' /\ at[u] = "lock_sleep" /\ u # t
    BY <1>1, <2>1 DEF QueueInv, WaiterInPlace
  <2>3. at'[u] = "lock_sleep"
    BY <2>2 DEF Goto, TypeOK
  <2>4. WriterComing(u)'
    BY <2>2, <2>3 DEF WriterComing
  <2> QED BY <2>4 DEF NobodyStranded
<1>6. CASE LastOut /\ OnMutex = {}
  BY <1>1, <1>3, <1>4, <1>6 DEF NobodyStranded
<1>7. CASE ~LastOut
  BY <1>7 DEF MutexUnlock, LastOut, NobodyStranded
<1> QED BY <1>5, <1>6, <1>7

LEMMA StrandedStep == IInv /\ QueueInv /\ NobodyStranded /\ [Next]_vars => NobodyStranded'
<1> SUFFICES ASSUME IInv, QueueInv, NobodyStranded, [Next]_vars PROVE NobodyStranded'
  OBVIOUS
<1>0. TypeOK /\ HolderTruth /\ WaiterInPlace
  BY DEF IInv, QueueInv
<1>1. ASSUME UNCHANGED <<holder, reader_count, waiter_queue, reader_waiter_queue>>,
             \A u \in Threads : /\ WriterComing(u) => WriterComing(u)'
                                /\ ReaderComing(u) => ReaderComing(u)'
      PROVE  NobodyStranded'
  BY <1>1 DEF NobodyStranded
<1>2. ASSUME NEW t \in Threads, Call(t) PROVE NobodyStranded'
  <2>1. \A u \in Threads : /\ WriterComing(u) => WriterComing(u)'
                           /\ ReaderComing(u) => ReaderComing(u)'
    BY <1>0, <1>2 DEF Call, Goto, TypeOK, WriterComing, ReaderComing
  <2> QED BY <1>1, <1>2, <2>1 DEF Call, queues
<1>3. ASSUME NEW t \in Threads, Lock(t) PROVE NobodyStranded'
  <2>1. ~Free'
    BY <1>0, <1>3, ThreadsAssumption DEF Lock, LockBusy, Free, TypeOK
  <2> QED BY <2>1 DEF NobodyStranded, Free
<1>4. ASSUME NEW t \in Threads, LockReadonly(t) PROVE NobodyStranded'
  <2>1. CASE ~ReadBusy
    <3>1. ~Free'
      BY <1>0, <1>4, <2>1 DEF LockReadonly, Free, TypeOK
    <3> QED BY <3>1 DEF NobodyStranded, Free
  <2>2. CASE holder # NoThread
    BY <1>4, <2>2 DEF LockReadonly, NobodyStranded
  <2>3. CASE holder = NoThread /\ waiter_queue # <<>>
    <3> SUFFICES ASSUME Free PROVE NobodyStranded'
      BY <1>4, <2>3 DEF LockReadonly, NobodyStranded, Free, ReadBusy
    <3>1. PICK u \in Threads : WriterComing(u)
      BY <2>3 DEF NobodyStranded, Free
    <3>2. WriterComing(u)'
      BY <1>0, <1>4, <3>1 DEF LockReadonly, Goto, TypeOK, WriterComing
    <3> QED BY <3>2 DEF NobodyStranded
  <2> QED BY <2>1, <2>2, <2>3 DEF ReadBusy
<1>5. ASSUME NEW t \in Threads, Resume(t) PROVE NobodyStranded'
  <2>1. \A u \in Threads : /\ WriterComing(u) => WriterComing(u)'
                           /\ ReaderComing(u) => ReaderComing(u)'
    BY <1>0, <1>5 DEF Resume, Goto, TypeOK, WriterComing, ReaderComing
  <2> QED BY <1>1, <1>5, <2>1 DEF Resume, queues
<1>6. ASSUME NEW t \in Threads, Unlock(t) PROVE NobodyStranded'
  BY <1>0, <1>6, UnlockStrandsNobody DEF Unlock
<1>7. ASSUME NEW t \in Threads, CondWaitUnlock(t) PROVE NobodyStranded'
  BY <1>0, <1>7, UnlockStrandsNobody DEF CondWaitUnlock
<1>8. ASSUME NEW t \in Threads, at[t] = "writing", UNCHANGED holder PROVE NobodyStranded'
  <2>1. holder' # NoThread
    BY <1>0, <1>8, ThreadsAssumption DEF HolderTruth, Writers
  <2> QED BY <2>1 DEF NobodyStranded
<1>9. ASSUME NEW t \in Threads, NEW c \in Conds, CondWait(t, c) \/ CondSignal(t, c) \/ CondBroadcast(t, c)
      PROVE  NobodyStranded'
  BY <1>8, <1>9 DEF CondWait, CondSignal, CondBroadcast
<1>10. CASE UNCHANGED vars
  BY <1>10 DEF vars, queues, NobodyStranded, WriterComing, ReaderComing
<1> QED BY <1>2, <1>3, <1>4, <1>5, <1>6, <1>7, <1>9, <1>10 DEF Next, Step

(* uthread_mutex_unlock: whoever loses the race for a freed mutex, somebody is always on
   the way who will pass it on. *)
THEOREM StrandedCorrect == Spec => []NobodyStranded
<1>1. Init => NobodyStranded
  BY DEF Init, NobodyStranded
<1> QED BY <1>1, InvInit, InvStep, QueueInvInit, QueueInvStep, StrandedStep, PTL DEF Spec

(***************************************************************************)
(* The Mesa monitor that clients see.                                       *)
(***************************************************************************)
LastOn(q) == q[Len(q)]

(* A thread that has queued itself and holds the mutex still is the last on its queue: its
   unlock is the moment it begins to wait, behind all the others. *)
LastToQueue == \A t \in Threads :
  at[t] = "wait_unlock" => \E c \in Conds : cond_queue[c] # <<>> /\ LastOn(cond_queue[c]) = t

MesaInv == IInv /\ QueueInv /\ LastToQueue

LEMMA OneWriter ==
  ASSUME IInv, NEW t \in Threads, at[t] = "writing"
  PROVE  /\ holder = t /\ Writers = {t} /\ Readers = {}
         /\ \A u \in Threads : at[u] # "wait_unlock"
BY ThreadsAssumption DEF IInv, HolderTruth, Writers

LEMMA LastToQueueStep == ASSUME MesaInv, [Next]_vars PROVE LastToQueue'
<1>0. TypeOK
  BY DEF MesaInv, IInv
<1>1. ASSUME UNCHANGED cond_queue,
             \A u \in Threads : at'[u] = "wait_unlock" => at[u] = "wait_unlock"
      PROVE  LastToQueue'
  BY <1>1 DEF MesaInv, LastToQueue
<1>2. ASSUME NEW t \in Threads, Call(t) \/ Step(t) PROVE LastToQueue'
  <2>1. UNCHANGED cond_queue
    BY <1>2 DEF Call, Step, Lock, LockReadonly, Resume, Unlock, CondWaitUnlock, queues
  <2>2. \E l \in Places \ {"wait_unlock"} : Goto(t, l)
    BY <1>2 DEF Call, Step, Lock, LockReadonly, Resume, Unlock, CondWaitUnlock, Places
  <2> QED BY <1>0, <1>1, <2>1, <2>2 DEF Goto, TypeOK
<1>3. ASSUME NEW t \in Threads, NEW c \in Conds, CondWait(t, c) PROVE LastToQueue'
  <2>1. t \notin Range(cond_queue[c])
    BY <1>3 DEF CondWait, MesaInv, QueueInv, WaiterInPlace, OnConds
  <2>2. cond_queue'[c] = Append(cond_queue[c], t)
    BY <1>0, <1>3, <2>1 DEF CondWait, Enqueue, TypeOK
  <2>3. cond_queue'[c] # <<>> /\ LastOn(cond_queue'[c]) = t
    BY <1>0, <2>2, LastOff DEF TypeOK, LastOn
  <2>4. \A u \in Threads : at'[u] = "wait_unlock" => u = t
    BY <1>0, <1>3, OneWriter DEF CondWait, Goto, TypeOK, MesaInv
  <2> QED BY <2>3, <2>4 DEF LastToQueue
<1>4. ASSUME NEW t \in Threads, NEW c \in Conds, CondSignal(t, c) \/ CondBroadcast(t, c)
      PROVE  LastToQueue'
  <2>1. at[t] = "writing" /\ at' = at
    BY <1>4 DEF CondSignal, CondBroadcast
  <2> QED BY <2>1, OneWriter DEF LastToQueue, MesaInv
<1>5. CASE UNCHANGED vars
  BY <1>1, <1>5 DEF vars, queues
<1> QED BY <1>2, <1>3, <1>4, <1>5 DEF Next

LEMMA MesaInvStep == MesaInv /\ [Next]_vars => MesaInv'
BY InvStep, QueueInvStep, LastToQueueStep DEF MesaInv

(* A thread that is on no condition's queue changes its own role only, and no waiting. *)
LEMMA OwnRoleOnly ==
  ASSUME TypeOK, NEW t \in Threads, t \notin OnConds, NEW l, Goto(t, l), UNCHANGED cond_queue
  PROVE  /\ \A u \in Threads : u # t => RoleOf(u)' = RoleOf(u)
         /\ \A c \in Conds : LetGo(cond_queue[c])' = LetGo(cond_queue[c])
<1>1. \A u \in Threads : u # t => at'[u] = at[u]
  BY DEF TypeOK, Goto
<1>2. OnConds' = OnConds
  BY DEF OnConds
<1>3. ASSUME NEW c \in Conds PROVE LetGo(cond_queue[c])' = LetGo(cond_queue[c])
  <2>1. CASE cond_queue[c] = <<>>
    BY <2>1 DEF LetGo
  <2>2. CASE cond_queue[c] # <<>>
    <3> DEFINE u == cond_queue[c][Len(cond_queue[c])]
    <3>1. u \in Threads /\ u \in Range(cond_queue[c])
      BY <2>2, LastOff DEF TypeOK
    <3>2. u # t
      BY <3>1 DEF OnConds
    <3>3. at'[u] = at[u]
      BY <1>1, <3>1, <3>2
    <3> QED BY <2>2, <3>3 DEF LetGo
  <2> QED BY <2>1, <2>2
<1>4. ASSUME NEW u \in Threads, u # t PROVE RoleOf(u)' = RoleOf(u)
  BY <1>1, <1>2, <1>4 DEF RoleOf
<1> QED BY <1>3, <1>4

(* While a thread holds the mutex to write nobody is between queueing and letting go. *)
LEMMA AllLetGo ==
  ASSUME IInv, NEW t \in Threads, at[t] = "writing", NEW q \in Seq(Threads)
  PROVE  LetGo(q) = q
<1>1. CASE q # <<>>
  <2>1. q[Len(q)] \in Threads
    BY <1>1, LastOff
  <2> QED BY <2>1, OneWriter DEF LetGo
<1>2. CASE q = <<>>
  BY <1>2 DEF LetGo
<1> QED BY <1>1, <1>2

(* Nor after a step in which nobody moves. *)
LEMMA NoneLetsGo ==
  ASSUME IInv, NEW t \in Threads, at[t] = "writing", UNCHANGED at,
         NEW c \in Conds, cond_queue'[c] \in Seq(Threads)
  PROVE  LetGo(cond_queue[c])' = cond_queue'[c]
<1> DEFINE q == cond_queue'[c]
<1>1. q # <<>> => q[Len(q)] \in Threads
  BY LastOff
<1>2. q # <<>> => at'[q[Len(q)]] # "wait_unlock"
  BY <1>1, OneWriter
<1> QED BY <1>2 DEF LetGo

LEMMA InitIsMesa == Init => Abstract!Init
<1> SUFFICES ASSUME Init PROVE Abstract!Init
  OBVIOUS
<1>1. \A t \in Threads : RoleOf(t) = "out"
  BY DEF Init, RoleOf
<1>2. \A c \in Conds : LetGo(cond_queue[c]) = <<>>
  BY DEF Init, LetGo
<1> QED BY <1>1, <1>2 DEF Abstract!Init

(* What uthread_mutex_unlock and the rest do to the roles of the threads and to those who
   wait is a step of the monitor, or none. *)
LEMMA MesaStep == MesaInv /\ [Next]_vars => [Abstract!Next]_Abstract!vars
<1> SUFFICES ASSUME MesaInv, [Next]_vars PROVE [Abstract!Next]_Abstract!vars
  OBVIOUS
<1> DEFINE role == [u \in Threads |-> RoleOf(u)]
           waiting == [c \in Conds |-> LetGo(cond_queue[c])]
<1>0. TypeOK /\ HolderTruth /\ WaiterInPlace /\ OneCondition /\ IInv
  BY DEF MesaInv, IInv, QueueInv
<1>1. ASSUME NEW t \in Threads, t \notin OnConds, NEW l, Goto(t, l), UNCHANGED cond_queue
      PROVE  role' = [role EXCEPT ![t] = RoleOf(t)'] /\ waiting' = waiting
  BY <1>0, <1>1, OwnRoleOnly
<1>2. ASSUME NEW t \in Threads, Call(t) PROVE Abstract!Request(t)
  <2>1. t \notin OnConds /\ UNCHANGED cond_queue
    BY <1>0, <1>2 DEF Call, WaiterInPlace, queues
  <2>2. RoleOf(t) = "out" /\ RoleOf(t)' \in {"want", "wantRead"}
    BY <1>0, <1>2 DEF Call, Goto, TypeOK, RoleOf
  <2>3. role' = [role EXCEPT ![t] = RoleOf(t)'] /\ waiting' = waiting
    BY <1>1, <1>2, <2>1 DEF Call
  <2> QED BY <2>2, <2>3 DEF Abstract!Request, Abstract!Become
<1>3. ASSUME NEW t \in Threads, Lock(t) PROVE Abstract!Acquire(t) \/ UNCHANGED Abstract!vars
  <2>1. t \notin OnConds /\ UNCHANGED cond_queue /\ RoleOf(t) = "want"
    BY <1>0, <1>3 DEF Lock, WaiterInPlace, RoleOf
  <2>2. role' = [role EXCEPT ![t] = RoleOf(t)'] /\ waiting' = waiting
    BY <1>1, <1>3, <2>1 DEF Lock
  <2>3. CASE LockBusy
    <3>1. RoleOf(t)' = "want"
      BY <1>0, <1>3, <2>3 DEF Lock, Goto, TypeOK, RoleOf
    <3> QED BY <2>1, <2>2, <3>1 DEF Abstract!vars
  <2>4. CASE ~LockBusy
    <3>1. RoleOf(t)' = "write"
      BY <1>0, <1>3, <2>4 DEF Lock, Goto, TypeOK, RoleOf
    <3>2. Writers = {} /\ Readers = {}
      <4>1. holder = NoThread /\ Cardinality(Readers) = 0
        BY <1>0, <2>4 DEF LockBusy, TypeOK, HolderTruth
      <4> QED BY <1>0, <4>1, ThreadsAssumption, ReadersFinite, FS_EmptySet DEF HolderTruth, Writers
    <3>3. \A u \in Threads : RoleOf(u) \notin {"write", "read"}
      BY <3>2 DEF Writers, Readers, RoleOf
    <3> QED BY <2>1, <2>2, <3>1, <3>3 DEF Abstract!Acquire, Abstract!Others, Abstract!Become
  <2> QED BY <2>3, <2>4
<1>4. ASSUME NEW t \in Threads, LockReadonly(t) PROVE Abstract!Acquire(t) \/ UNCHANGED Abstract!vars
  <2>1. t \notin OnConds /\ UNCHANGED cond_queue /\ RoleOf(t) = "wantRead"
    BY <1>0, <1>4 DEF LockReadonly, WaiterInPlace, RoleOf
  <2>2. role' = [role EXCEPT ![t] = RoleOf(t)'] /\ waiting' = waiting
    BY <1>1, <1>4, <2>1 DEF LockReadonly
  <2>3. CASE ReadBusy
    <3>1. RoleOf(t)' = "wantRead"
      BY <1>0, <1>4, <2>3 DEF LockReadonly, Goto, TypeOK, RoleOf
    <3> QED BY <2>1, <2>2, <3>1 DEF Abstract!vars
  <2>4. CASE ~ReadBusy
    <3>1. RoleOf(t)' = "read"
      BY <1>0, <1>4, <2>4 DEF LockReadonly, Goto, TypeOK, RoleOf
    <3>2. Writers = {}
      BY <1>0, <2>4, ThreadsAssumption DEF ReadBusy, HolderTruth, Writers
    <3>3. \A u \in Threads : RoleOf(u) # "write"
      BY <3>2 DEF Writers, RoleOf
    <3> QED BY <2>1, <2>2, <3>1, <3>3 DEF Abstract!Acquire, Abstract!Others, Abstract!Become
  <2> QED BY <2>3, <2>4
<1>5. ASSUME NEW t \in Threads, Resume(t) PROVE UNCHANGED Abstract!vars
  <2>1. t \notin OnConds /\ UNCHANGED cond_queue
    BY <1>0, <1>5 DEF Resume, WaiterInPlace, queues
  <2>2. RoleOf(t)' = RoleOf(t)
    BY <1>0, <1>5, <2>1 DEF Resume, Goto, TypeOK, RoleOf
  <2>3. role' = [role EXCEPT ![t] = RoleOf(t)'] /\ waiting' = waiting
    BY <1>1, <1>5, <2>1 DEF Resume
  <2> QED BY <2>2, <2>3 DEF Abstract!vars
<1>6. ASSUME NEW t \in Threads, Unlock(t) PROVE Abstract!Release(t)
  <2>1. t \notin OnConds /\ UNCHANGED cond_queue
    BY <1>0, <1>6 DEF Unlock, WaiterInPlace
  <2>2. RoleOf(t) \in {"write", "read"} /\ RoleOf(t)' = "out"
    BY <1>0, <1>6 DEF Unlock, Goto, TypeOK, RoleOf
  <2>3. role' = [role EXCEPT ![t] = RoleOf(t)'] /\ waiting' = waiting
    BY <1>1, <1>6, <2>1 DEF Unlock
  <2> QED BY <2>2, <2>3 DEF Abstract!Release, Abstract!Become
<1>7. ASSUME NEW t \in Threads, NEW c \in Conds, CondWait(t, c) PROVE UNCHANGED Abstract!vars
  <2>1. t \notin OnConds /\ OnConds' = OnConds \cup {t}
    BY <1>0, <1>7, CondJoins DEF CondWait, WaiterInPlace
  <2>2. at'[t] = "wait_unlock" /\ at[t] = "writing" /\ \A u \in Threads : u # t => at'[u] = at[u]
    BY <1>0, <1>7 DEF CondWait, Goto, TypeOK
  <2>3. ASSUME NEW u \in Threads PROVE RoleOf(u)' = RoleOf(u)
    BY <2>1, <2>2, <2>3 DEF RoleOf
  <2>4. ASSUME NEW d \in Conds PROVE LetGo(cond_queue[d])' = LetGo(cond_queue[d])
    <3>1. LetGo(cond_queue[d]) = cond_queue[d] /\ cond_queue[d] \in Seq(Threads) /\ t \notin Range(cond_queue[d])
      BY <1>0, <2>1, <2>2, AllLetGo DEF TypeOK, OnConds
    <3>2. CASE d = c
      <4>1. cond_queue'[c] = Append(cond_queue[c], t)
        BY <1>0, <1>7, <3>1, <3>2 DEF CondWait, Enqueue, TypeOK
      <4>2. /\ Append(cond_queue[c], t) # <<>> /\ LastOn(Append(cond_queue[c], t)) = t
            /\ SubSeq(Append(cond_queue[c], t), 1, Len(Append(cond_queue[c], t)) - 1) = cond_queue[c]
        BY <3>1, <3>2, LastOff DEF LastOn
      <4>3. LetGo(cond_queue[c])' = SubSeq(cond_queue'[c], 1, Len(cond_queue'[c]) - 1)
        BY <2>2, <4>1, <4>2 DEF LetGo, LastOn
      <4> QED BY <3>1, <3>2, <4>1, <4>2, <4>3
    <3>3. CASE d # c
      <4>1. cond_queue'[d] = cond_queue[d]
        BY <1>0, <1>7, <3>3 DEF CondWait, TypeOK
      <4>2. cond_queue[d] # <<>> => at'[LastOn(cond_queue[d])] = at[LastOn(cond_queue[d])]
        BY <2>2, <3>1, LastOff DEF LastOn
      <4> QED BY <4>1, <4>2 DEF LetGo, LastOn
    <3> QED BY <3>2, <3>3
  <2> QED BY <2>3, <2>4 DEF Abstract!vars
<1>8. ASSUME NEW t \in Threads, CondWaitUnlock(t) PROVE \E c \in Conds : Abstract!Wait(t, c)
  <2>1. at[t] = "wait_unlock" /\ Goto(t, "wait_sleep") /\ UNCHANGED cond_queue
    BY <1>8 DEF CondWaitUnlock
  <2>2. PICK c \in Conds : cond_queue[c] # <<>> /\ LastOn(cond_queue[c]) = t
    BY <2>1 DEF MesaInv, LastToQueue
  <2>3. at'[t] = "wait_sleep" /\ \A u \in Threads : u # t => at'[u] = at[u]
    BY <1>0, <2>1 DEF Goto, TypeOK
  <2>4. OnConds' = OnConds /\ t \in OnConds
    BY <1>0, <2>1 DEF OnConds, WaiterInPlace
  <2>5. role[t] = "write" /\ role' = [role EXCEPT ![t] = "wait"]
    BY <2>1, <2>3, <2>4 DEF RoleOf
  <2>6. LetGo(cond_queue[c])' = Append(LetGo(cond_queue[c]), t)
    <3>1. cond_queue[c] \in Seq(Threads)
      BY <1>0 DEF TypeOK
    <3>2. LetGo(cond_queue[c])' = cond_queue[c]
      BY <2>1, <2>2, <2>3 DEF LetGo, LastOn
    <3>3. LetGo(cond_queue[c]) = SubSeq(cond_queue[c], 1, Len(cond_queue[c]) - 1)
      BY <2>1, <2>2 DEF LetGo, LastOn
    <3> QED BY <2>2, <3>1, <3>2, <3>3, LastOff DEF LastOn
  <2>7. ASSUME NEW d \in Conds, d # c PROVE LetGo(cond_queue[d])' = LetGo(cond_queue[d])
    <3>1. cond_queue[c] \in Seq(Threads) /\ cond_queue[d] \in Seq(Threads)
      BY <1>0 DEF TypeOK
    <3>2. t \in Range(cond_queue[c])
      BY <2>2, <3>1, LastOff DEF LastOn
    <3>3. t \notin Range(cond_queue[d])
      BY <1>0, <2>7, <3>2 DEF OneCondition
    <3>4. cond_queue[d] # <<>> => at'[LastOn(cond_queue[d])] = at[LastOn(cond_queue[d])]
      BY <2>3, <3>1, <3>3, LastOff DEF LastOn
    <3> QED BY <2>1, <3>4 DEF LetGo, LastOn
  <2>8. waiting' = [waiting EXCEPT ![c] = Append(@, t)]
    BY <2>6, <2>7
  <2> HIDE DEF role, waiting
  <2>9. Abstract!Wait(t, c)
    BY <2>5, <2>8 DEF Abstract!Wait, Abstract!Become, role, waiting
  <2> QED BY <2>9
<1>9. ASSUME NEW t \in Threads, NEW c \in Conds, CondSignal(t, c) PROVE Abstract!Signal(t, c)
  <2> DEFINE h == Head(cond_queue[c])
  <2>1. /\ at[t] = "writing" /\ at' = at /\ cond_queue[c] # <<>>
        /\ cond_queue' = [cond_queue EXCEPT ![c] = Tail(@)]
    BY <1>9 DEF CondSignal, SignalLeaves
  <2>2. OnConds' = OnConds \ {h} /\ h \in OnConds /\ OnConds \subseteq Threads
    <3>1. OnConds \subseteq Threads
      BY <1>0, EmptyRange DEF OnConds, TypeOK
    <3> QED BY <1>0, <2>1, <3>1, CondLeaves
  <2>3. at[h] = "wait_sleep"
    BY <1>0, <2>1, <2>2, OneWriter DEF WaiterInPlace
  <2>4. role[t] = "write" /\ role' = [role EXCEPT ![h] = "want"]
    BY <2>1, <2>2, <2>3 DEF RoleOf
  <2>5. \A d \in Conds : /\ LetGo(cond_queue[d]) = cond_queue[d]
                         /\ LetGo(cond_queue[d])' = cond_queue'[d]
    <3>1. ASSUME NEW d \in Conds
          PROVE  cond_queue[d] \in Seq(Threads) /\ cond_queue'[d] \in Seq(Threads)
      BY <1>0, <2>1, TailRest DEF TypeOK
    <3>2. ASSUME NEW d \in Conds PROVE LetGo(cond_queue[d])' = cond_queue'[d]
      BY <1>0, <2>1, <3>1, NoneLetsGo
    <3> QED BY <1>0, <2>1, <3>1, <3>2, AllLetGo
  <2>6. waiting[c] = cond_queue[c] /\ waiting' = [waiting EXCEPT ![c] = Tail(@)]
    BY <1>0, <2>1, <2>5 DEF TypeOK
  <2> QED BY <2>1, <2>4, <2>6 DEF Abstract!Signal, Abstract!Become
<1>10. ASSUME NEW t \in Threads, NEW c \in Conds, CondBroadcast(t, c) PROVE Abstract!Broadcast(t, c)
  <2>1. /\ at[t] = "writing" /\ at' = at /\ cond_queue[c] # <<>>
        /\ cond_queue' = [cond_queue EXCEPT ![c] = <<>>]
    BY <1>10 DEF CondBroadcast
  <2>2. OnConds' = OnConds \ Range(cond_queue[c]) /\ Range(cond_queue[c]) \subseteq OnConds
    BY <1>0, <2>1, CondLeaves
  <2>3. \A u \in Range(cond_queue[c]) \cap Threads : at[u] = "wait_sleep"
    BY <1>0, <2>1, <2>2, OneWriter DEF WaiterInPlace
  <2>4. role[t] = "write"
    BY <2>1 DEF RoleOf
  <2>5. role' = [u \in Threads |-> IF u \in Range(cond_queue[c]) THEN "want" ELSE role[u]]
    BY <2>1, <2>2, <2>3 DEF RoleOf
  <2>6. \A d \in Conds : /\ LetGo(cond_queue[d]) = cond_queue[d]
                         /\ LetGo(cond_queue[d])' = cond_queue'[d]
    <3>1. ASSUME NEW d \in Conds
          PROVE  cond_queue[d] \in Seq(Threads) /\ cond_queue'[d] \in Seq(Threads)
      BY <1>0, <2>1 DEF TypeOK
    <3>2. ASSUME NEW d \in Conds PROVE LetGo(cond_queue[d])' = cond_queue'[d]
      BY <1>0, <2>1, <3>1, NoneLetsGo
    <3> QED BY <1>0, <2>1, <3>1, <3>2, AllLetGo
  <2>7. waiting[c] = cond_queue[c] /\ waiting' = [waiting EXCEPT ![c] = <<>>]
    BY <1>0, <2>1, <2>6 DEF TypeOK
  <2>8. Abstract!Range(cond_queue[c]) = Range(cond_queue[c])
    BY DEF Abstract!Range, Range
  <2> QED BY <2>1, <2>4, <2>5, <2>7, <2>8 DEF Abstract!Broadcast
<1>11. CASE UNCHANGED vars
  BY <1>11 DEF vars, queues, Abstract!vars, RoleOf, LetGo, OnConds
<1> HIDE DEF role, waiting
<1> QED BY <1>2, <1>3, <1>4, <1>5, <1>6, <1>7, <1>8, <1>9, <1>10, <1>11 DEF Next, Step, Abstract!Next

(* uthread_mutex_cond.h: whatever the threads call and in whatever order they run, queues,
   wakeups and retries are a Mesa monitor to them; no uthread_cond_wait returns without a
   signal or a broadcast meant for it. *)
THEOREM MonitorImplements == Spec => ImplementsMesa
<1>1. Init => MesaInv
  BY InvInit, QueueInvInit DEF MesaInv, LastToQueue, Init
<1> QED BY <1>1, InitIsMesa, MesaInvStep, MesaStep, PTL DEF Spec, ImplementsMesa, Abstract!Spec
=============================================================================
