---------------------------- MODULE ReadersProofs ----------------------------
(***************************************************************************)
(* Nobody spins, service routines find their read done, main returns last   *)
(* and prints the right answer: proved for every reader, every story and    *)
(* any depth of nested handlers.  There are three invariants.               *)
(*                                                                          *)
(* IInv is about prq_mutex.  It is only held at "loop", and there the       *)
(* signal is masked, so that the holder is on top of the stack.  That a     *)
(* lock masks the signal depends on isInterrupt: a frame at "lock" must not *)
(* run with the flag set and the signal on.  The flag is set only while     *)
(* some frame is inside its interrupt service routine; a frame at "lock"    *)
(* whose flag is set has it from a frame below, in a handler that the       *)
(* kernel masked, or has been interrupted by a frame above that is inside   *)
(* (LockSafe).                                                              *)
(*                                                                          *)
(* RInv is about the reads.  Each one is scheduled, then pending at the     *)
(* disk, then coming to a service routine, then being served; the frames    *)
(* that are under way with one are counted.  The queue of the program is    *)
(* the queue of the disk, with the reads that are coming in front of it     *)
(* (QueueFollows), and pending_reads is never below the number of reads     *)
(* that are still to be served (Left): a lost decrement leaves it higher.   *)
(*                                                                          *)
(* AInv is about what is read: the request that main waits for is for the   *)
(* block it needs, and aRead's blocks are written, delivered and added in   *)
(* their order while handlers do not nest (AddingUp).  Total and Trail are  *)
(* recursive; that they are what they say takes induction over the numbers, *)
(* which Upward gives for a set of numbers.                                 *)
(***************************************************************************)
EXTENDS Readers, SharedTheorems, SequenceTheorems

Main == {"request", "schedule", "spin", "returned"}

Inside == {"isr", "dequeue", "callback", "store_sum", "load_pending", "store_pending", "served"}

Places == Main \cup Inside \cup {"lock", "loop", "deliver"}

StackOK == /\ at \in Seq(Places) /\ Top > 0 /\ at[1] \in Main
           /\ masked \in BOOLEAN /\ isInterrupt \in BOOLEAN

HeldOnTop == prq_mutex # 0 => At("loop")
LoopMasked == At("loop") => masked
LoopOnTop == \A k \in 1..(Top - 1) : at[k] # "loop"
LockSafe == \A k \in 1..Top : at[k] = "lock" /\ isInterrupt =>
              (k = Top /\ masked) \/ \E j \in (k + 1)..Top : at[j] \in Inside

IInv == StackOK /\ HeldOnTop /\ LoopMasked /\ LoopOnTop /\ LockSafe

-----------------------------------------------------------------------------
(* What a move of the top frame does to the stack. *)
LEMMA GotoKeeps ==
  ASSUME StackOK, NEW place \in Places, Goto(place)
  PROVE  /\ at' \in Seq(Places)
         /\ Top' = Top /\ Top \in Nat /\ Top > 0
         /\ at'[Top] = place
         /\ \A k \in 1..(Top - 1) : at'[k] = at[k]
<1>1. at \in Seq(Places) /\ Len(at) \in Nat /\ Len(at) > 0
  BY DEF StackOK, Top
<1>2. at' = [at EXCEPT ![Len(at)] = place]
  BY DEF Goto, Top
<1>3. at' \in Seq(Places) /\ Len(at') = Len(at)
      /\ \A k \in 1..Len(at) : at'[k] = IF k = Len(at) THEN place ELSE at[k]
  BY <1>1, <1>2, ExceptSeq
<1> QED
  BY <1>1, <1>3 DEF Top

(* What an interrupt does to the stack. *)
LEMMA PushKeeps ==
  ASSUME StackOK, at' = Append(at, "lock")
  PROVE  /\ at' \in Seq(Places)
         /\ Top' = Top + 1 /\ Top \in Nat /\ Top > 0
         /\ at'[Top + 1] = "lock"
         /\ \A k \in 1..Top : at'[k] = at[k]
<1>1. at \in Seq(Places) /\ Len(at) \in Nat /\ Len(at) > 0
  BY DEF StackOK, Top
<1>2. "lock" \in Places
  BY DEF Places
<1>3. at' \in Seq(Places) /\ Len(at') = Len(at) + 1
      /\ at'[Len(at) + 1] = "lock" /\ \A k \in 1..Len(at) : at'[k] = at[k]
  BY <1>1, <1>2, AppendProperties
<1> QED
  BY <1>1, <1>3 DEF Top

(* What a return does to the stack. *)
LEMMA PopKeeps ==
  ASSUME StackOK, Top > 1, at' = SubSeq(at, 1, Top - 1)
  PROVE  /\ at' \in Seq(Places)
         /\ Top' = Top - 1 /\ Top \in Nat
         /\ \A k \in 1..(Top - 1) : at'[k] = at[k]
<1>1. at \in Seq(Places) /\ Len(at) \in Nat /\ Len(at) > 1
  BY DEF StackOK, Top
<1> QED
  BY <1>1 DEF Top

-----------------------------------------------------------------------------
LEMMA InitHolds == Init => IInv
<1> SUFFICES ASSUME Init PROVE IInv
  OBVIOUS
<1>1. at = <<"request">> /\ masked = FALSE /\ isInterrupt = FALSE /\ prq_mutex = 0
  BY DEF Init, DiskInit
<1>2. at \in Seq(Places) /\ Len(at) = 1 /\ at[1] = "request"
  BY <1>1 DEF Places, Main
<1>3. StackOK
  <2>1. at \in Seq(Places) /\ Top > 0 /\ at[1] \in Main
    BY <1>2 DEF Top, Main
  <2>2. masked \in BOOLEAN /\ isInterrupt \in BOOLEAN
    BY <1>1
  <2> QED
    BY <2>1, <2>2 DEF StackOK
<1>4. HeldOnTop /\ LoopMasked
  BY <1>1, <1>2 DEF HeldOnTop, LoopMasked, Top, At
<1>5. LoopOnTop /\ LockSafe
  BY <1>1, <1>2 DEF LoopOnTop, LockSafe, Top
<1> QED
  BY <1>3, <1>4, <1>5 DEF IInv

(* A step that moves the top frame to a place where it neither holds nor wants the disk's
   mutex, and does not leave its service routine. *)
LEMMA MoveKeeps ==
  ASSUME IInv, NEW place \in Places, Goto(place), place \notin {"lock", "loop"},
         prq_mutex' = 0, masked' \in BOOLEAN, isInterrupt' = isInterrupt,
         Top = 1 => place \in Main, at[Top] \in Inside => place \in Inside
  PROVE  IInv'
<1>1. StackOK /\ LoopOnTop /\ LockSafe
  BY DEF IInv
<1>2. /\ at' \in Seq(Places)
      /\ Top' = Top /\ Top \in Nat /\ Top > 0
      /\ at'[Top] = place
      /\ \A k \in 1..(Top - 1) : at'[k] = at[k]
  BY <1>1, GotoKeeps
<1>3. StackOK'
  BY <1>1, <1>2 DEF StackOK
<1>4. LoopOnTop'
  BY <1>1, <1>2 DEF LoopOnTop
<1>5. LockSafe'
  <2> SUFFICES ASSUME NEW k \in 1..Top, at'[k] = "lock", isInterrupt
               PROVE  \E j \in (k + 1)..Top : at'[j] \in Inside
    BY <1>2 DEF LockSafe
  <2>1. k < Top /\ at[k] = "lock"
    BY <1>2
  <2>2. PICK j \in (k + 1)..Top : at[j] \in Inside
    BY <1>1, <1>2, <2>1 DEF LockSafe
  <2> QED
    BY <1>2, <2>1, <2>2
<1>6. HeldOnTop' /\ LoopMasked'
  BY <1>2 DEF HeldOnTop, LoopMasked, At
<1> QED
  BY <1>3, <1>4, <1>5, <1>6 DEF IInv

LEMMA MainKeeps == IInv /\ MainStep => IInv'
<1> SUFFICES ASSUME IInv, MainStep PROVE IInv'
  OBVIOUS
<1>1. PICK place \in Main : Goto(place)
  BY DEF MainStep, Announce, Schedule, SpinEnds, Return, Main
<1>2. at[Top] \in Main
  BY DEF MainStep, Announce, Schedule, SpinEnds, Return, Main, At
<1>3. UNCHANGED <<masked, isInterrupt, prq_mutex>>
  BY DEF MainStep, Announce, Schedule, ScheduleRead, SpinEnds, Return, machine
<1>4. prq_mutex = 0 /\ masked \in BOOLEAN
  BY <1>2 DEF IInv, StackOK, HeldOnTop, At, Main
<1> QED
  BY <1>1, <1>2, <1>3, <1>4, MoveKeeps DEF Main, Inside, Places

LEMMA IsrKeeps == IInv /\ IsrStep => IInv'
<1> SUFFICES ASSUME IInv, IsrStep PROVE IInv'
  OBVIOUS
<1>1. PICK place \in Inside : Goto(place)
  BY DEF IsrStep, ClearFlag, LockQueue, Dequeue, LoadSum, StoreSum, LoadPending, StorePending,
         FirstRead, Compute, Inside
<1>2. at[Top] \in Inside
  BY DEF IsrStep, ClearFlag, LockQueue, Dequeue, LoadSum, StoreSum, LoadPending, StorePending,
         FirstRead, Calls, At, Inside
<1>3. UNCHANGED <<isInterrupt, prq_mutex>>
  BY DEF IsrStep, ClearFlag, LockQueue, Dequeue, LoadSum, StoreSum, LoadPending, StorePending,
         FirstRead, machine
<1>4. prq_mutex = 0 /\ masked \in BOOLEAN /\ Top # 1
  BY <1>2 DEF IInv, StackOK, HeldOnTop, At, Main, Inside
<1>5. masked' = masked \/ masked' = (masked \/ ~isInterrupt) \/ masked' = (masked /\ isInterrupt)
  BY DEF IsrStep, ClearFlag, LockQueue, Dequeue, LoadSum, StoreSum, LoadPending, StorePending,
         FirstRead, machine, MaskToLock, UnmaskAfterLock
<1>6. masked' \in BOOLEAN
  BY <1>4, <1>5
<1> QED
  BY <1>1, <1>2, <1>3, <1>4, <1>6, MoveKeeps DEF Inside, Places

LEMMA CompleteReadKeeps == IInv /\ CompleteRead => IInv'
<1> SUFFICES ASSUME IInv, CompleteRead PROVE IInv'
  OBVIOUS
<1>1. Goto("deliver") /\ at[Top] = "loop" /\ prq_mutex' = 0 /\ isInterrupt' = isInterrupt
  BY DEF CompleteRead, At
<1>2. masked' \in BOOLEAN
  BY DEF CompleteRead, UnmaskAfterLock
<1>3. Top # 1
  BY <1>1 DEF IInv, StackOK, Main
<1> QED
  BY <1>1, <1>2, <1>3, MoveKeeps DEF Inside, Places

(* The lock masks the signal, unless it was taken with isInterrupt set; then the kernel has. *)
LEMMA LockRequestsKeeps == IInv /\ LockRequests => IInv'
<1> SUFFICES ASSUME IInv, LockRequests PROVE IInv'
  OBVIOUS
<1>1. StackOK /\ LoopOnTop /\ LockSafe
  BY DEF IInv
<1>2. /\ Goto("loop") /\ at[Top] = "lock" /\ isInterrupt' = isInterrupt
      /\ masked' = (masked \/ ~isInterrupt)
  BY DEF LockRequests, At, MaskToLock
<1>3. /\ at' \in Seq(Places)
      /\ Top' = Top /\ Top \in Nat /\ Top > 0
      /\ at'[Top] = "loop"
      /\ \A k \in 1..(Top - 1) : at'[k] = at[k]
  BY <1>1, <1>2, GotoKeeps DEF Places
<1>4. StackOK'
  <2>1. Top # 1
    BY <1>1, <1>2 DEF StackOK, Main
  <2> QED
    BY <1>1, <1>2, <1>3, <2>1 DEF StackOK
<1>5. HeldOnTop'
  BY <1>3 DEF HeldOnTop, At
<1>6. LoopMasked'
  <2>1. isInterrupt => masked
    BY <1>1, <1>2, <1>3 DEF LockSafe
  <2> QED
    BY <1>1, <1>2, <2>1 DEF LoopMasked, StackOK
<1>7. LoopOnTop'
  BY <1>1, <1>3 DEF LoopOnTop
<1>8. LockSafe'
  <2> SUFFICES ASSUME NEW k \in 1..Top, at'[k] = "lock", isInterrupt
               PROVE  \E j \in (k + 1)..Top : at'[j] \in Inside
    BY <1>2, <1>3 DEF LockSafe
  <2>1. k < Top /\ at[k] = "lock"
    BY <1>3
  <2>2. PICK j \in (k + 1)..Top : at[j] \in Inside
    BY <1>1, <1>3, <2>1 DEF LockSafe
  <2>3. j # Top
    BY <1>2, <2>2 DEF Inside
  <2> QED
    BY <1>3, <2>1, <2>2, <2>3
<1> QED
  BY <1>4, <1>5, <1>6, <1>7, <1>8 DEF IInv

(* The frame below may be at "lock": then no frame above it is inside, and the flag is off. *)
LEMMA HandlerReturnsKeeps == IInv /\ HandlerReturns => IInv'
<1> SUFFICES ASSUME IInv, HandlerReturns PROVE IInv'
  OBVIOUS
<1>1. StackOK /\ LoopOnTop /\ LockSafe
  BY DEF IInv
<1>2. /\ at[Top] = "loop" /\ at' = SubSeq(at, 1, Top - 1)
      /\ isInterrupt' = isInterrupt /\ prq_mutex' = 0 /\ masked' = FALSE
  BY DEF HandlerReturns, At
<1>3. Top > 1
  BY <1>1, <1>2 DEF StackOK, Main, Top
<1>4. /\ at' \in Seq(Places)
      /\ Top' = Top - 1 /\ Top \in Nat
      /\ \A k \in 1..(Top - 1) : at'[k] = at[k]
  BY <1>1, <1>2, <1>3, PopKeeps
<1>5. StackOK'
  <2>1. Top' > 0 /\ at'[1] \in Main
    BY <1>1, <1>3, <1>4 DEF StackOK
  <2>2. masked' \in BOOLEAN /\ isInterrupt' \in BOOLEAN
    BY <1>1, <1>2 DEF StackOK
  <2> QED
    BY <1>4, <2>1, <2>2 DEF StackOK
<1>6. HeldOnTop'
  BY <1>2 DEF HeldOnTop
<1>7. LoopMasked' /\ LoopOnTop'
  BY <1>1, <1>3, <1>4 DEF LoopMasked, LoopOnTop, At
<1>8. LockSafe'
  <2> SUFFICES ASSUME NEW k \in 1..(Top - 1), at'[k] = "lock", isInterrupt
               PROVE  \E j \in (k + 1)..(Top - 1) : at'[j] \in Inside
    BY <1>2, <1>4 DEF LockSafe
  <2>1. at[k] = "lock" /\ k < Top
    BY <1>4
  <2>2. PICK j \in (k + 1)..Top : at[j] \in Inside
    BY <1>1, <1>4, <2>1 DEF LockSafe
  <2>3. j # Top
    BY <1>2, <2>2 DEF Inside
  <2> QED
    BY <1>4, <2>2, <2>3
<1> QED
  BY <1>5, <1>6, <1>7, <1>8 DEF IInv

(* The flag goes on, and the frame that set it is inside, above every frame at "lock". *)
LEMMA DeliverInterruptKeeps == IInv /\ DeliverInterrupt => IInv'
<1> SUFFICES ASSUME IInv, DeliverInterrupt PROVE IInv'
  OBVIOUS
<1>1. StackOK /\ LoopOnTop /\ HeldOnTop
  BY DEF IInv
<1>2. /\ Goto("isr") /\ at[Top] = "deliver" /\ isInterrupt' = TRUE
      /\ masked' = masked /\ prq_mutex' = prq_mutex
  BY DEF DeliverInterrupt, At
<1>3. /\ at' \in Seq(Places)
      /\ Top' = Top /\ Top \in Nat /\ Top > 0
      /\ at'[Top] = "isr"
      /\ \A k \in 1..(Top - 1) : at'[k] = at[k]
  BY <1>1, <1>2, GotoKeeps DEF Places, Inside
<1>4. StackOK'
  <2>1. Top # 1
    BY <1>1, <1>2 DEF StackOK, Main
  <2> QED
    BY <1>1, <1>2, <1>3, <2>1 DEF StackOK
<1>5. HeldOnTop' /\ LoopMasked' /\ LoopOnTop'
  BY <1>1, <1>2, <1>3 DEF HeldOnTop, LoopMasked, LoopOnTop, At
<1>6. LockSafe'
  <2> SUFFICES ASSUME NEW k \in 1..Top, at'[k] = "lock"
               PROVE  \E j \in (k + 1)..Top : at'[j] \in Inside
    BY <1>3 DEF LockSafe
  <2>1. k < Top /\ "isr" \in Inside
    BY <1>3 DEF Inside
  <2> QED
    BY <1>3, <2>1
<1> QED
  BY <1>4, <1>5, <1>6 DEF IInv

(* The flag goes off before the frame wants the mutex again. *)
LEMMA InterruptServedKeeps == IInv /\ InterruptServed => IInv'
<1> SUFFICES ASSUME IInv, InterruptServed PROVE IInv'
  OBVIOUS
<1>1. StackOK /\ LoopOnTop /\ HeldOnTop
  BY DEF IInv
<1>2. /\ Goto("lock") /\ at[Top] = "served" /\ isInterrupt' = FALSE
      /\ masked' = masked /\ prq_mutex' = prq_mutex
  BY DEF InterruptServed, At
<1>3. /\ at' \in Seq(Places)
      /\ Top' = Top /\ Top \in Nat /\ Top > 0
      /\ at'[Top] = "lock"
      /\ \A k \in 1..(Top - 1) : at'[k] = at[k]
  BY <1>1, <1>2, GotoKeeps DEF Places
<1>4. StackOK'
  <2>1. Top # 1
    BY <1>1, <1>2 DEF StackOK, Main
  <2>2. at'[1] \in Main
    BY <1>1, <1>3, <2>1 DEF StackOK
  <2>3. masked' \in BOOLEAN /\ isInterrupt' \in BOOLEAN
    BY <1>1, <1>2 DEF StackOK
  <2> QED
    BY <1>3, <2>2, <2>3 DEF StackOK
<1>5. HeldOnTop' /\ LoopMasked' /\ LoopOnTop' /\ LockSafe'
  BY <1>1, <1>2, <1>3 DEF HeldOnTop, LoopMasked, LoopOnTop, LockSafe, At
<1> QED
  BY <1>4, <1>5 DEF IInv

(* The timer only interrupts a frame that runs with the signal on: not one that holds. *)
LEMMA TickKeeps == ASSUME IInv, NEW depth, Tick(depth) PROVE IInv'
<1>1. StackOK /\ LoopOnTop /\ LockSafe /\ LoopMasked /\ HeldOnTop
  BY DEF IInv
<1>2. /\ ~masked /\ masked' = TRUE /\ at' = Append(at, "lock")
      /\ isInterrupt' = isInterrupt /\ prq_mutex' = prq_mutex
  BY DEF Tick
<1>3. /\ at' \in Seq(Places)
      /\ Top' = Top + 1 /\ Top \in Nat /\ Top > 0
      /\ at'[Top + 1] = "lock"
      /\ \A k \in 1..Top : at'[k] = at[k]
  BY <1>1, <1>2, PushKeeps
<1>4. StackOK'
  BY <1>1, <1>2, <1>3 DEF StackOK
<1>5. at[Top] # "loop" /\ prq_mutex = 0
  BY <1>1, <1>2 DEF LoopMasked, HeldOnTop, At
<1>6. HeldOnTop' /\ LoopMasked' /\ LoopOnTop'
  <2>1. HeldOnTop'
    BY <1>2, <1>5 DEF HeldOnTop
  <2>2. LoopMasked'
    BY <1>3 DEF LoopMasked, At
  <2>3. \A k \in 1..Top : at[k] # "loop"
    BY <1>1, <1>3, <1>5 DEF LoopOnTop
  <2>4. LoopOnTop'
    BY <1>3, <2>3 DEF LoopOnTop
  <2> QED
    BY <2>1, <2>2, <2>4
<1>7. LockSafe'
  <2>1. masked'
    BY <1>2
  <2> SUFFICES ASSUME NEW k \in 1..(Top + 1), at'[k] = "lock", isInterrupt, k # Top + 1
               PROVE  \E j \in (k + 1)..(Top + 1) : at'[j] \in Inside
    BY <1>2, <1>3, <2>1 DEF LockSafe
  <2>2. k \in 1..Top /\ at[k] = "lock"
    BY <1>3
  <2>3. ~masked
    BY <1>2
  <2>4. PICK j \in (k + 1)..Top : at[j] \in Inside
    BY <1>1, <2>2, <2>3 DEF LockSafe
  <2> QED
    BY <1>3, <2>4
<1> QED
  BY <1>4, <1>6, <1>7 DEF IInv

LEMMA UnchangedKeeps ==
  ASSUME IInv, UNCHANGED <<at, masked, isInterrupt, prq_mutex>> PROVE IInv'
BY DEF IInv, StackOK, HeldOnTop, LoopMasked, LoopOnTop, LockSafe, Top, At

-----------------------------------------------------------------------------
LEMMA StepKeeps == IInv /\ [Next]_vars => IInv'
<1> SUFFICES ASSUME IInv, [Next]_vars PROVE IInv'
  OBVIOUS
<1>1. CASE MainStep
  BY <1>1, MainKeeps
<1>2. CASE IsrStep
  BY <1>2, IsrKeeps
<1>3. CASE HandlerStep
  BY <1>3, LockRequestsKeeps, CompleteReadKeeps, HandlerReturnsKeeps, DeliverInterruptKeeps,
     InterruptServedKeeps DEF HandlerStep
<1>4. CASE Timer
  BY <1>4, TickKeeps DEF Timer
<1>5. CASE Elapse
  BY <1>5, UnchangedKeeps DEF Elapse, TimePasses
<1>6. CASE UNCHANGED vars
  BY <1>6, UnchangedKeeps DEF vars, machine
<1> QED
  BY <1>1, <1>2, <1>3, <1>4, <1>5, <1>6 DEF Next, Interrupt

LEMMA Sufficient == IInv => DiskMutexFree
BY DEF IInv, HeldOnTop, DiskMutexFree, At

(* Whatever the reader, and however deep handlers interrupt handlers, a handler that comes
   to lock prq_mutex (disk.c:111, 117) finds it free, and so does a program that schedules
   a read (disk.c:58): no frame waits for one that it has interrupted. *)
THEOREM DiskMutexCorrect == Spec => []DiskMutexFree
<1>1. IInv => DiskMutexFree
  BY Sufficient
<1> QED
  BY InitHolds, StepKeeps, <1>1, PTL DEF Spec

-----------------------------------------------------------------------------
(* The reads that are under way, frame by frame: completed and not yet dequeued by their
   service routine (Coming), or dequeued and not yet served (Serving). *)
Coming == {"deliver", "isr", "dequeue"}
Serving == {"callback", "store_sum", "load_pending", "store_pending"}

Frames(S) == {k \in 1..Top : at[k] \in S}
Count(S) == Cardinality(Frames(S))

InFlight == Len(prq) + Count(Coming) + Count(Serving)

Scheduling == IF at[1] = "schedule" THEN 1 ELSE 0

(* Main is at the bottom, handlers are above it, and without nesting there is one. *)
Deep == /\ \A k \in 2..Top : at[k] \notin Main
        /\ ~program.nested => Top <= 2

LocalsOK == /\ \E S : locals \in Seq(S)
            /\ Len(locals) = Top
            /\ \A k \in 1..Top : DOMAIN locals[k] = {"now", "val", "tmp"}

ReadersTypes == /\ program \in Programs
                /\ i \in Int
                /\ asked \in Nat
                /\ queue \in Seq(Entries)
                /\ \E S : prq \in Seq(S)

(* The queue has, in this order, an entry for each read that is coming, whose buffer is
   filled, one for each pending request, and the one that main has just announced. *)
QueueFollows ==
  program.name # "sRead" =>
    /\ Len(queue) = Count(Coming) + Len(prq) + Scheduling
    /\ \A j \in 1..Count(Coming) : queue[j].val \in DOMAIN mem
    /\ \A j \in 1..Len(prq) : queue[Count(Coming) + j].val = prq[j].buf
    /\ at[1] = "schedule" => queue[Len(queue)].val = Buffer
    /\ \A j \in 1..Len(queue) : queue[j].callback = Callback

Result == <<"result", 0>>

(* sRead has no queue and one buffer. *)
OneBuffer ==
  program.name = "sRead" =>
    /\ queue = <<>>
    /\ \A j \in 1..Len(prq) : prq[j].buf = Result
    /\ Count(Coming) > 0 => Result \in DOMAIN mem

(* The decrements of pending_reads that are still to come, at least: lost ones come again. *)
Left == program.blocks - asked + InFlight

(* A frame is in a service routine of its program, with the callback that main asked for
   in this round; a decrement that it has begun leaves enough for the others. *)
Fit(k) ==
  /\ at[k] \in Serving \cup {"dequeue"} => program.name # "sRead"
  /\ at[k] = "callback" => /\ locals[k].val \in Entries
                           /\ locals[k].val.val \in DOMAIN mem
                           /\ locals[k].val.callback = Callback
  /\ at[k] \in {"store_sum", "load_pending"} => program.name = "aRead"
  /\ at[k] = "store_pending" =>
       IF program.name = "aRead" THEN locals[k].tmp \in Int /\ locals[k].tmp + 1 >= Left
                                 ELSE i >= 0

(* aRead schedules all reads at once; the others spin with one read in flight until the flag
   says that it is over. *)
AllAtOnce ==
  program.name = "aRead" =>
    /\ asked = i /\ i <= program.blocks
    /\ at[1] # "spin"
    /\ at[1] = "schedule" => i < program.blocks
    /\ pending_reads \in Int /\ pending_reads >= Left

OneByOne ==
  program.name # "aRead" =>
    /\ at[1] # "spin" => InFlight = 0
    /\ at[1] = "spin" => InFlight <= 1 /\ (Arrived => InFlight = 0)
    /\ at[1] = "schedule" => ~Arrived

(* The flag that a hunt is going to spin on has not been cleared by an earlier read. *)
FlagsUp ==
  program.name = "treasureHunt" =>
    /\ i >= -1
    /\ i = -1 /\ at[1] = "request" => waiting_for_first_block = 1
    /\ i = -1 \/ (i = 0 /\ at[1] = "request") => waiting_for_prev_block = 1

HeldInside == queue_mutex # 0 => \E k \in 1..Top : at[k] = "dequeue"

Ended == at[1] = "returned" => Top = 1 /\ prq = <<>> /\ queue = <<>>

RInv == /\ Deep /\ LocalsOK /\ ReadersTypes /\ QueueFollows /\ OneBuffer
        /\ \A k \in 1..Top : Fit(k)
        /\ AllAtOnce /\ OneByOne /\ FlagsUp /\ HeldInside /\ Ended

-----------------------------------------------------------------------------
LEMMA CountOK ==
  ASSUME StackOK, NEW S
  PROVE  /\ IsFiniteSet(Frames(S)) /\ Count(S) \in Nat
         /\ Count(S) = 0 <=> Frames(S) = {}
         /\ \A k \in 1..Top : at[k] \in S => Count(S) >= 1
         /\ \A j, k \in 1..Top : j # k /\ at[j] \in S /\ at[k] \in S => Count(S) >= 2
<1>1. Top \in Nat
  BY DEF StackOK, Top
<1>2. IsFiniteSet(1..Top) /\ Frames(S) \subseteq 1..Top
  BY <1>1, FS_Interval DEF Frames
<1>3. IsFiniteSet(Frames(S))
  BY <1>2, FS_Subset
<1>4. Count(S) \in Nat /\ (Count(S) = 0 <=> Frames(S) = {})
  BY <1>3, FS_CardinalityType, FS_EmptySet DEF Count
<1>5. ASSUME NEW j \in 1..Top, NEW k \in 1..Top, j # k, at[j] \in S, at[k] \in S
      PROVE  Count(S) >= 2
  <2>1. {j, k} \subseteq Frames(S)
    BY <1>5 DEF Frames
  <2>2. Cardinality({j}) = 1 /\ IsFiniteSet({j})
    BY FS_Singleton
  <2>3. Cardinality({j} \cup {k}) = 2
    BY <1>5, <2>2, FS_AddElement
  <2>4. {j, k} = {j} \cup {k}
    OBVIOUS
  <2>5. Cardinality({j, k}) <= Cardinality(Frames(S))
    BY <1>3, <2>1, FS_Subset
  <2> QED BY <1>4, <2>3, <2>4, <2>5 DEF Count
<1>6. ASSUME NEW k \in 1..Top, at[k] \in S PROVE Count(S) >= 1
  BY <1>4, <1>6 DEF Frames
<1> QED BY <1>3, <1>4, <1>5, <1>6

(* A step of the top frame takes it out of a class of places or into one. *)
LEMMA CountMoves ==
  ASSUME StackOK, NEW place \in Places, Goto(place), NEW S
  PROVE  Count(S)' = (Count(S) - (IF at[Top] \in S THEN 1 ELSE 0)) + (IF place \in S THEN 1 ELSE 0)
<1> DEFINE Below == {k \in 1..(Top - 1) : at[k] \in S}
<1>1. /\ Top' = Top /\ Top \in Nat /\ Top > 0
      /\ at'[Top] = place
      /\ \A k \in 1..(Top - 1) : at'[k] = at[k]
  BY GotoKeeps
<1>2. IsFiniteSet(Below) /\ Top \notin Below
  <2>1. IsFiniteSet(1..(Top - 1)) /\ Below \subseteq 1..(Top - 1)
    BY <1>1, FS_Interval
  <2> QED BY <1>1, <2>1, FS_Subset
<1>3. Cardinality(Below) \in Nat /\ Cardinality(Below \cup {Top}) = Cardinality(Below) + 1
  BY <1>2, FS_AddElement, FS_CardinalityType
<1>4. Frames(S) = IF at[Top] \in S THEN Below \cup {Top} ELSE Below
  BY <1>1 DEF Frames
<1>5. {k \in 1..Top' : at'[k] \in S} = IF place \in S THEN Below \cup {Top} ELSE Below
  BY <1>1
<1>6. Count(S)' = Cardinality({k \in 1..Top' : at'[k] \in S})
  BY DEF Count, Frames
<1>7. Count(S) = Cardinality(Below) + (IF at[Top] \in S THEN 1 ELSE 0)
  BY <1>3, <1>4 DEF Count
<1>8. Count(S)' = Cardinality(Below) + (IF place \in S THEN 1 ELSE 0)
  <2>1. CASE place \in S
    <3>1. Count(S)' = Cardinality(Below \cup {Top})
      BY <1>5, <1>6, <2>1, Zenon
    <3> QED BY <1>3, <2>1, <3>1
  <2>2. CASE place \notin S
    <3>1. Count(S)' = Cardinality(Below)
      BY <1>5, <1>6, <2>2, Zenon
    <3> QED BY <1>3, <2>2, <3>1
  <2> QED BY <2>1, <2>2
<1> QED BY <1>3, <1>7, <1>8

LEMMA CountPush ==
  ASSUME StackOK, at' = Append(at, "lock"), NEW S, "lock" \notin S
  PROVE  Count(S)' = Count(S)
<1>1. /\ Top' = Top + 1 /\ Top \in Nat /\ at'[Top + 1] = "lock" /\ \A k \in 1..Top : at'[k] = at[k]
  BY PushKeeps
<1>2. 1..Top' = 1..Top \cup {Top + 1} /\ Top + 1 \notin 1..Top
  BY <1>1
<1>3. {k \in 1..Top' : at'[k] \in S} = Frames(S)
  BY <1>1, <1>2, Zenon DEF Frames
<1> QED BY <1>3 DEF Count, Frames

LEMMA CountPop ==
  ASSUME StackOK, Top > 1, at' = SubSeq(at, 1, Top - 1), NEW S, at[Top] \notin S
  PROVE  Count(S)' = Count(S)
<1>1. /\ Top' = Top - 1 /\ Top \in Nat /\ \A k \in 1..(Top - 1) : at'[k] = at[k]
  BY PopKeeps
<1>2. {k \in 1..Top' : at'[k] \in S} = Frames(S)
  BY <1>1 DEF Frames
<1> QED BY <1>2 DEF Count, Frames

(* When main runs there is no handler. *)
LEMMA Alone ==
  ASSUME StackOK, Deep, at[Top] \in Main
  PROVE  /\ Top = 1 /\ at[1] \in Main
         /\ Count(Coming) = 0 /\ Count(Serving) = 0
         /\ \A k \in 1..Top : k = 1
<1>1. Top \in Nat /\ Top > 0
  BY DEF StackOK, Top
<1>2. Top = 1
  BY <1>1 DEF Deep
<1>3. Frames(Coming) = {} /\ Frames(Serving) = {}
  BY <1>2 DEF Frames, Coming, Serving, Main
<1>4. Count(Coming) = 0 /\ Count(Serving) = 0
  BY <1>3, CountOK
<1> QED BY <1>2, <1>4

(* What is written to a local variable is there afterwards, and nothing else changes. *)
LEMMA LocalVal ==
  ASSUME StackOK, LocalsOK, Top' = Top, NEW e, locals' = [locals EXCEPT ![Top].val = e]
  PROVE  /\ LocalsOK' /\ locals'[Top].val = e
         /\ \A k \in 1..Top : k # Top => locals'[k] = locals[k]
<1> DEFINE new == [locals[Top] EXCEPT !.val = e]
<1>1. PICK S : locals \in Seq(S)
  BY DEF LocalsOK
<1>2. Top \in Nat /\ Top > 0 /\ Len(locals) = Top /\ DOMAIN locals[Top] = {"now", "val", "tmp"}
  BY DEF StackOK, LocalsOK, Top
<1>3. new.val = e /\ DOMAIN new = {"now", "val", "tmp"}
  BY <1>2
<1>4. locals \in Seq(S \cup {new})
  BY <1>1
<1>5. locals' = [locals EXCEPT ![Top] = new]
  OBVIOUS
<1>6. locals' \in Seq(S \cup {new}) /\ Len(locals') = Top
      /\ \A k \in 1..Top : locals'[k] = IF k = Top THEN new ELSE locals[k]
  BY <1>2, <1>4, <1>5, ExceptSeq
<1> QED BY <1>2, <1>3, <1>6 DEF LocalsOK

LEMMA LocalTmp ==
  ASSUME StackOK, LocalsOK, Top' = Top, NEW e, locals' = [locals EXCEPT ![Top].tmp = e]
  PROVE  /\ LocalsOK' /\ locals'[Top].tmp = e
         /\ \A k \in 1..Top : k # Top => locals'[k] = locals[k]
<1> DEFINE new == [locals[Top] EXCEPT !.tmp = e]
<1>1. PICK S : locals \in Seq(S)
  BY DEF LocalsOK
<1>2. Top \in Nat /\ Top > 0 /\ Len(locals) = Top /\ DOMAIN locals[Top] = {"now", "val", "tmp"}
  BY DEF StackOK, LocalsOK, Top
<1>3. new.tmp = e /\ DOMAIN new = {"now", "val", "tmp"}
  BY <1>2
<1>4. locals \in Seq(S \cup {new})
  BY <1>1
<1>5. locals' = [locals EXCEPT ![Top] = new]
  OBVIOUS
<1>6. locals' \in Seq(S \cup {new}) /\ Len(locals') = Top
      /\ \A k \in 1..Top : locals'[k] = IF k = Top THEN new ELSE locals[k]
  BY <1>2, <1>4, <1>5, ExceptSeq
<1> QED BY <1>2, <1>3, <1>6 DEF LocalsOK

-----------------------------------------------------------------------------
LEMMA SameRound ==
  ASSUME UNCHANGED <<program, i>>
  PROVE  Buffer' = Buffer /\ Callback' = Callback
BY DEF Buffer, Callback

(* Who is called, and what main spins on. *)
LEMMA RoundIs ==
  ASSUME ReadersTypes
  PROVE  /\ program.name \in Names /\ program.blocks \in Nat /\ program.nested \in BOOLEAN
         /\ Buffer \in Buffers
         /\ program.name = "sRead" => Buffer = Result /\ (Arrived <=> is_read_pending = 0)
         /\ program.name = "aRead" => Callback = "handle_read"
         /\ program.name = "treasureHunt" =>
              /\ Callback = IF i = -1 THEN "handleFirstRead" ELSE "handleOtherReads"
              /\ Arrived <=> IF i = -1 THEN waiting_for_first_block = 0 ELSE waiting_for_prev_block = 0
<1>1. program.name \in Names /\ program.blocks \in Nat /\ program.nested \in BOOLEAN
  BY ProgramsAssumption DEF ProgramsAssumption, ReadersTypes
<1>2. program.name = "sRead" => Buffer = Result /\ (Arrived <=> is_read_pending = 0)
  BY DEF Buffer, Arrived, Result
<1>3. program.name = "aRead" => Callback = "handle_read" /\ Buffer = <<"res", i>>
  BY DEF Buffer, Callback
<1>4. program.name = "treasureHunt" =>
        /\ Callback = IF i = -1 THEN "handleFirstRead" ELSE "handleOtherReads"
        /\ Arrived <=> IF i = -1 THEN waiting_for_first_block = 0 ELSE waiting_for_prev_block = 0
        /\ Buffer = IF i = -1 THEN <<"starting_block", 0>> ELSE <<"blocks", i>>
  BY DEF Buffer, Callback, Arrived
<1>5. Buffer \in Buffers
  BY <1>1, <1>2, <1>3, <1>4 DEF Buffers, Result, Names, ReadersTypes
<1> QED BY <1>1, <1>2, <1>3, <1>4, <1>5

(* A frame of the handler moves: main, below it, stays where it is. *)
LEMMA HandlerMoves ==
  ASSUME IInv, RInv, NEW place \in Places \ Main, Goto(place), at[Top] \notin Main, program' = program
  PROVE  /\ Top' = Top /\ Top \in Nat /\ Top > 1
         /\ at'[Top] = place /\ \A k \in 1..Top : k # Top => at'[k] = at[k]
         /\ at'[1] = at[1] /\ at[1] # "returned" /\ Scheduling' = Scheduling
         /\ Deep' /\ Ended'
         /\ Count(Coming) \in Nat /\ Count(Serving) \in Nat
         /\ Count(Coming)' = (Count(Coming) - (IF at[Top] \in Coming THEN 1 ELSE 0))
                                 + (IF place \in Coming THEN 1 ELSE 0)
         /\ Count(Serving)' = (Count(Serving) - (IF at[Top] \in Serving THEN 1 ELSE 0))
                                 + (IF place \in Serving THEN 1 ELSE 0)
         /\ at[Top] \in Coming => Count(Coming) >= 1
         /\ at[Top] \in Serving => Count(Serving) >= 1
<1>1. StackOK /\ Deep /\ Ended
  BY DEF IInv, RInv
<1>2. /\ Top' = Top /\ Top \in Nat /\ Top > 0 /\ at'[Top] = place
      /\ \A k \in 1..(Top - 1) : at'[k] = at[k]
  BY <1>1, GotoKeeps
<1>3. Top > 1
  BY <1>1, <1>2 DEF StackOK
<1>4. /\ \A k \in 1..Top : k # Top => at'[k] = at[k]
      /\ at'[1] = at[1] /\ at[1] # "returned"
  BY <1>1, <1>2, <1>3 DEF Ended
<1>5. Scheduling' = Scheduling /\ Deep' /\ Ended'
  BY <1>1, <1>2, <1>3, <1>4 DEF Scheduling, Deep, Ended
<1>6. /\ Count(Coming) \in Nat /\ Count(Serving) \in Nat
      /\ at[Top] \in Coming => Count(Coming) >= 1
      /\ at[Top] \in Serving => Count(Serving) >= 1
  BY <1>1, <1>2, CountOK
<1>7. /\ Count(Coming)' = (Count(Coming) - (IF at[Top] \in Coming THEN 1 ELSE 0))
                              + (IF place \in Coming THEN 1 ELSE 0)
      /\ Count(Serving)' = (Count(Serving) - (IF at[Top] \in Serving THEN 1 ELSE 0))
                              + (IF place \in Serving THEN 1 ELSE 0)
  BY <1>1, CountMoves
<1> QED BY <1>2, <1>3, <1>4, <1>5, <1>6, <1>7

(* The numbers that the invariant is about. *)
LEMMA Numbers ==
  ASSUME IInv, RInv
  PROVE  /\ Len(prq) \in Nat /\ Len(queue) \in Nat
         /\ Count(Coming) \in Nat /\ Count(Serving) \in Nat /\ InFlight \in Nat
         /\ asked \in Nat /\ program.blocks \in Nat /\ Left \in Int
         /\ i \in Int
         /\ (prq = <<>> <=> Len(prq) = 0) /\ (queue = <<>> <=> Len(queue) = 0)
<1>1. Len(prq) \in Nat /\ (prq = <<>> <=> Len(prq) = 0)
  <2>1. PICK S : prq \in Seq(S)
    BY DEF RInv, ReadersTypes
  <2> QED BY <2>1
<1>2. Len(queue) \in Nat /\ (queue = <<>> <=> Len(queue) = 0)
  <2>1. queue \in Seq(Entries)
    BY DEF RInv, ReadersTypes
  <2> QED BY <2>1
<1>3. Count(Coming) \in Nat /\ Count(Serving) \in Nat
  BY CountOK DEF IInv
<1>4. program.blocks \in Nat
  BY RoundIs DEF RInv
<1>5. asked \in Nat /\ i \in Int
  BY DEF RInv, ReadersTypes
<1> QED BY <1>1, <1>2, <1>3, <1>4, <1>5 DEF InFlight, Left

(* A handler's step that neither completes a read nor serves one, and that the next steps
   of the frame fit. *)
LEMMA Still ==
  ASSUME IInv, RInv, NEW place \in Places \ Main, Goto(place), at[Top] \notin Main,
         place \in Coming <=> at[Top] \in Coming, place \in Serving <=> at[Top] \in Serving,
         UNCHANGED <<program, queue, i, asked, prq, mem, pending_reads, is_read_pending, huntVars>>,
         LocalsOK', \A k \in 1..Top : k # Top => locals'[k] = locals[k],
         Fit(Top)', HeldInside'
  PROVE  RInv'
<1>1. /\ Top' = Top /\ Top \in Nat /\ Top > 1
      /\ at'[1] = at[1] /\ Scheduling' = Scheduling
      /\ \A k \in 1..Top : k # Top => at'[k] = at[k]
      /\ Deep' /\ Ended'
  BY HandlerMoves
<1>2. Count(Coming)' = Count(Coming) /\ Count(Serving)' = Count(Serving)
  BY HandlerMoves
<1>3. InFlight' = InFlight /\ Left' = Left
  BY <1>2 DEF InFlight, Left
<1>4. Buffer' = Buffer /\ Callback' = Callback
  BY SameRound
<1>5. Arrived' = Arrived
  BY DEF Arrived, huntVars
<1>6. ReadersTypes'
  BY DEF RInv, ReadersTypes
<1>7. QueueFollows' /\ OneBuffer'
  BY <1>1, <1>2, <1>4 DEF RInv, QueueFollows, OneBuffer
<1>8. AllAtOnce' /\ OneByOne' /\ FlagsUp'
  BY <1>1, <1>3, <1>5 DEF RInv, AllAtOnce, OneByOne, FlagsUp, huntVars
<1>9. ASSUME NEW k \in 1..Top PROVE Fit(k)'
  <2>1. CASE k = Top
    BY <1>1, <2>1
  <2>2. CASE k # Top
    BY <1>1, <1>3, <1>4, <2>2 DEF RInv, Fit
  <2> QED BY <2>1, <2>2
<1> QED BY <1>1, <1>6, <1>7, <1>8, <1>9 DEF RInv

LEMMA HandlerStill ==
  ASSUME IInv, RInv, LockRequests \/ DeliverInterrupt \/ InterruptServed, UNCHANGED readerVars
  PROVE  RInv'
<1>1. PICK place \in {"loop", "isr", "lock"} :
         /\ Goto(place)
         /\ at[Top] \in {"lock", "deliver", "served"}
         /\ place = "isr" <=> at[Top] = "deliver"
  BY DEF LockRequests, DeliverInterrupt, InterruptServed, At
<1>2. UNCHANGED <<locals, prq, asked, mem>>
  BY DEF LockRequests, DeliverInterrupt, InterruptServed, diskVars
<1>3. place \in Places \ Main /\ at[Top] \notin Main
  BY <1>1 DEF Places, Main, Inside
<1>4. /\ Top' = Top /\ Top \in Nat /\ at'[Top] = place
      /\ \A k \in 1..Top : k # Top => at'[k] = at[k]
  BY <1>1, <1>3, HandlerMoves DEF readerVars
<1>5. LocalsOK'
  BY <1>2, <1>4 DEF RInv, LocalsOK
<1>6. Fit(Top)'
  BY <1>1, <1>4 DEF Fit, Serving
<1>7. HeldInside'
  BY <1>1, <1>4 DEF RInv, HeldInside, readerVars
<1> QED BY <1>1, <1>2, <1>3, <1>5, <1>6, <1>7, Still DEF readerVars, Coming, Serving

LEMMA LockQueueStill == ASSUME IInv, RInv, LockQueue PROVE RInv'
<1>1. Goto("dequeue") /\ at[Top] = "isr" /\ program.name # "sRead"
  BY DEF LockQueue, At
<1>2. UNCHANGED <<locals, program, queue, i, asked, prq, mem, pending_reads, is_read_pending, huntVars>>
  BY DEF LockQueue, diskVars
<1>3. "dequeue" \in Places \ Main /\ at[Top] \notin Main
  BY <1>1 DEF Places, Main, Inside
<1>4. /\ Top' = Top /\ Top \in Nat /\ Top > 1 /\ at'[Top] = "dequeue"
  BY <1>1, <1>2, <1>3, HandlerMoves
<1>5. LocalsOK'
  BY <1>2, <1>4 DEF RInv, LocalsOK
<1>6. Fit(Top)'
  BY <1>1, <1>2, <1>4 DEF Fit, Serving
<1>7. HeldInside'
  BY <1>4 DEF HeldInside
<1> QED BY <1>1, <1>2, <1>3, <1>5, <1>6, <1>7, Still DEF Coming, Serving

LEMMA ServeStill == ASSUME IInv, RInv, LoadSum \/ StoreSum \/ LoadPending PROVE RInv'
<1>0. Fit(Top) /\ Top \in Nat /\ Top > 0 /\ StackOK /\ LocalsOK
  BY DEF IInv, RInv, StackOK, Top
<1>a. Left \in Int /\ i \in Int
  BY Numbers
<1>1. PICK place \in {"store_sum", "load_pending", "store_pending"} : Goto(place)
  BY DEF LoadSum, StoreSum, LoadPending, Compute
<1>2. at[Top] \in {"callback", "store_sum", "load_pending"}
  BY DEF LoadSum, StoreSum, LoadPending, Calls, At
<1>3. /\ UNCHANGED <<program, queue, queue_mutex, i, asked, prq, mem, pending_reads,
                     is_read_pending, huntVars>>
      /\ locals' = locals \/ \E e : locals' = [locals EXCEPT ![Top].tmp = e]
  BY DEF LoadSum, StoreSum, LoadPending, Compute, machine, diskVars, readerVars
<1>4. place \in Places \ Main /\ at[Top] \notin Main
  BY <1>1, <1>2 DEF Places, Main, Inside
<1>5. /\ Top' = Top /\ at'[Top] = place
      /\ \A k \in 1..Top : k # Top => at'[k] = at[k]
      /\ Count(Coming)' = Count(Coming) /\ Count(Serving)' = Count(Serving)
  <2>1. /\ place \in Serving /\ place \notin Coming
        /\ at[Top] \in Serving /\ at[Top] \notin Coming
    BY <1>1, <1>2 DEF Serving, Coming
  <2>2. /\ Top' = Top /\ at'[Top] = place
        /\ \A k \in 1..Top : k # Top => at'[k] = at[k]
        /\ Count(Coming) \in Nat /\ Count(Serving) \in Nat
        /\ Count(Coming)' = (Count(Coming) - 0) + 0
        /\ Count(Serving)' = (Count(Serving) - 1) + 1
    BY <1>1, <1>3, <1>4, <2>1, HandlerMoves
  <2> QED BY <2>2
<1>6. LocalsOK' /\ \A k \in 1..Top : k # Top => locals'[k] = locals[k]
  <2>1. CASE locals' = locals
    BY <1>0, <1>5, <2>1 DEF LocalsOK
  <2>2. CASE \E e : locals' = [locals EXCEPT ![Top].tmp = e]
    BY <1>0, <1>5, <2>2, LocalTmp
  <2> QED BY <1>3, <2>1, <2>2
<1>7. Left' = Left
  BY <1>3, <1>5 DEF Left, InFlight
<1>8. Fit(Top)'
  <2>0. program.name \in Names /\ program.name # "sRead"
    BY <1>0, <1>2, RoundIs DEF Fit, Serving, RInv
  <2>1. CASE LoadSum
    <3>1. at'[Top] = "store_sum"
      BY <1>0, <2>1, GotoKeeps DEF LoadSum, Compute, Places, Inside
    <3>2. locals[Top].val.callback = "handle_read" /\ at[Top] = "callback"
      BY <2>1 DEF LoadSum, Calls, At, Mine
    <3>3. Callback = "handle_read"
      BY <1>0, <3>2 DEF Fit
    <3>4. program.name = "aRead"
      BY <2>0, <3>3, RoundIs DEF RInv, Names
    <3> QED BY <1>3, <1>5, <3>1, <3>4 DEF Fit, Serving
  <2>2. CASE StoreSum
    <3>1. at'[Top] = "load_pending" /\ at[Top] = "store_sum"
      BY <1>0, <2>2, GotoKeeps DEF StoreSum, At, Places, Inside
    <3> QED BY <1>0, <1>3, <1>5, <3>1 DEF Fit, Serving
  <2>3. CASE LoadPending
    <3>1. at'[Top] = "store_pending"
      BY <1>0, <2>3, GotoKeeps DEF LoadPending, Compute, Places, Inside
    <3>2. locals' = [locals EXCEPT ![Top].tmp = pending_reads - 1]
      BY <2>3 DEF LoadPending, Compute
    <3>3. locals'[Top].tmp = pending_reads - 1
      BY <1>0, <1>5, <3>2, LocalTmp
    <3>4. CASE program.name = "aRead"
      <4>1. pending_reads \in Int /\ pending_reads >= Left
        BY <3>4 DEF RInv, AllAtOnce
      <4>2. locals'[Top].tmp \in Int /\ locals'[Top].tmp + 1 >= Left'
        BY <1>7, <3>3, <4>1, <1>a
      <4> QED BY <1>3, <1>5, <3>1, <3>4, <4>2 DEF Fit, Serving
    <3>5. CASE program.name = "treasureHunt"
      <4>1. at[Top] = "callback" /\ locals[Top].val.callback = "handleOtherReads"
        BY <1>0, <2>3, <3>5 DEF LoadPending, Calls, At, Mine, Fit
      <4>2. i # -1
        BY <1>0, <3>5, <4>1, RoundIs DEF Fit, RInv
      <4>3. i >= 0
        BY <3>5, <4>2, <1>a DEF RInv, FlagsUp
      <4> QED BY <1>3, <1>5, <3>1, <3>5, <4>3 DEF Fit, Serving
    <3> QED BY <2>0, <3>4, <3>5 DEF Names
  <2> QED BY <2>1, <2>2, <2>3
<1>9. HeldInside'
  BY <1>2, <1>3, <1>5 DEF RInv, HeldInside
<1> QED BY <1>1, <1>2, <1>3, <1>4, <1>6, <1>8, <1>9, Still DEF Coming, Serving

-----------------------------------------------------------------------------
(* A handler's step in which a service routine gets to its end. *)
LEMMA Served ==
  ASSUME IInv, RInv, Goto("served"),
         at[Top] \in Serving \/ (at[Top] = "isr" /\ program.name = "sRead"),
         UNCHANGED <<locals, program, queue, queue_mutex, i, asked, prq, mem>>,
         program.name = "aRead" => /\ at[Top] = "store_pending"
                                   /\ pending_reads' = locals[Top].tmp,
         program.name = "treasureHunt" =>
           /\ waiting_for_first_block' = waiting_for_first_block \/ i = -1
           /\ waiting_for_prev_block' = waiting_for_prev_block \/ i >= 0
  PROVE  RInv'
<1>0. StackOK /\ LocalsOK /\ HeldInside /\ OneByOne /\ AllAtOnce /\ FlagsUp /\ OneBuffer
      /\ QueueFollows /\ ReadersTypes /\ \A k \in 1..Top : Fit(k)
  BY DEF IInv, RInv
<1>1. "served" \in Places \ Main /\ at[Top] \notin Main
  BY DEF Places, Main, Inside, Serving
<1>2. /\ Top' = Top /\ Top \in Nat /\ Top > 1
      /\ at'[Top] = "served" /\ \A k \in 1..Top : k # Top => at'[k] = at[k]
      /\ at'[1] = at[1] /\ Scheduling' = Scheduling
      /\ Deep' /\ Ended'
  BY <1>1, HandlerMoves
<1>3. /\ Count(Coming) \in Nat /\ Count(Serving) \in Nat
      /\ Count(Coming)' \in Nat /\ Count(Serving)' \in Nat
      /\ Count(Coming)' + Count(Serving)' = Count(Coming) + Count(Serving) - 1
      /\ Count(Coming)' <= Count(Coming)
      /\ program.name # "sRead" => Count(Coming)' = Count(Coming)
  <2>1. /\ Count(Coming) \in Nat /\ Count(Serving) \in Nat
        /\ Count(Coming)' = (Count(Coming) - (IF at[Top] \in Coming THEN 1 ELSE 0)) + 0
        /\ Count(Serving)' = (Count(Serving) - (IF at[Top] \in Serving THEN 1 ELSE 0)) + 0
        /\ at[Top] \in Coming => Count(Coming) >= 1
        /\ at[Top] \in Serving => Count(Serving) >= 1
    <3>1. "served" \notin Coming /\ "served" \notin Serving
      BY DEF Coming, Serving
    <3> QED BY <1>1, <3>1, HandlerMoves
  <2>2. CASE at[Top] \in Serving
    <3>1. at[Top] \notin Coming
      BY <2>2 DEF Serving, Coming
    <3> QED BY <2>1, <2>2, <3>1
  <2>3. CASE at[Top] = "isr" /\ program.name = "sRead"
    <3>1. at[Top] \notin Serving /\ at[Top] \in Coming
      BY <2>3 DEF Serving, Coming
    <3> QED BY <2>1, <2>3, <3>1
  <2> QED BY <2>2, <2>3
<1>4. /\ Len(prq) \in Nat /\ InFlight \in Nat /\ Left \in Int /\ i \in Int
      /\ asked \in Nat /\ program.blocks \in Nat
  BY Numbers
<1>5. InFlight' = InFlight - 1 /\ Left' = Left - 1 /\ InFlight >= 1
  <2>1. InFlight' = Len(prq) + Count(Coming)' + Count(Serving)'
    BY DEF InFlight
  <2>2. InFlight = Len(prq) + Count(Coming) + Count(Serving)
    BY DEF InFlight
  <2>3. InFlight' = InFlight - 1 /\ InFlight >= 1
    BY <1>3, <1>4, <2>1, <2>2
  <2>4. Left' = program.blocks - asked + InFlight' /\ Left = program.blocks - asked + InFlight
    BY DEF Left
  <2> QED BY <1>4, <2>3, <2>4
<1>6. Buffer' = Buffer /\ Callback' = Callback
  BY SameRound
<1>7. LocalsOK' /\ ReadersTypes'
  BY <1>0, <1>2 DEF LocalsOK, ReadersTypes
<1>8. QueueFollows'
  BY <1>0, <1>2, <1>3, <1>6 DEF QueueFollows
<1>9. OneBuffer'
  BY <1>0, <1>3 DEF OneBuffer
<1>10. AllAtOnce'
  <2>1. CASE program.name = "aRead"
    <3>1. Fit(Top) /\ at[Top] = "store_pending"
      BY <1>0, <1>2, <2>1
    <3>2. locals[Top].tmp \in Int /\ locals[Top].tmp + 1 >= Left
      BY <2>1, <3>1 DEF Fit
    <3>3. pending_reads' \in Int /\ pending_reads' >= Left'
      BY <1>4, <1>5, <2>1, <3>2
    <3> QED BY <1>0, <1>2, <2>1, <3>3 DEF AllAtOnce
  <2>2. CASE program.name # "aRead"
    BY <2>2 DEF AllAtOnce
  <2> QED BY <2>1, <2>2
<1>11. program.name # "aRead" => at[1] = "spin" /\ InFlight = 1
  BY <1>0, <1>4, <1>5 DEF OneByOne
<1>12. OneByOne'
  BY <1>2, <1>5, <1>11 DEF OneByOne
<1>13. FlagsUp'
  BY <1>0, <1>2, <1>4, <1>11 DEF FlagsUp
<1>14. HeldInside'
  <2>1. at[Top] # "dequeue"
    BY DEF Serving
  <2> QED BY <1>0, <1>2, <2>1 DEF HeldInside
<1>15. ASSUME NEW k \in 1..Top PROVE Fit(k)'
  <2>1. CASE k = Top
    BY <1>2, <2>1 DEF Fit, Serving
  <2>2. CASE k # Top
    <3>1. Fit(k) /\ at'[k] = at[k]
      BY <1>0, <1>2, <2>2
    <3>2. program.name = "aRead" /\ at[k] = "store_pending" =>
            locals[k].tmp \in Int /\ locals[k].tmp + 1 >= Left'
      BY <1>4, <1>5, <3>1 DEF Fit
    <3> QED BY <1>6, <3>1, <3>2 DEF Fit
  <2> QED BY <2>1, <2>2
<1> QED
  BY <1>2, <1>7, <1>8, <1>9, <1>10, <1>12, <1>13, <1>14, <1>15 DEF RInv

LEMMA ServesHold ==
  ASSUME IInv, RInv, ClearFlag \/ StorePending \/ FirstRead PROVE RInv'
<1>0. /\ Fit(Top) /\ Top \in Nat /\ Top > 0 /\ ReadersTypes /\ program.name \in Names
  BY RoundIs DEF IInv, RInv, StackOK, Top
<1>1. CASE ClearFlag
  <2>1. /\ Goto("served") /\ at[Top] = "isr" /\ program.name = "sRead"
        /\ UNCHANGED <<locals, program, queue, queue_mutex, i, asked, prq, mem>>
    BY <1>1 DEF ClearFlag, At, machine, diskVars
  <2> QED BY <2>1, Served
<1>2. CASE StorePending
  <2>1. /\ Goto("served") /\ at[Top] = "store_pending" /\ pending_reads' = locals[Top].tmp
        /\ UNCHANGED <<locals, program, queue, queue_mutex, i, asked, prq, mem>>
        /\ UNCHANGED waiting_for_first_block
    BY <1>2 DEF StorePending, At, Mine, machine, diskVars
  <2>2. program.name = "treasureHunt" => i >= 0
    BY <1>0, <2>1 DEF Fit
  <2> QED BY <2>1, <2>2, Served DEF Serving
<1>3. CASE FirstRead
  <2>1. /\ Goto("served") /\ at[Top] = "callback" /\ locals[Top].val.callback = "handleFirstRead"
        /\ UNCHANGED <<locals, program, queue, queue_mutex, i, asked, prq, mem>>
        /\ UNCHANGED waiting_for_prev_block
    BY <1>3 DEF FirstRead, Calls, At, Mine, machine, diskVars
  <2>2. Callback = "handleFirstRead" /\ program.name # "sRead"
    BY <1>0, <2>1 DEF Fit, Serving
  <2>3. program.name = "treasureHunt" /\ i = -1
    BY <1>0, <2>2, RoundIs DEF Names
  <2> QED BY <2>1, <2>3, Served DEF Serving
<1> QED BY <1>1, <1>2, <1>3

(* The service routine gets an entry, and the read that it asked for is over. *)
LEMMA DequeueHolds == ASSUME IInv, RInv, Dequeue PROVE RInv'
<1>0. StackOK /\ LocalsOK /\ OneByOne /\ AllAtOnce /\ FlagsUp
      /\ QueueFollows /\ ReadersTypes /\ \A k \in 1..Top : Fit(k)
  BY DEF IInv, RInv
<1>1. /\ Goto("callback") /\ at[Top] = "dequeue" /\ queue_mutex' = 0
      /\ UNCHANGED <<program, i, asked, prq, mem, pending_reads, is_read_pending, huntVars>>
      /\ queue' = IF queue = <<>> THEN queue ELSE Tail(queue)
      /\ locals' = [locals EXCEPT ![Top].val = IF queue = <<>> THEN NoEntry ELSE Head(queue)]
  BY DEF Dequeue, At, NextEntry, diskVars
<1>2. "callback" \in Places \ Main /\ at[Top] \notin Main
  BY <1>1 DEF Places, Main, Inside
<1>3. /\ Top' = Top /\ Top \in Nat /\ Top > 1
      /\ at'[Top] = "callback" /\ \A k \in 1..Top : k # Top => at'[k] = at[k]
      /\ at'[1] = at[1] /\ at[1] # "returned" /\ Scheduling' = Scheduling
      /\ Deep' /\ Ended'
  BY <1>1, <1>2, HandlerMoves
<1>4. /\ Count(Coming) \in Nat /\ Count(Serving) \in Nat
      /\ Count(Coming)' = Count(Coming) - 1 /\ Count(Coming) >= 1
      /\ Count(Serving)' = Count(Serving) + 1
  <2>1. "callback" \notin Coming /\ "callback" \in Serving
    BY DEF Coming, Serving
  <2>2. at[Top] \in Coming /\ at[Top] \notin Serving
    BY <1>1 DEF Coming, Serving
  <2> QED BY <1>1, <1>2, <2>1, <2>2, HandlerMoves
<1>5. InFlight' = InFlight /\ Left' = Left
  <2>1. Len(prq) \in Nat
    BY Numbers
  <2>2. InFlight' = InFlight
    BY <1>1, <1>4, <2>1 DEF InFlight
  <2> QED BY <1>1, <2>2 DEF Left
<1>6. Buffer' = Buffer /\ Callback' = Callback /\ Arrived' = Arrived
  BY <1>1, SameRound DEF Arrived, huntVars
<1>7. program.name # "sRead"
  <2>1. Fit(Top)
    BY <1>0, <1>3
  <2> QED BY <1>1, <2>1 DEF Fit
<1>8. /\ Len(queue) = Count(Coming) + Len(prq) + Scheduling
      /\ \A j \in 1..Count(Coming) : queue[j].val \in DOMAIN mem
      /\ \A j \in 1..Len(prq) : queue[Count(Coming) + j].val = prq[j].buf
      /\ at[1] = "schedule" => queue[Len(queue)].val = Buffer
      /\ \A j \in 1..Len(queue) : queue[j].callback = Callback
  BY <1>0, <1>7 DEF QueueFollows
<1>9. /\ Len(prq) \in Nat /\ Scheduling \in {0, 1} /\ queue \in Seq(Entries)
      /\ at[1] = "schedule" => Scheduling = 1
  BY <1>0, Numbers DEF Scheduling, ReadersTypes
<1>10. queue # <<>> /\ Len(queue) \in Nat /\ Len(queue) >= 1
  BY <1>4, <1>8, <1>9, Numbers
<1>11. /\ queue' \in Seq(Entries) /\ Len(queue') = Len(queue) - 1
       /\ \A j \in 1..(Len(queue) - 1) : queue'[j] = queue[j + 1]
       /\ Head(queue) = queue[1] /\ queue[1] \in Entries
  BY <1>1, <1>9, <1>10
<1>12. LocalsOK' /\ locals'[Top].val = queue[1] /\ \A k \in 1..Top : k # Top => locals'[k] = locals[k]
  BY <1>0, <1>1, <1>3, <1>10, <1>11, LocalVal
<1>13. ReadersTypes'
  BY <1>0, <1>1, <1>11 DEF ReadersTypes
<1>14. QueueFollows'
  <2>1. Len(queue') = Count(Coming)' + Len(prq') + Scheduling'
    BY <1>1, <1>3, <1>4, <1>8, <1>9, <1>11
  <2>2. ASSUME NEW j \in 1..Count(Coming)' PROVE queue'[j].val \in DOMAIN mem'
    <3>1. j + 1 \in 1..Count(Coming) /\ j \in 1..(Len(queue) - 1)
      BY <1>4, <1>8, <1>9
    <3> QED BY <1>1, <1>8, <1>11, <3>1
  <2>3. ASSUME NEW j \in 1..Len(prq') PROVE queue'[Count(Coming)' + j].val = prq'[j].buf
    <3>1. /\ Count(Coming)' + j \in 1..(Len(queue) - 1)
          /\ (Count(Coming)' + j) + 1 = Count(Coming) + j
      BY <1>1, <1>4, <1>8, <1>9
    <3> QED BY <1>1, <1>8, <1>11, <3>1
  <2>4. at'[1] = "schedule" => queue'[Len(queue')].val = Buffer'
    <3>1. at[1] = "schedule" => Len(queue') \in 1..(Len(queue) - 1) /\ Len(queue') + 1 = Len(queue)
      BY <1>4, <1>8, <1>9, <1>11
    <3> QED BY <1>3, <1>6, <1>8, <1>11, <3>1
  <2>5. ASSUME NEW j \in 1..Len(queue') PROVE queue'[j].callback = Callback'
    <3>1. j \in 1..(Len(queue) - 1) /\ j + 1 \in 1..Len(queue)
      BY <1>10, <1>11
    <3> QED BY <1>6, <1>8, <1>11, <3>1
  <2> QED BY <2>1, <2>2, <2>3, <2>4, <2>5 DEF QueueFollows
<1>15. OneBuffer' /\ HeldInside'
  BY <1>1, <1>7 DEF OneBuffer, HeldInside
<1>16. AllAtOnce' /\ OneByOne' /\ FlagsUp'
  BY <1>0, <1>1, <1>3, <1>5, <1>6 DEF AllAtOnce, OneByOne, FlagsUp, huntVars
<1>17. ASSUME NEW k \in 1..Top PROVE Fit(k)'
  <2>1. CASE k = Top
    <3>1. 1 \in 1..Count(Coming) /\ 1 \in 1..Len(queue)
      BY <1>4, <1>10
    <3>2. queue[1].val \in DOMAIN mem /\ queue[1].callback = Callback
      BY <1>8, <3>1
    <3> QED BY <1>1, <1>3, <1>6, <1>7, <1>11, <1>12, <2>1, <3>2 DEF Fit
  <2>2. CASE k # Top
    <3>1. Fit(k) /\ at'[k] = at[k] /\ locals'[k] = locals[k]
      BY <1>0, <1>3, <1>12, <2>2
    <3> QED BY <1>1, <1>5, <1>6, <3>1 DEF Fit
  <2> QED BY <2>1, <2>2
<1> QED
  BY <1>3, <1>12, <1>13, <1>14, <1>15, <1>16, <1>17 DEF RInv

(* The handler fills the buffer of the first request and takes it off the disk's queue. *)
LEMMA CompleteReadHolds == ASSUME IInv, RInv, CompleteRead, UNCHANGED readerVars PROVE RInv'
<1>0. StackOK /\ LocalsOK /\ OneByOne /\ AllAtOnce /\ FlagsUp /\ HeldInside /\ OneBuffer
      /\ QueueFollows /\ ReadersTypes /\ \A k \in 1..Top : Fit(k)
  BY DEF IInv, RInv
<1>1. /\ Goto("deliver") /\ at[Top] = "loop" /\ prq # <<>> /\ prq' = Tail(prq)
      /\ UNCHANGED <<program, queue, queue_mutex, i, asked, locals, pending_reads,
                     is_read_pending, huntVars>>
      /\ mem' = Filled(Head(prq).buf, Head(prq).blockNo)
  BY DEF CompleteRead, At, Due, AfterDequeue, readerVars
<1>2. "deliver" \in Places \ Main /\ at[Top] \notin Main
  BY <1>1 DEF Places, Main
<1>3. /\ Top' = Top /\ Top \in Nat /\ Top > 1
      /\ at'[Top] = "deliver" /\ \A k \in 1..Top : k # Top => at'[k] = at[k]
      /\ at'[1] = at[1] /\ Scheduling' = Scheduling
      /\ Deep' /\ Ended'
  BY <1>1, <1>2, HandlerMoves
<1>4. /\ Count(Coming) \in Nat /\ Count(Serving) \in Nat
      /\ Count(Coming)' = Count(Coming) + 1
      /\ Count(Serving)' = Count(Serving)
  <2>1. "deliver" \in Coming /\ "deliver" \notin Serving
    BY DEF Coming, Serving
  <2>2. at[Top] \notin Coming /\ at[Top] \notin Serving
    BY <1>1 DEF Coming, Serving
  <2> QED BY <1>1, <1>2, <2>1, <2>2, HandlerMoves
<1>5. /\ Len(prq) \in Nat /\ Len(prq) >= 1 /\ Len(prq') = Len(prq) - 1
      /\ Head(prq) = prq[1]
      /\ \A j \in 1..Len(prq') : prq'[j] = prq[j + 1]
      /\ \E S : prq' \in Seq(S)
  <2>1. PICK S : prq \in Seq(S)
    BY <1>0 DEF ReadersTypes
  <2>2. prq' \in Seq(S)
    BY <1>1, <2>1
  <2> QED BY <1>1, <2>1, <2>2
<1>6. InFlight' = InFlight /\ Left' = Left
  <2>1. InFlight' = InFlight
    BY <1>4, <1>5 DEF InFlight
  <2> QED BY <1>1, <2>1 DEF Left
<1>7. Buffer' = Buffer /\ Callback' = Callback /\ Arrived' = Arrived
  BY <1>1, SameRound DEF Arrived, huntVars
<1>8. DOMAIN mem \subseteq DOMAIN mem' /\ prq[1].buf \in DOMAIN mem'
  BY <1>1, <1>5 DEF Filled
<1>9. LocalsOK' /\ ReadersTypes'
  BY <1>0, <1>1, <1>3, <1>5 DEF LocalsOK, ReadersTypes
<1>10. QueueFollows'
  <2> SUFFICES ASSUME program.name # "sRead"
               PROVE  /\ Len(queue) = Count(Coming)' + Len(prq') + Scheduling
                      /\ \A j \in 1..Count(Coming)' : queue[j].val \in DOMAIN mem'
                      /\ \A j \in 1..Len(prq') : queue[Count(Coming)' + j].val = prq'[j].buf
                      /\ at[1] = "schedule" => queue[Len(queue)].val = Buffer
                      /\ \A j \in 1..Len(queue) : queue[j].callback = Callback
    BY <1>1, <1>3, <1>7 DEF QueueFollows
  <2>1. /\ Len(queue) = Count(Coming) + Len(prq) + Scheduling
        /\ \A j \in 1..Count(Coming) : queue[j].val \in DOMAIN mem
        /\ \A j \in 1..Len(prq) : queue[Count(Coming) + j].val = prq[j].buf
        /\ at[1] = "schedule" => queue[Len(queue)].val = Buffer
        /\ \A j \in 1..Len(queue) : queue[j].callback = Callback
    BY <1>0 DEF QueueFollows
  <2>2. Len(queue) = Count(Coming)' + Len(prq') + Scheduling
    BY <1>4, <1>5, <2>1 DEF Scheduling
  <2>3. ASSUME NEW j \in 1..Count(Coming)' PROVE queue[j].val \in DOMAIN mem'
    <3>1. CASE j \in 1..Count(Coming)
      BY <1>8, <2>1, <3>1
    <3>2. CASE j = Count(Coming) + 1
      BY <1>5, <1>8, <2>1, <3>2
    <3> QED BY <1>4, <3>1, <3>2
  <2>4. ASSUME NEW j \in 1..Len(prq') PROVE queue[Count(Coming)' + j].val = prq'[j].buf
    <3>1. j + 1 \in 1..Len(prq) /\ Count(Coming)' + j = Count(Coming) + (j + 1)
      BY <1>4, <1>5
    <3> QED BY <1>5, <2>1, <3>1
  <2> QED BY <2>1, <2>2, <2>3, <2>4
<1>11. OneBuffer'
  <2> SUFFICES ASSUME program.name = "sRead"
               PROVE  /\ queue = <<>>
                      /\ \A j \in 1..Len(prq') : prq'[j].buf = Result
                      /\ Result \in DOMAIN mem'
    BY <1>1 DEF OneBuffer, Result
  <2>1. queue = <<>> /\ \A j \in 1..Len(prq) : prq[j].buf = Result
    BY <1>0 DEF OneBuffer
  <2>2. Result \in DOMAIN mem'
    BY <1>5, <1>8, <2>1
  <2>3. ASSUME NEW j \in 1..Len(prq') PROVE prq'[j].buf = Result
    <3>1. j + 1 \in 1..Len(prq)
      BY <1>5
    <3> QED BY <1>5, <2>1, <3>1
  <2> QED BY <2>1, <2>2, <2>3
<1>12. AllAtOnce' /\ OneByOne' /\ FlagsUp'
  BY <1>0, <1>1, <1>3, <1>6, <1>7 DEF AllAtOnce, OneByOne, FlagsUp, huntVars
<1>13. HeldInside'
  BY <1>0, <1>1, <1>3 DEF HeldInside
<1>14. ASSUME NEW k \in 1..Top PROVE Fit(k)'
  <2>1. CASE k = Top
    BY <1>3, <2>1 DEF Fit, Serving
  <2>2. CASE k # Top
    <3>1. Fit(k) /\ at'[k] = at[k]
      BY <1>0, <1>3, <2>2
    <3> QED BY <1>1, <1>6, <1>7, <1>8, <3>1 DEF Fit
  <2> QED BY <2>1, <2>2
<1> QED
  BY <1>3, <1>9, <1>10, <1>11, <1>12, <1>13, <1>14 DEF RInv

(* What does not touch a buffer, a queue, or a frame that is under way with a read. *)
LEMMA Untouched ==
  ASSUME IInv, RInv, UNCHANGED <<prq, asked, mem, readerVars>>, at'[1] = at[1],
         Count(Coming)' = Count(Coming), Count(Serving)' = Count(Serving)
  PROVE  /\ QueueFollows' /\ OneBuffer' /\ AllAtOnce' /\ OneByOne' /\ FlagsUp' /\ ReadersTypes'
         /\ InFlight' = InFlight /\ Left' = Left /\ Callback' = Callback
<1>1. UNCHANGED <<program, queue, queue_mutex, i, is_read_pending, pending_reads, huntVars>>
  BY DEF readerVars
<1>2. InFlight' = InFlight /\ Left' = Left /\ Scheduling' = Scheduling
  BY <1>1 DEF InFlight, Left, Scheduling
<1>3. Buffer' = Buffer /\ Callback' = Callback /\ Arrived' = Arrived
  BY <1>1, SameRound DEF Arrived, huntVars
<1>4. QueueFollows' /\ OneBuffer' /\ ReadersTypes'
  BY <1>1, <1>2, <1>3 DEF RInv, QueueFollows, OneBuffer, ReadersTypes
<1>5. AllAtOnce' /\ OneByOne' /\ FlagsUp'
  BY <1>1, <1>2, <1>3 DEF RInv, AllAtOnce, OneByOne, FlagsUp, huntVars
<1> QED BY <1>2, <1>3, <1>4, <1>5

LEMMA HandlerReturnsHolds == ASSUME IInv, RInv, HandlerReturns, UNCHANGED readerVars PROVE RInv'
<1>0. StackOK /\ Deep /\ LocalsOK /\ HeldInside /\ Ended /\ \A k \in 1..Top : Fit(k)
  BY DEF IInv, RInv
<1>1. /\ at[Top] = "loop" /\ at' = SubSeq(at, 1, Top - 1) /\ locals' = SubSeq(locals, 1, Top - 1)
      /\ UNCHANGED <<program, queue, queue_mutex, i, asked, prq, mem>>
  BY DEF HandlerReturns, At, diskVars, readerVars
<1>2. Top > 1
  BY <1>0, <1>1 DEF StackOK, Main, Top
<1>3. /\ Top' = Top - 1 /\ Top \in Nat /\ \A k \in 1..(Top - 1) : at'[k] = at[k]
  BY <1>0, <1>1, <1>2, PopKeeps
<1>4. at'[1] = at[1] /\ at[1] # "returned"
  BY <1>0, <1>2, <1>3 DEF Ended
<1>5. Count(Coming)' = Count(Coming) /\ Count(Serving)' = Count(Serving)
  BY <1>0, <1>1, <1>2, CountPop DEF Coming, Serving
<1>6. /\ QueueFollows' /\ OneBuffer' /\ AllAtOnce' /\ OneByOne' /\ FlagsUp' /\ ReadersTypes'
      /\ Left' = Left /\ Callback' = Callback
  BY <1>1, <1>4, <1>5, Untouched
<1>7. /\ LocalsOK' /\ \A k \in 1..(Top - 1) : locals'[k] = locals[k]
  <2>1. PICK S : locals \in Seq(S)
    BY <1>0 DEF LocalsOK
  <2>2. /\ locals' \in Seq(S) /\ Len(locals') = Top - 1
        /\ \A k \in 1..(Top - 1) : locals'[k] = locals[k]
    BY <1>0, <1>1, <1>2, <1>3, <2>1 DEF LocalsOK
  <2> QED BY <1>0, <1>3, <2>2 DEF LocalsOK
<1>8. Deep' /\ Ended'
  <2>1. \A k \in 2..Top' : at'[k] \notin Main
    BY <1>0, <1>3 DEF Deep
  <2>2. ~program'.nested => Top' <= 2
    BY <1>0, <1>1, <1>3 DEF Deep
  <2>3. Ended'
    BY <1>4 DEF Ended
  <2> QED BY <2>1, <2>2, <2>3 DEF Deep
<1>9. HeldInside'
  <2>1. at[Top] # "dequeue"
    BY <1>1
  <2> QED BY <1>0, <1>1, <1>3, <2>1 DEF HeldInside
<1>10. ASSUME NEW k \in 1..Top' PROVE Fit(k)'
  <2>1. Fit(k) /\ at'[k] = at[k] /\ locals'[k] = locals[k]
    BY <1>0, <1>3, <1>7
  <2> QED BY <1>1, <1>6, <2>1 DEF Fit
<1> QED BY <1>6, <1>7, <1>8, <1>9, <1>10 DEF RInv

LEMMA TimerHolds == ASSUME IInv, RInv, Timer PROVE RInv'
<1>0. StackOK /\ Deep /\ LocalsOK /\ HeldInside /\ Ended /\ \A k \in 1..Top : Fit(k)
  BY DEF IInv, RInv
<1>1. /\ at[Top] # "returned" /\ at' = Append(at, "lock")
      /\ locals' = Append(locals, [NoLocals EXCEPT !.now = clock])
      /\ ~program.nested => Top < 2
      /\ UNCHANGED <<prq, asked, mem, readerVars>>
      /\ UNCHANGED <<program, queue, queue_mutex, i, asked, prq, mem>>
  BY DEF Timer, Tick, At, diskVars, readerVars
<1>2. /\ Top' = Top + 1 /\ Top \in Nat /\ Top > 0
      /\ at'[Top + 1] = "lock" /\ \A k \in 1..Top : at'[k] = at[k]
  BY <1>0, <1>1, PushKeeps
<1>3. at'[1] = at[1] /\ at[1] # "returned"
  BY <1>0, <1>1, <1>2 DEF Ended
<1>4. Count(Coming)' = Count(Coming) /\ Count(Serving)' = Count(Serving)
  BY <1>0, <1>1, CountPush DEF Coming, Serving
<1>5. /\ QueueFollows' /\ OneBuffer' /\ AllAtOnce' /\ OneByOne' /\ FlagsUp' /\ ReadersTypes'
      /\ Left' = Left /\ Callback' = Callback
  BY <1>1, <1>3, <1>4, Untouched
<1>6. /\ LocalsOK' /\ \A k \in 1..Top : locals'[k] = locals[k]
  <2> DEFINE new == [NoLocals EXCEPT !.now = clock]
  <2>1. PICK S : locals \in Seq(S)
    BY <1>0 DEF LocalsOK
  <2>2. DOMAIN new = {"now", "val", "tmp"}
    BY DEF NoLocals
  <2> HIDE DEF new
  <2>3. locals \in Seq(S \cup {new}) /\ Len(locals) = Top
    BY <1>0, <2>1 DEF LocalsOK
  <2>4. locals' = Append(locals, new)
    BY <1>1 DEF new
  <2>5. /\ locals' \in Seq(S \cup {new}) /\ Len(locals') = Top + 1 /\ locals'[Top + 1] = new
        /\ \A k \in 1..Top : locals'[k] = locals[k]
    BY <1>2, <2>3, <2>4
  <2> QED BY <1>0, <1>2, <2>2, <2>5 DEF LocalsOK
<1>7. Deep'
  <2>1. \A k \in 2..Top' : at'[k] \notin Main
    BY <1>0, <1>2 DEF Deep, Main
  <2>2. ~program'.nested => Top' <= 2
    BY <1>1, <1>2
  <2> QED BY <2>1, <2>2 DEF Deep
<1>8. Ended' /\ HeldInside'
  <2>1. Ended'
    BY <1>3 DEF Ended
  <2>2. ASSUME queue_mutex # 0 PROVE \E k \in 1..Top' : at'[k] = "dequeue"
    <3>1. PICK k \in 1..Top : at[k] = "dequeue"
      BY <1>0, <2>2 DEF HeldInside
    <3>2. k \in 1..Top' /\ at'[k] = "dequeue"
      BY <1>2, <3>1
    <3> QED BY <3>2
  <2> QED BY <1>1, <2>1, <2>2 DEF HeldInside
<1>9. ASSUME NEW k \in 1..Top' PROVE Fit(k)'
  <2>1. CASE k = Top + 1
    BY <1>2, <2>1 DEF Fit, Serving
  <2>2. CASE k \in 1..Top
    <3>1. Fit(k) /\ at'[k] = at[k] /\ locals'[k] = locals[k]
      BY <1>0, <1>2, <1>6, <2>2
    <3> QED BY <1>1, <1>5, <3>1 DEF Fit
  <2> QED BY <1>2, <2>1, <2>2
<1> QED BY <1>5, <1>6, <1>7, <1>8, <1>9 DEF RInv

LEMMA NothingMoves ==
  ASSUME IInv, RInv, UNCHANGED <<at, locals, prq, asked, mem, readerVars>> PROVE RInv'
<1>1. UNCHANGED <<program, queue, queue_mutex, i>>
  BY DEF readerVars
<1>2. Top' = Top
  BY DEF Top
<1>3. Count(Coming)' = Count(Coming) /\ Count(Serving)' = Count(Serving)
  BY <1>2 DEF Count, Frames
<1>4. /\ QueueFollows' /\ OneBuffer' /\ AllAtOnce' /\ OneByOne' /\ FlagsUp' /\ ReadersTypes'
      /\ Left' = Left /\ Callback' = Callback
  BY <1>3, Untouched
<1>5. Deep' /\ LocalsOK' /\ HeldInside' /\ Ended'
  BY <1>1, <1>2 DEF RInv, Deep, LocalsOK, HeldInside, Ended
<1>6. ASSUME NEW k \in 1..Top PROVE Fit(k)'
  BY <1>1, <1>4 DEF RInv, Fit
<1> QED BY <1>2, <1>4, <1>5, <1>6 DEF RInv

-----------------------------------------------------------------------------
(* Main moves, and is alone. *)
LEMMA MainMoves ==
  ASSUME IInv, RInv, NEW place \in Main, Goto(place), at[Top] \in Main,
         UNCHANGED <<locals, queue_mutex>>
  PROVE  /\ Top = 1 /\ at'[1] = place
         /\ Count(Coming) = 0 /\ Count(Coming)' = 0
         /\ InFlight = Len(prq) /\ InFlight' = Len(prq') /\ Left' = program'.blocks - asked' + InFlight'
         /\ queue_mutex = 0
         /\ program' = program => Deep'
         /\ LocalsOK' /\ HeldInside'
         /\ \A k \in 1..Top' : Fit(k)'
<1>0. StackOK /\ Deep /\ LocalsOK /\ HeldInside
  BY DEF IInv, RInv
<1>1. /\ Top = 1 /\ Count(Coming) = 0 /\ Count(Serving) = 0
  BY <1>0, Alone
<1>2. place \in Places
  BY DEF Places
<1>3. Top' = 1 /\ at'[1] = place
  BY <1>0, <1>1, <1>2, GotoKeeps
<1>4. Count(Coming)' = 0 /\ Count(Serving)' = 0
  <2>1. Frames(Coming)' = {} /\ Frames(Serving)' = {}
    BY <1>3 DEF Frames, Coming, Serving, Main
  <2>2. Cardinality({}) = 0
    BY FS_EmptySet
  <2> QED BY <2>1, <2>2 DEF Count
<1>5. Len(prq) \in Nat
  BY Numbers
<1>6. InFlight = Len(prq)
  BY <1>1, <1>5 DEF InFlight
<1>7. InFlight' = Len(prq') + 0 + 0
  BY <1>4 DEF InFlight
<1>8. Left' = program'.blocks - asked' + InFlight'
  BY DEF Left
<1>9. queue_mutex = 0
  BY <1>0, <1>1 DEF HeldInside, Main
<1>10. program' = program => Deep'
  BY <1>0, <1>1, <1>3 DEF Deep
<1>11. LocalsOK' /\ HeldInside'
  BY <1>0, <1>1, <1>3, <1>9 DEF LocalsOK, HeldInside
<1>12. ASSUME NEW k \in 1..Top' PROVE Fit(k)'
  <2>1. k = 1 /\ at'[k] \in Main
    BY <1>3
  <2> QED BY <2>1 DEF Fit, Main, Serving
<1> QED BY <1>1, <1>3, <1>4, <1>6, <1>7, <1>8, <1>9, <1>10, <1>11, <1>12

LEMMA AnnounceHolds == ASSUME IInv, RInv, Announce PROVE RInv'
<1>0. /\ StackOK /\ OneByOne /\ AllAtOnce /\ FlagsUp /\ OneBuffer
      /\ QueueFollows /\ ReadersTypes
      /\ program.name \in Names
  BY RoundIs DEF IInv, RInv
<1>1. /\ Goto("schedule") /\ at[Top] = "request" /\ MoreBlocks
      /\ UNCHANGED <<locals, queue_mutex, program, i, asked, prq, mem, pending_reads,
                     first_block_val, waiting_for_first_block>>
      /\ program.name = "sRead" => is_read_pending' = 1 /\ UNCHANGED <<queue, waiting_for_prev_block>>
      /\ program.name # "sRead" =>
           /\ queue' = Append(queue, [val |-> Buffer, callback |-> Callback])
           /\ waiting_for_prev_block' =
                IF program.name = "treasureHunt" /\ i > 0 THEN 1 ELSE waiting_for_prev_block
           /\ UNCHANGED is_read_pending
  BY DEF Announce, At, Enqueued, machine, diskVars
<1>2. "schedule" \in Main /\ at[Top] \in Main
  BY <1>1 DEF Main
<1>3. /\ Top = 1 /\ at'[1] = "schedule" /\ at[1] = "request"
      /\ Count(Coming) = 0 /\ Count(Coming)' = 0
      /\ InFlight = Len(prq) /\ InFlight' = Len(prq')
      /\ Left' = program'.blocks - asked' + InFlight'
      /\ Deep' /\ LocalsOK' /\ HeldInside' /\ \A k \in 1..Top' : Fit(k)'
  BY <1>1, <1>2, MainMoves
<1>4. Ended'
  BY <1>3 DEF Ended
<1>5. InFlight' = InFlight /\ Left' = Left
  BY <1>1, <1>3 DEF Left
<1>6. Buffer' = Buffer /\ Callback' = Callback
  BY <1>1, SameRound
<1>7. Len(prq) \in Nat /\ i \in Int
  BY Numbers
<1>8. OneBuffer'
  BY <1>0, <1>1, <1>3 DEF OneBuffer
<1>9. ReadersTypes' /\ QueueFollows'
  <2>1. CASE program.name = "sRead"
    <3>1. queue' = queue
      BY <1>1, <2>1
    <3>2. ReadersTypes'
      BY <1>0, <1>1, <3>1 DEF ReadersTypes
    <3>3. QueueFollows'
      BY <1>1, <2>1 DEF QueueFollows
    <3> QED BY <3>2, <3>3
  <2>2. CASE program.name # "sRead"
    <3> DEFINE entry == [val |-> Buffer, callback |-> Callback]
    <3>1. /\ entry \in Entries /\ entry.val = Buffer /\ entry.callback = Callback
      <4>1. Buffer \in Buffers
        BY <1>0, RoundIs
      <4>2. Callback \in {"handle_read", "handleFirstRead", "handleOtherReads"}
        BY <1>0, <2>2, RoundIs DEF Names
      <4> QED BY <4>1, <4>2 DEF Entries
    <3> HIDE DEF entry
    <3>2. queue' = Append(queue, entry) /\ queue \in Seq(Entries)
      BY <1>0, <1>1, <2>2 DEF ReadersTypes, entry
    <3>3. /\ queue' \in Seq(Entries) /\ Len(queue) \in Nat /\ Len(queue') = Len(queue) + 1
          /\ queue'[Len(queue) + 1] = entry
          /\ \A j \in 1..Len(queue) : queue'[j] = queue[j]
      BY <3>1, <3>2
    <3>4. /\ Len(queue) = Len(prq)
          /\ \A j \in 1..Len(prq) : queue[j].val = prq[j].buf
          /\ \A j \in 1..Len(queue) : queue[j].callback = Callback
      <4>1. /\ Len(queue) = 0 + Len(prq) + 0
            /\ \A j \in 1..Len(prq) : queue[0 + j].val = prq[j].buf
            /\ \A j \in 1..Len(queue) : queue[j].callback = Callback
        BY <1>0, <1>3, <2>2 DEF QueueFollows, Scheduling
      <4>2. \A j \in 1..Len(prq) : 0 + j = j
        BY <1>7
      <4> QED BY <1>7, <4>1, <4>2
    <3>5. ReadersTypes'
      BY <1>0, <1>1, <3>3 DEF ReadersTypes
    <3>6. Len(queue') = Count(Coming)' + Len(prq') + Scheduling'
      BY <1>1, <1>3, <1>7, <3>3, <3>4 DEF Scheduling
    <3>7. \A j \in 1..Count(Coming)' : queue'[j].val \in DOMAIN mem'
      BY <1>3
    <3>8. ASSUME NEW j \in 1..Len(prq') PROVE queue'[Count(Coming)' + j].val = prq'[j].buf
      <4>1. j \in 1..Len(queue) /\ Count(Coming)' + j = j /\ j \in 1..Len(prq)
        BY <1>1, <1>3, <1>7, <3>4
      <4> QED BY <1>1, <3>3, <3>4, <4>1
    <3>9. queue'[Len(queue')].val = Buffer'
      BY <1>6, <3>1, <3>3
    <3>10. ASSUME NEW j \in 1..Len(queue') PROVE queue'[j].callback = Callback'
      BY <1>6, <3>1, <3>3, <3>4
    <3> QED BY <3>5, <3>6, <3>7, <3>8, <3>9, <3>10 DEF QueueFollows
  <2> QED BY <2>1, <2>2
<1>10. AllAtOnce'
  <2>1. program.name = "aRead" => i < program.blocks
    BY <1>1 DEF MoreBlocks
  <2> QED BY <1>0, <1>1, <1>3, <1>5, <2>1 DEF AllAtOnce
<1>11. FlagsUp'
  BY <1>0, <1>1, <1>3, <1>7 DEF FlagsUp
<1>12. OneByOne'
  <2> SUFFICES ASSUME program.name # "aRead" PROVE InFlight' = 0 /\ ~Arrived'
    BY <1>1, <1>3 DEF OneByOne
  <2>1. InFlight' = 0
    BY <1>0, <1>3, <1>5 DEF OneByOne
  <2>2. CASE program.name = "sRead"
    BY <1>1, <2>1, <2>2 DEF Arrived
  <2>3. CASE program.name = "treasureHunt"
    <3>1. i = -1 => waiting_for_first_block' = 1
      BY <1>0, <1>1, <1>3, <2>3 DEF FlagsUp
    <3>2. i # -1 => waiting_for_prev_block' = 1
      BY <1>0, <1>1, <1>3, <1>7, <2>3 DEF FlagsUp
    <3>3. Arrived' <=> IF i = -1 THEN waiting_for_first_block' = 0 ELSE waiting_for_prev_block' = 0
      BY <1>1, <2>3 DEF Arrived
    <3> QED BY <2>1, <3>1, <3>2, <3>3
  <2> QED BY <1>0, <2>1, <2>2, <2>3 DEF Names
<1> QED BY <1>3, <1>4, <1>8, <1>9, <1>10, <1>11, <1>12 DEF RInv

LEMMA ScheduleHolds == ASSUME IInv, RInv, Schedule PROVE RInv'
<1>0. /\ StackOK /\ OneByOne /\ AllAtOnce /\ FlagsUp /\ OneBuffer
      /\ QueueFollows /\ ReadersTypes
      /\ program.name \in Names
  BY RoundIs DEF IInv, RInv
<1> DEFINE place == IF program.name = "aRead" THEN "request" ELSE "spin"
           request == [buf |-> Buffer, blockNo |-> BlockNo, completeTime |-> asked + 1]
<1>1. /\ Goto(place) /\ at[Top] = "schedule"
      /\ prq' = Append(prq, request) /\ asked' = asked + 1
      /\ i' = IF program.name = "aRead" THEN i + 1 ELSE i
      /\ UNCHANGED <<locals, queue, queue_mutex, program, mem, pending_reads, is_read_pending,
                     huntVars>>
  BY DEF Schedule, ScheduleRead, At
<1>2. place \in Main /\ at[Top] \in Main
  BY <1>1 DEF Main
<1>3. /\ Top = 1 /\ at'[1] = place /\ at[1] = "schedule"
      /\ Count(Coming) = 0 /\ Count(Coming)' = 0
      /\ InFlight = Len(prq) /\ InFlight' = Len(prq')
      /\ Left' = program'.blocks - asked' + InFlight'
      /\ Deep' /\ LocalsOK' /\ HeldInside' /\ \A k \in 1..Top' : Fit(k)'
  <2> HIDE DEF place
  <2> QED BY <1>1, <1>2, MainMoves
<1>4. Ended'
  BY <1>3 DEF Ended
<1>5. /\ Len(prq) \in Nat /\ i \in Int /\ asked \in Nat /\ program.blocks \in Nat
  BY Numbers
<1>6. /\ Len(prq') = Len(prq) + 1 /\ prq'[Len(prq) + 1].buf = Buffer
      /\ \A j \in 1..Len(prq) : prq'[j] = prq[j]
      /\ \E S : prq' \in Seq(S)
  <2>1. PICK S : prq \in Seq(S)
    BY <1>0 DEF ReadersTypes
  <2>2. request.buf = Buffer
    OBVIOUS
  <2> HIDE DEF request
  <2>3. prq \in Seq(S \cup {request})
    BY <2>1
  <2>4. /\ prq' \in Seq(S \cup {request}) /\ Len(prq') = Len(prq) + 1
        /\ prq'[Len(prq) + 1] = request /\ \A j \in 1..Len(prq) : prq'[j] = prq[j]
    BY <1>1, <2>3
  <2> QED BY <2>2, <2>4
<1> HIDE DEF request
<1>7. InFlight' = InFlight + 1 /\ Left' = Left
  <2>1. InFlight' = InFlight + 1
    BY <1>3, <1>6
  <2>2. /\ Left' = program.blocks - (asked + 1) + (InFlight + 1)
        /\ Left = program.blocks - asked + InFlight
    BY <1>1, <1>3, <2>1 DEF Left
  <2>3. InFlight \in Nat
    BY <1>3, <1>5
  <2> QED BY <1>5, <2>1, <2>2, <2>3
<1>8. ReadersTypes'
  BY <1>0, <1>1, <1>5, <1>6 DEF ReadersTypes
<1>9. QueueFollows'
  <2> SUFFICES ASSUME program.name # "sRead"
               PROVE  /\ Len(queue) = Len(prq')
                      /\ \A j \in 1..Len(prq') : queue[j].val = prq'[j].buf
                      /\ \A j \in 1..Len(queue) : queue[j].callback = Callback'
    <3>1. Scheduling' = 0 /\ at'[1] # "schedule"
      BY <1>3 DEF Scheduling
    <3>2. \A j \in 1..Len(prq') : Count(Coming)' + j = j
      BY <1>3, <1>5, <1>6
    <3>3. Count(Coming)' + Len(prq') + 0 = Len(prq')
      BY <1>3, <1>5, <1>6
    <3> QED BY <1>1, <1>3, <3>1, <3>2, <3>3 DEF QueueFollows
  <2>1. /\ Len(queue) = Len(prq) + 1
        /\ \A j \in 1..Len(prq) : queue[j].val = prq[j].buf
        /\ queue[Len(queue)].val = Buffer
        /\ \A j \in 1..Len(queue) : queue[j].callback = Callback
    <3>1. /\ Len(queue) = 0 + Len(prq) + 1
          /\ \A j \in 1..Len(prq) : queue[0 + j].val = prq[j].buf
          /\ queue[Len(queue)].val = Buffer
          /\ \A j \in 1..Len(queue) : queue[j].callback = Callback
      BY <1>0, <1>3 DEF QueueFollows, Scheduling
    <3>2. \A j \in 1..Len(prq) : 0 + j = j
      BY <1>5
    <3> QED BY <1>5, <3>1, <3>2
  <2>2. Callback' = Callback
    BY <1>0, <1>1 DEF Callback, Names
  <2>3. ASSUME NEW j \in 1..Len(prq') PROVE queue[j].val = prq'[j].buf
    <3>1. CASE j \in 1..Len(prq)
      BY <1>6, <2>1, <3>1
    <3>2. CASE j = Len(prq) + 1
      BY <1>6, <2>1, <3>2
    <3> QED BY <1>5, <1>6, <3>1, <3>2
  <2> QED BY <1>6, <2>1, <2>2, <2>3
<1>10. OneBuffer'
  <2> SUFFICES ASSUME program.name = "sRead"
               PROVE  queue = <<>> /\ \A j \in 1..Len(prq') : prq'[j].buf = Result
    BY <1>1, <1>3 DEF OneBuffer, Result
  <2>1. queue = <<>> /\ \A j \in 1..Len(prq) : prq[j].buf = Result
    BY <1>0 DEF OneBuffer
  <2>2. Buffer = Result
    BY <1>0, RoundIs
  <2>3. ASSUME NEW j \in 1..Len(prq') PROVE prq'[j].buf = Result
    <3>1. CASE j \in 1..Len(prq)
      BY <1>6, <2>1, <3>1
    <3>2. CASE j = Len(prq) + 1
      BY <1>6, <2>2, <3>2
    <3> QED BY <1>5, <1>6, <3>1, <3>2
  <2> QED BY <2>1, <2>3
<1>11. AllAtOnce'
  <2> SUFFICES ASSUME program.name = "aRead" PROVE AllAtOnce'
    BY <1>1 DEF AllAtOnce
  <2>1. asked = i /\ i < program.blocks /\ pending_reads \in Int /\ pending_reads >= Left
    BY <1>0, <1>3 DEF AllAtOnce
  <2>2. at'[1] = "request" /\ i' = i + 1
    BY <1>1, <1>3
  <2> QED BY <1>1, <1>5, <1>7, <2>1, <2>2 DEF AllAtOnce
<1>12. OneByOne' /\ FlagsUp'
  <2>1. CASE program.name = "aRead"
    BY <1>1, <2>1 DEF OneByOne, FlagsUp
  <2>2. CASE program.name # "aRead"
    <3>1. at'[1] = "spin" /\ UNCHANGED <<i, program, is_read_pending, waiting_for_first_block,
                                         waiting_for_prev_block>>
      BY <1>1, <1>3, <2>2 DEF huntVars
    <3>2. Arrived' = Arrived
      BY <3>1 DEF Arrived
    <3>3. InFlight = 0 /\ ~Arrived
      BY <1>0, <1>3, <2>2 DEF OneByOne
    <3>4. OneByOne'
      BY <1>7, <2>2, <3>1, <3>2, <3>3 DEF OneByOne
    <3>5. FlagsUp'
      BY <1>0, <3>1 DEF FlagsUp
    <3> QED BY <3>4, <3>5
  <2> QED BY <2>1, <2>2
<1> QED BY <1>3, <1>4, <1>8, <1>9, <1>10, <1>11, <1>12 DEF RInv

(* What main spun for was the one read in flight. *)
LEMMA SpinEndsHolds == ASSUME IInv, RInv, SpinEnds PROVE RInv'
<1>0. /\ StackOK /\ OneByOne /\ AllAtOnce /\ FlagsUp /\ OneBuffer
      /\ QueueFollows /\ ReadersTypes
  BY DEF IInv, RInv
<1>1. /\ Goto("request") /\ at[Top] = "spin" /\ Arrived /\ i' = i + 1
      /\ UNCHANGED <<locals, queue, queue_mutex, program, asked, prq, mem, huntVars>>
  BY DEF SpinEnds, At, machine, diskVars
<1>2. "request" \in Main /\ at[Top] \in Main
  BY <1>1 DEF Main
<1>3. /\ Top = 1 /\ at'[1] = "request" /\ at[1] = "spin"
      /\ Count(Coming) = 0 /\ Count(Coming)' = 0
      /\ InFlight = Len(prq) /\ InFlight' = Len(prq')
      /\ Deep' /\ LocalsOK' /\ HeldInside' /\ \A k \in 1..Top' : Fit(k)'
  BY <1>1, <1>2, MainMoves
<1>4. program.name # "aRead"
  BY <1>0, <1>3 DEF AllAtOnce
<1>5. Len(prq) = 0 /\ i \in Int
  BY <1>0, <1>1, <1>3, <1>4, Numbers DEF OneByOne
<1>6. ReadersTypes'
  BY <1>0, <1>1, <1>5 DEF ReadersTypes
<1>7. QueueFollows'
  <2>1. program.name # "sRead" => Len(queue) = 0
    <3>1. program.name # "sRead" => Len(queue) = 0 + 0 + 0
      BY <1>0, <1>3, <1>5 DEF QueueFollows, Scheduling
    <3> QED BY <3>1
  <2>2. Scheduling' = 0 /\ at'[1] # "schedule" /\ Count(Coming)' = 0 /\ Len(prq') = 0
    BY <1>1, <1>3, <1>5 DEF Scheduling
  <2> QED BY <1>1, <2>1, <2>2 DEF QueueFollows
<1>8. OneBuffer'
  BY <1>0, <1>1, <1>3 DEF OneBuffer, Result
<1>9. AllAtOnce' /\ OneByOne'
  BY <1>1, <1>3, <1>4, <1>5 DEF AllAtOnce, OneByOne
<1>10. FlagsUp'
  BY <1>0, <1>1, <1>5 DEF FlagsUp, huntVars
<1>11. Ended'
  BY <1>3 DEF Ended
<1> QED BY <1>3, <1>6, <1>7, <1>8, <1>9, <1>10, <1>11 DEF RInv

(* Nothing is left of pending_reads only when nothing is left to read. *)
LEMMA ReturnHolds == ASSUME IInv, RInv, Return PROVE RInv'
<1>0. /\ StackOK /\ OneByOne /\ AllAtOnce /\ FlagsUp /\ OneBuffer
      /\ QueueFollows /\ ReadersTypes
  BY DEF IInv, RInv
<1>1. /\ Goto("returned") /\ at[Top] = "request" /\ ~MoreBlocks /\ pending_reads <= 0
      /\ UNCHANGED <<locals, asked, prq, mem>> /\ UNCHANGED readerVars
  BY DEF Return, At, machine, diskVars
<1>2. /\ "returned" \in Main /\ at[Top] \in Main
      /\ UNCHANGED <<program, queue, queue_mutex, i, is_read_pending, pending_reads, huntVars>>
  BY <1>1 DEF Main, readerVars
<1>3. /\ Top = 1 /\ at'[1] = "returned" /\ at[1] = "request" /\ Top' = 1
      /\ Count(Coming) = 0 /\ Count(Coming)' = 0
      /\ InFlight = Len(prq) /\ InFlight' = Len(prq')
      /\ Left' = program'.blocks - asked' + InFlight'
      /\ Deep' /\ LocalsOK' /\ HeldInside' /\ \A k \in 1..Top' : Fit(k)'
  <2>1. "returned" \in Places
    BY DEF Places, Main
  <2>2. Top' = Top
    BY <1>0, <1>1, <2>1, GotoKeeps
  <2> QED BY <1>1, <1>2, <2>2, MainMoves
<1>4. /\ Len(prq) \in Nat /\ program.blocks \in Nat /\ asked \in Nat /\ i \in Int
      /\ Len(queue) \in Nat /\ (prq = <<>> <=> Len(prq) = 0) /\ (queue = <<>> <=> Len(queue) = 0)
  BY Numbers
<1>5. Len(prq) = 0
  <2>1. CASE program.name = "aRead"
    <3>1. asked = i /\ i <= program.blocks /\ pending_reads \in Int /\ pending_reads >= Left
      BY <1>0, <2>1 DEF AllAtOnce
    <3>2. i >= program.blocks
      BY <1>1, <1>4, <2>1 DEF MoreBlocks
    <3>3. Left = Len(prq)
      BY <1>3, <1>4, <3>1, <3>2 DEF Left
    <3> QED BY <1>1, <1>4, <3>1, <3>3
  <2>2. CASE program.name # "aRead"
    BY <1>0, <1>3, <2>2 DEF OneByOne
  <2> QED BY <2>1, <2>2
<1>6. Len(queue) = 0
  <2>1. CASE program.name = "sRead"
    BY <1>0, <1>4, <2>1 DEF OneBuffer
  <2>2. CASE program.name # "sRead"
    <3>1. Len(queue) = 0 + 0 + 0
      BY <1>0, <1>3, <1>5, <2>2 DEF QueueFollows, Scheduling
    <3> QED BY <3>1
  <2> QED BY <2>1, <2>2
<1>7. Ended'
  BY <1>2, <1>1, <1>3, <1>4, <1>5, <1>6 DEF Ended
<1>8. Left' = Left
  BY <1>1, <1>2, <1>3 DEF Left
<1>9. ReadersTypes' /\ OneBuffer'
  BY <1>0, <1>1, <1>2, <1>3 DEF ReadersTypes, OneBuffer
<1>10. QueueFollows'
  <2>1. Scheduling' = 0 /\ at'[1] # "schedule"
    BY <1>3 DEF Scheduling
  <2> QED BY <1>1, <1>2, <1>3, <1>5, <1>6, <2>1 DEF QueueFollows
<1>11. AllAtOnce' /\ OneByOne' /\ FlagsUp'
  BY <1>0, <1>1, <1>2, <1>3, <1>5, <1>8 DEF AllAtOnce, OneByOne, FlagsUp, huntVars
<1> QED BY <1>3, <1>7, <1>9, <1>10, <1>11 DEF RInv

LEMMA InitFits == Init => RInv
<1> SUFFICES ASSUME Init PROVE RInv
  OBVIOUS
<1>1. /\ at = <<"request">> /\ locals = <<NoLocals>> /\ prq = <<>> /\ queue = <<>>
      /\ queue_mutex = 0 /\ asked = 0 /\ mem = <<>> /\ program \in Programs
      /\ i = IF program.name = "treasureHunt" THEN -1 ELSE 0
      /\ pending_reads = IF program.name = "aRead" THEN program.blocks ELSE 0
      /\ waiting_for_first_block = 1 /\ waiting_for_prev_block = 1
  BY DEF Init, DiskInit
<1>2. StackOK /\ Top = 1 /\ at[1] = "request"
  BY <1>1, InitHolds DEF IInv, Top
<1>3. Deep
  BY <1>2 DEF Deep
<1>4. Count(Coming) = 0 /\ Count(Serving) = 0
  BY <1>2, <1>3, Alone DEF Main
<1>5. Len(prq) = 0 /\ Len(queue) = 0
  BY <1>1
<1>6. InFlight = 0 + 0 + 0
  BY <1>4, <1>5 DEF InFlight
<1>7. program.blocks \in Nat
  BY <1>1, ProgramsAssumption DEF ProgramsAssumption
<1>8. Left = program.blocks
  BY <1>1, <1>6, <1>7 DEF Left
<1>9. LocalsOK
  <2>1. DOMAIN NoLocals = {"now", "val", "tmp"}
    BY DEF NoLocals
  <2>2. locals \in Seq({NoLocals}) /\ Len(locals) = 1 /\ locals[1] = NoLocals
    BY <1>1
  <2> QED BY <1>2, <2>1, <2>2 DEF LocalsOK
<1>10. ReadersTypes
  <2>1. prq \in Seq({}) /\ queue \in Seq(Entries)
    BY <1>1
  <2> QED BY <1>1, <2>1 DEF ReadersTypes
<1>11. QueueFollows /\ OneBuffer
  BY <1>1, <1>2, <1>4, <1>5 DEF QueueFollows, OneBuffer, Scheduling
<1>12. AllAtOnce /\ OneByOne /\ FlagsUp
  BY <1>1, <1>2, <1>6, <1>7, <1>8 DEF AllAtOnce, OneByOne, FlagsUp
<1>13. HeldInside /\ Ended
  BY <1>1, <1>2 DEF HeldInside, Ended
<1>14. \A k \in 1..Top : Fit(k)
  BY <1>2 DEF Fit, Serving
<1> QED BY <1>3, <1>9, <1>10, <1>11, <1>12, <1>13, <1>14 DEF RInv

-----------------------------------------------------------------------------
LEMMA RStepKeeps == IInv /\ RInv /\ [Next]_vars => RInv'
<1> SUFFICES ASSUME IInv, RInv, [Next]_vars PROVE RInv'
  OBVIOUS
<1>1. CASE MainStep
  BY <1>1, AnnounceHolds, ScheduleHolds, SpinEndsHolds, ReturnHolds DEF MainStep
<1>2. CASE IsrStep
  BY <1>2, LockQueueStill, DequeueHolds, ServeStill, ServesHold DEF IsrStep
<1>3. CASE HandlerStep /\ UNCHANGED readerVars
  BY <1>3, HandlerStill, CompleteReadHolds, HandlerReturnsHolds DEF HandlerStep
<1>4. CASE Timer
  BY <1>4, TimerHolds
<1>5. CASE Elapse
  BY <1>5, NothingMoves DEF Elapse, TimePasses
<1>6. CASE UNCHANGED vars
  BY <1>6, NothingMoves DEF vars, machine, diskVars
<1> QED
  BY <1>1, <1>2, <1>3, <1>4, <1>5, <1>6 DEF Next, Interrupt

LEMMA FindsIts == IInv /\ RInv => IsrFindsRead
<1> SUFFICES ASSUME IInv, RInv, NEW k \in DOMAIN at
             PROVE  /\ at[k] = "callback" => locals[k].val # NoEntry /\ locals[k].val.val \in DOMAIN mem
                    /\ at[k] = "isr" /\ program.name = "sRead" => <<"result", 0>> \in DOMAIN mem
  BY DEF IsrFindsRead
<1>1. StackOK /\ OneBuffer
  BY DEF IInv, RInv
<1>2. k \in 1..Top
  BY <1>1 DEF StackOK, Top
<1>3. Fit(k)
  BY <1>2 DEF RInv
<1>4. at[k] = "callback" => locals[k].val # NoEntry /\ locals[k].val.val \in DOMAIN mem
  BY <1>3, EntryAssumption DEF Fit, EntryAssumption
<1>5. ASSUME at[k] = "isr", program.name = "sRead" PROVE Result \in DOMAIN mem
  <2>1. Count(Coming) \in Nat /\ Count(Coming) >= 1
    BY <1>1, <1>2, <1>5, CountOK DEF Coming
  <2> QED BY <1>1, <1>5, <2>1 DEF OneBuffer
<1> QED BY <1>4, <1>5 DEF Result

(* A second reader in its service routine has interrupted the first. *)
LEMMA NeverSpins == IInv /\ RInv => NobodySpins
<1> SUFFICES ASSUME IInv, RInv, OneReadAtATime, At("isr") \/ At("request"), queue_mutex # 0
             PROVE  FALSE
  BY Sufficient DEF NobodySpins, QueueMutexFree
<1>1. StackOK /\ Deep /\ OneByOne /\ HeldInside /\ Top \in Nat /\ Top > 0
  BY DEF IInv, RInv, StackOK, Top
<1>2. PICK k \in 1..Top : at[k] = "dequeue"
  BY <1>1 DEF HeldInside
<1>3. k # Top /\ k # 1
  <2>1. k # Top
    BY <1>2 DEF At
  <2>2. at[1] # "dequeue"
    BY <1>1 DEF StackOK, Main
  <2> QED BY <1>2, <2>1, <2>2
<1>4. Top > 2 /\ at[Top] = "isr"
  <2>1. Top > 2
    BY <1>1, <1>2, <1>3
  <2>2. at[Top] # "request"
    BY <1>1, <2>1 DEF Deep, Main
  <2> QED BY <2>1, <2>2 DEF At
<1>5. program.name # "aRead"
  BY <1>1, <1>4 DEF Deep, OneReadAtATime
<1>6. Count(Coming) >= 2
  <2>1. Top \in 1..Top /\ at[Top] \in Coming /\ at[k] \in Coming
    BY <1>1, <1>2, <1>4 DEF Coming
  <2> QED BY <1>1, <1>2, <1>3, <2>1, CountOK
<1>7. Len(prq) \in Nat /\ Count(Coming) \in Nat /\ Count(Serving) \in Nat
  BY Numbers
<1>8. InFlight >= 2
  BY <1>6, <1>7 DEF InFlight
<1>9. InFlight <= 1
  BY <1>1, <1>5 DEF OneByOne
<1> QED BY <1>7, <1>8, <1>9, Numbers

LEMMA NothingAfter == IInv /\ RInv => ReturnsLast
<1> SUFFICES ASSUME IInv, RInv, at[Top] = "returned" PROVE prq = <<>> /\ queue = <<>>
  BY DEF ReturnsLast, At
<1>1. StackOK /\ Deep /\ Ended
  BY DEF IInv, RInv
<1>2. Top = 1
  BY <1>1, Alone DEF Main
<1> QED BY <1>1, <1>2 DEF Ended

(* Every service routine, however deep, gets an entry whose buffer the disk has filled
   (aRead.c:18, treasureHunt.c:20, sRead.c:20): proved for every program and any depth. *)
THEOREM IsrFindsReadCorrect == Spec => []IsrFindsRead
BY InitHolds, StepKeeps, InitFits, RStepKeeps, FindsIts, PTL DEF Spec

(* No frame spins on a mutex that a frame below it holds: not on the disk's (disk.c:111),
   nor, with one read at a time, on the queue's (queue.c:59). *)
THEOREM NobodySpinsCorrect == Spec => []NobodySpins
BY InitHolds, StepKeeps, InitFits, RStepKeeps, NeverSpins, PTL DEF Spec

(* When main returns (aRead.c:53, treasureHunt.c:74, sRead.c:45) no read is pending at the
   disk and no callback is left, even where nested handlers lose decrements: main can only
   wait longer for that. *)
THEOREM ReturnsLastCorrect == Spec => []ReturnsLast
BY InitHolds, StepKeeps, InitFits, RStepKeeps, NothingAfter, PTL DEF Spec

-----------------------------------------------------------------------------
(* A block of the disk holds a number. *)
LEMMA BlockIs == \A b \in Nat : Block(b) \in Nat
<1> SUFFICES ASSUME NEW b \in Nat PROVE Block(b) \in Nat
  OBVIOUS
<1>1. Story \in Seq(Nat) /\ Len(Story) \in Nat /\ Len(Story) > 0
  BY StoryAssumption DEF StoryAssumption
<1>2. b % Len(Story) \in 0..(Len(Story) - 1)
  BY <1>1
<1>3. (b % Len(Story)) + 1 \in 1..Len(Story)
  BY <1>1, <1>2
<1> QED BY <1>1, <1>3 DEF Block

(* What the two recursive functions are. *)
LEMMA TotalIs ==
  Total[0] = 0 /\ \A n \in Nat : Total[n + 1] = Total[n] + Block(n)
<1> DEFINE V == Nat
           zero == 0
           step == [n \in Nat |-> [v \in Nat |-> v + Block(n)]]
<1>0. \A b \in Nat : Block(b) \in Nat
  BY BlockIs
<1>1. step \in [Nat -> [Nat -> Nat]] /\ \A n, v \in Nat : step[n][v] = v + Block(n)
  BY <1>0
<1>2. PICK F \in [Nat -> Nat] : F[0] = 0 /\ \A n \in Nat : F[n + 1] = step[n][F[n]]
  <2>1. zero \in V /\ step \in [Nat -> [V -> V]]
    BY <1>1
  <2> HIDE DEF V, zero, step
  <2>2. \E F \in [Nat -> V] : Recurs(F, zero, step)
    BY <2>1, Recursion
  <2> QED BY <2>2 DEF V, zero, Recurs
<1> HIDE DEF step
<1>3. F = [n \in Nat |-> IF n = 0 THEN 0 ELSE F[n - 1] + Block(n - 1)]
  <2>1. ASSUME NEW n \in Nat, n # 0 PROVE F[n] = F[n - 1] + Block(n - 1)
    <3>1. n - 1 \in Nat /\ (n - 1) + 1 = n
      BY <2>1
    <3>2. F[(n - 1) + 1] = step[n - 1][F[n - 1]]
      BY <1>2, <3>1
    <3> QED BY <1>1, <1>2, <3>1, <3>2
  <2> QED BY <1>2, <2>1
<1>4. Total = [n \in Nat |-> IF n = 0 THEN 0 ELSE Total[n - 1] + Block(n - 1)]
  BY <1>3, Zenon DEF Total
<1> QED BY <1>4

LEMMA TrailIs ==
  ASSUME program.blocks \in Nat
  PROVE  /\ Trail[0] = Block(Block(program.blocks))
         /\ \A n \in Nat : Trail[n + 1] = Block(Trail[n]) /\ Trail[n] \in Nat
<1> DEFINE V == Nat
           first == Block(Block(program.blocks))
           step == [n \in Nat |-> [v \in Nat |-> Block(v)]]
<1>0. \A b \in Nat : Block(b) \in Nat
  BY BlockIs
<1>1. step \in [Nat -> [Nat -> Nat]] /\ \A n, v \in Nat : step[n][v] = Block(v)
  BY <1>0
<1>2. first \in Nat
  BY <1>0
<1>3. PICK F \in [Nat -> Nat] : F[0] = first /\ \A n \in Nat : F[n + 1] = step[n][F[n]]
  <2>1. first \in V /\ step \in [Nat -> [V -> V]]
    BY <1>1, <1>2
  <2> HIDE DEF V, first, step
  <2>2. \E F \in [Nat -> V] : Recurs(F, first, step)
    BY <2>1, Recursion
  <2> QED BY <2>2 DEF V, Recurs
<1> HIDE DEF step
<1>4. F = [n \in Nat |-> IF n = 0 THEN first ELSE Block(F[n - 1])]
  <2>1. ASSUME NEW n \in Nat, n # 0 PROVE F[n] = Block(F[n - 1])
    <3>1. n - 1 \in Nat /\ (n - 1) + 1 = n
      BY <2>1
    <3> QED BY <1>1, <1>3, <3>1
  <2> QED BY <1>3, <2>1
<1>5. PICK G : G = [n \in Nat |-> IF n = 0 THEN first ELSE Block(G[n - 1])]
  BY <1>4
<1>6. Trail = [n \in Nat |-> IF n = 0 THEN first ELSE Block(Trail[n - 1])]
  BY <1>5, Zenon DEF Trail
<1>7. \A n \in Nat : Trail[n + 1] = Block(Trail[n])
  BY <1>6
<1>8. Trail[0] = first
  BY <1>6
<1>9. \A n \in Nat : Trail[n] \in Nat
  <2> DEFINE S == {n \in Nat : Trail[n] \in Nat}
  <2>1. 0 \in S /\ \A n \in Nat : n \in S => n + 1 \in S
    BY <1>0, <1>2, <1>7, <1>8
  <2> HIDE DEF S
  <2>2. \A n \in Nat : n \in S
    BY <2>1, Upward
  <2> QED BY <2>2 DEF S
<1> QED BY <1>7, <1>8, <1>9

-----------------------------------------------------------------------------
Holds(buf, value) == buf \in DOMAIN mem /\ mem[buf] = value

(* The block that sRead or a hunt spins for is still to be written, by the request that main
   made in this round, or it has been. *)
RightBlock ==
  program.name # "aRead" /\ at[1] = "spin" =>
    /\ \A j \in 1..Len(prq) : prq[j].buf = Buffer /\ prq[j].blockNo = BlockNo
    /\ prq = <<>> => Holds(Buffer, Block(BlockNo))

RunningSum ==
  program.name = "sRead" =>
    /\ i \in Nat /\ i <= program.blocks /\ sum = Total[i]
    /\ at[1] \in {"schedule", "spin"} => i < program.blocks

(* The rounds of a hunt that are over have left the trail in its buffers. *)
OnTrail ==
  program.name = "treasureHunt" =>
    /\ i >= 0 \/ waiting_for_first_block = 0 => first_block_val = Block(program.blocks)
    /\ \A k \in 0..(i - 1) : Holds(<<"blocks", k>>, Trail[k])
    /\ \A j \in 1..Len(queue) : queue[j].val = Buffer
    /\ \A k \in 1..Top : at[k] = "callback" => locals[k].val.val = Buffer

(* aRead's blocks are written in their order, come to the service routine in that order, and
   are added to the sum one after the other, when no handler interrupts another. *)
Uncounted == Coming \cup {"callback", "store_sum"}
Written == asked - Len(prq)
Counted == Written - Count(Uncounted)

AddingUp ==
  program.name = "aRead" /\ ~program.nested =>
    /\ \A k \in 0..(Written - 1) : Holds(<<"res", k>>, Block(k))
    /\ \A j \in 1..Len(prq) : /\ prq[j].buf = <<"res", Written + j - 1>>
                              /\ prq[j].blockNo = Written + j - 1
    /\ \A j \in 1..Len(queue) : queue[j].val = <<"res", Written - Count(Coming) + j - 1>>
    /\ Counted \in Nat /\ sum = Total[Counted]
    /\ \A k \in 1..Top : /\ at[k] = "callback" => locals[k].val.val = <<"res", Counted>>
                         /\ at[k] = "store_sum" => locals[k].tmp = Total[Counted + 1]

AfterAll == at[1] = "returned" => ~MoreBlocks

AInv == RightBlock /\ RunningSum /\ OnTrail /\ AddingUp /\ AfterAll

-----------------------------------------------------------------------------
LEMMA TrailStays == ASSUME UNCHANGED program PROVE Trail' = Trail
BY DEF Trail

(* Where handlers do not interrupt handlers, at most one read is between the disk and main. *)
LEMMA OneHandler ==
  ASSUME StackOK, Deep, ~program.nested, NEW S, S \cap Main = {}
  PROVE  /\ Count(S) \in {0, 1}
         /\ at[Top] \in S => Count(S) = 1 /\ Top = 2
<1>1. Top \in Nat /\ Top > 0 /\ at[1] \in Main /\ Top <= 2
  BY DEF StackOK, Top, Deep
<1>2. at[1] \notin S
  BY <1>1
<1>3. CASE at[Top] \in S
  <2>1. Top = 2
    BY <1>1, <1>2, <1>3
  <2>2. Frames(S) = {2}
    BY <1>2, <1>3, <2>1 DEF Frames
  <2>3. Cardinality({2}) = 1
    BY FS_Singleton
  <2> QED BY <2>1, <2>2, <2>3 DEF Count
<1>4. CASE at[Top] \notin S
  <2>1. Frames(S) = {}
    BY <1>1, <1>2, <1>4 DEF Frames
  <2>2. Cardinality({}) = 0
    BY FS_EmptySet
  <2> QED BY <1>4, <2>1, <2>2 DEF Count
<1> QED BY <1>3, <1>4

(* When main moves no handler is there to be counted. *)
LEMMA MainCounts ==
  ASSUME StackOK, Deep, at[Top] \in Main, Top' = 1, at'[1] \in Main
  PROVE  Count(Uncounted) = 0 /\ Count(Uncounted)' = Count(Uncounted)
<1>1. Top = 1
  BY Alone
<1>2. Frames(Uncounted) = {} /\ Frames(Uncounted)' = {}
  BY <1>1 DEF Frames, Uncounted, Coming, Main
<1>3. Cardinality({}) = 0
  BY FS_EmptySet
<1> QED BY <1>2, <1>3 DEF Count

(* What main asks for in a round. *)
LEMMA AskedFor ==
  ASSUME ReadersTypes, FlagsUp, OnTrail
  PROVE  /\ program.name = "sRead" => Buffer = Result /\ BlockNo = i
         /\ program.name = "aRead" => Buffer = <<"res", i>> /\ BlockNo = i
         /\ program.name = "treasureHunt" =>
              IF i = -1 THEN Buffer = <<"starting_block", 0>> /\ BlockNo = program.blocks
              ELSE /\ i \in Nat /\ Buffer = <<"blocks", i>>
                   /\ BlockNo = IF i = 0 THEN Block(program.blocks) ELSE Trail[i - 1]
<1>1. program.name \in Names /\ program.blocks \in Nat /\ i \in Int
  BY RoundIs DEF ReadersTypes
<1>2. CASE program.name # "treasureHunt"
  BY <1>1, <1>2 DEF Buffer, BlockNo, Result, Names
<1>3. CASE program.name = "treasureHunt" /\ i = -1
  BY <1>3 DEF Buffer, BlockNo
<1>4. CASE program.name = "treasureHunt" /\ i # -1
  <2>1. i \in Nat /\ Buffer = <<"blocks", i>>
    BY <1>1, <1>4 DEF FlagsUp, Buffer
  <2>2. CASE i = 0
    <3>1. BlockNo = first_block_val
      BY <1>4, <2>2 DEF BlockNo
    <3>2. first_block_val = Block(program.blocks)
      BY <1>4, <2>2 DEF OnTrail
    <3> QED BY <1>4, <2>1, <2>2, <3>1, <3>2
  <2>3. CASE i # 0
    <3>1. BlockNo = mem[<<"blocks", i - 1>>]
      BY <1>4, <2>1, <2>3 DEF BlockNo
    <3>2. i - 1 \in 0..(i - 1)
      BY <2>1, <2>3
    <3>3. mem[<<"blocks", i - 1>>] = Trail[i - 1]
      BY <1>4, <3>2 DEF OnTrail, Holds
    <3> QED BY <1>4, <2>1, <2>3, <3>1, <3>3
  <2> QED BY <2>2, <2>3
<1> QED BY <1>2, <1>3, <1>4

(* A step of the timer, of a handler or of main's end, that does nothing to what is read. *)
LEMMA Quiet ==
  ASSUME IInv, RInv, AInv,
         UNCHANGED <<program, queue, i, sum, asked, prq, mem, first_block_val, waiting_for_first_block>>,
         at'[1] = at[1],
         program.name = "aRead" => Count(Coming)' = Count(Coming) /\ Count(Uncounted)' = Count(Uncounted),
         \A k \in 1..Top' : at'[k] \in {"callback", "store_sum"} =>
           k \in 1..Top /\ at'[k] = at[k] /\ locals'[k] = locals[k]
  PROVE  AInv'
<1>1. Trail' = Trail /\ Buffer' = Buffer
  BY TrailStays, SameRound
<1>2. BlockNo' = BlockNo /\ MoreBlocks' = MoreBlocks
  BY DEF BlockNo, MoreBlocks
<1>3. RightBlock'
  BY <1>1, <1>2 DEF AInv, RightBlock, Holds
<1>4. RunningSum'
  BY DEF AInv, RunningSum
<1>5. OnTrail'
  BY <1>1 DEF AInv, OnTrail, Holds
<1>6. AddingUp'
  BY DEF AInv, AddingUp, Counted, Written, Holds
<1>7. AfterAll'
  BY <1>2 DEF AInv, AfterAll
<1> QED BY <1>3, <1>4, <1>5, <1>6, <1>7 DEF AInv

LEMMA QuietSteps ==
  ASSUME IInv, RInv, AInv,
         \/ (LockRequests \/ DeliverInterrupt \/ InterruptServed) /\ UNCHANGED readerVars
         \/ ClearFlag \/ LockQueue \/ LoadPending \/ StorePending
  PROVE  AInv'
<1>0. /\ StackOK /\ Top \in Nat /\ Top > 0 /\ Fit(Top)
      /\ program.name = "aRead" => Callback = "handle_read"
  BY RoundIs DEF IInv, RInv, StackOK, Top
<1>1. UNCHANGED <<program, queue, i, sum, asked, prq, mem, first_block_val, waiting_for_first_block>>
  BY DEF LockRequests, DeliverInterrupt, InterruptServed, ClearFlag, LockQueue, LoadPending,
         StorePending, Compute, machine, diskVars, readerVars, huntVars
<1> DEFINE Ready == {"lock", "loop", "deliver", "isr", "dequeue", "callback", "load_pending",
                     "store_pending", "served"}
<1>2. PICK place \in Ready : Goto(place)
  BY DEF LockRequests, DeliverInterrupt, InterruptServed, ClearFlag, LockQueue, LoadPending,
         StorePending, Compute
<1>3. /\ at[Top] \in Ready
      /\ place \notin {"callback", "store_sum"}
      /\ program.name = "aRead" => /\ place \in Coming <=> at[Top] \in Coming
                                   /\ place \in Uncounted <=> at[Top] \in Uncounted
  <2>1. CASE LockRequests \/ DeliverInterrupt \/ InterruptServed
    <3>1. \/ at[Top] = "lock" /\ Goto("loop")
          \/ at[Top] = "deliver" /\ Goto("isr")
          \/ at[Top] = "served" /\ Goto("lock")
      BY <2>1 DEF LockRequests, DeliverInterrupt, InterruptServed, At
    <3>2. \/ at[Top] = "lock" /\ place = "loop"
          \/ at[Top] = "deliver" /\ place = "isr"
          \/ at[Top] = "served" /\ place = "lock"
      BY <1>0, <1>2, <3>1, GotoKeeps DEF Places, Inside
    <3> QED BY <3>2 DEF Coming, Uncounted
  <2>2. CASE ClearFlag \/ LockQueue \/ LoadPending \/ StorePending
    <3>1. \/ at[Top] = "isr" /\ Goto("served") /\ program.name = "sRead"
          \/ at[Top] = "isr" /\ Goto("dequeue")
          \/ at[Top] = "load_pending" /\ Goto("store_pending")
          \/ at[Top] = "callback" /\ Goto("store_pending") /\ locals[Top].val.callback = "handleOtherReads"
          \/ at[Top] = "store_pending" /\ Goto("served")
      BY <2>2 DEF ClearFlag, LockQueue, LoadPending, StorePending, Compute, Calls, At, Mine
    <3>2. \/ at[Top] = "isr" /\ place = "served" /\ program.name = "sRead"
          \/ at[Top] = "isr" /\ place = "dequeue"
          \/ at[Top] = "load_pending" /\ place = "store_pending"
          \/ at[Top] = "callback" /\ place = "store_pending" /\ locals[Top].val.callback = "handleOtherReads"
          \/ at[Top] = "store_pending" /\ place = "served"
      BY <1>0, <1>2, <3>1, GotoKeeps DEF Places, Inside
    <3> QED BY <1>0, <3>2 DEF Coming, Uncounted, Fit
  <2> QED BY <2>1, <2>2
<1>4. place \in Places \ Main /\ at[Top] \notin Main
  BY <1>2, <1>3 DEF Places, Main, Inside
<1>5. /\ Top' = Top /\ at'[Top] = place /\ at'[1] = at[1]
      /\ \A k \in 1..Top : k # Top => at'[k] = at[k]
  BY <1>1, <1>2, <1>4, HandlerMoves
<1>6. program.name = "aRead" => Count(Coming)' = Count(Coming) /\ Count(Uncounted)' = Count(Uncounted)
  <2> SUFFICES ASSUME program.name = "aRead"
               PROVE  Count(Coming)' = Count(Coming) /\ Count(Uncounted)' = Count(Uncounted)
    OBVIOUS
  <2>1. Count(Coming) \in Nat /\ Count(Uncounted) \in Nat
    BY <1>0, CountOK
  <2>2. /\ Count(Coming)' = (Count(Coming) - (IF at[Top] \in Coming THEN 1 ELSE 0))
                             + (IF place \in Coming THEN 1 ELSE 0)
        /\ Count(Uncounted)' = (Count(Uncounted) - (IF at[Top] \in Uncounted THEN 1 ELSE 0))
                                + (IF place \in Uncounted THEN 1 ELSE 0)
    BY <1>0, <1>2, <1>4, CountMoves
  <2> HIDE DEF Coming, Uncounted
  <2> QED BY <1>3, <2>1, <2>2
<1>7. \A k \in 1..Top : k # Top => locals'[k] = locals[k]
  <2>1. locals' = locals \/ \E e : locals' = [locals EXCEPT ![Top].tmp = e]
    BY DEF LockRequests, DeliverInterrupt, InterruptServed, ClearFlag, LockQueue, LoadPending,
           StorePending, Compute
  <2>2. LocalsOK
    BY DEF RInv
  <2> QED BY <1>0, <1>5, <2>1, <2>2, LocalTmp
<1> QED BY <1>1, <1>3, <1>5, <1>6, <1>7, Quiet

LEMMA QuietStack ==
  ASSUME IInv, RInv, AInv,
         (HandlerReturns /\ UNCHANGED readerVars) \/ Timer \/ UNCHANGED <<at, locals, diskVars, readerVars>>
         \/ Elapse
  PROVE  AInv'
<1>0. StackOK /\ LocalsOK /\ Top \in Nat /\ Top > 0
  BY DEF IInv, RInv, StackOK, Top
<1>1. UNCHANGED <<program, queue, i, sum, asked, prq, mem, first_block_val, waiting_for_first_block>>
  BY DEF HandlerReturns, Timer, Tick, Elapse, TimePasses, diskVars, readerVars, huntVars
<1>2. CASE HandlerReturns
  <2>1. at[Top] = "loop" /\ at' = SubSeq(at, 1, Top - 1) /\ locals' = SubSeq(locals, 1, Top - 1)
    BY <1>2 DEF HandlerReturns, At
  <2>2. Top > 1
    BY <1>0, <2>1 DEF StackOK, Main
  <2>3. Top' = Top - 1 /\ \A k \in 1..(Top - 1) : at'[k] = at[k]
    BY <1>0, <2>1, <2>2, PopKeeps
  <2>4. Count(Coming)' = Count(Coming) /\ Count(Uncounted)' = Count(Uncounted)
    BY <1>0, <2>1, <2>2, CountPop DEF Coming, Uncounted
  <2>5. \A k \in 1..(Top - 1) : locals'[k] = locals[k]
    <3>1. PICK S : locals \in Seq(S)
      BY <1>0 DEF LocalsOK
    <3> QED BY <1>0, <2>1, <2>2, <3>1 DEF LocalsOK
  <2>6. at'[1] = at[1]
    BY <1>0, <2>2, <2>3
  <2> QED BY <1>0, <1>1, <2>3, <2>4, <2>5, <2>6, Quiet
<1>3. CASE Timer
  <2>1. at' = Append(at, "lock") /\ locals' = Append(locals, [NoLocals EXCEPT !.now = clock])
    BY <1>3 DEF Timer, Tick
  <2>2. Top' = Top + 1 /\ at'[Top + 1] = "lock" /\ \A k \in 1..Top : at'[k] = at[k]
    BY <1>0, <2>1, PushKeeps
  <2>3. Count(Coming)' = Count(Coming) /\ Count(Uncounted)' = Count(Uncounted)
    BY <1>0, <2>1, CountPush DEF Coming, Uncounted
  <2>4. \A k \in 1..Top : locals'[k] = locals[k]
    <3> DEFINE new == [NoLocals EXCEPT !.now = clock]
    <3>1. PICK S : locals \in Seq(S)
      BY <1>0 DEF LocalsOK
    <3> HIDE DEF new
    <3>2. locals \in Seq(S \cup {new}) /\ Len(locals) = Top
      BY <1>0, <3>1 DEF LocalsOK
    <3>3. locals' = Append(locals, new)
      BY <2>1 DEF new
    <3> QED BY <1>0, <3>2, <3>3
  <2>5. at'[1] = at[1] /\ \A k \in 1..Top' : at'[k] # "lock" => k \in 1..Top
    BY <1>0, <2>2
  <2>6. \A k \in 1..Top' : at'[k] \in {"callback", "store_sum"} =>
           k \in 1..Top /\ at'[k] = at[k] /\ locals'[k] = locals[k]
    BY <2>2, <2>4, <2>5
  <2> QED BY <1>1, <2>3, <2>5, <2>6, Quiet
<1>4. CASE UNCHANGED <<at, locals>>
  <2>1. Top' = Top
    BY <1>4 DEF Top
  <2>2. Count(Coming)' = Count(Coming) /\ Count(Uncounted)' = Count(Uncounted)
    BY <1>4, <2>1 DEF Count, Frames
  <2> QED BY <1>1, <1>4, <2>1, <2>2, Quiet
<1> QED BY <1>2, <1>3, <1>4 DEF Elapse, TimePasses

-----------------------------------------------------------------------------
(* The disk writes the block that was asked for first. *)
LEMMA CompleteReadAnswers ==
  ASSUME IInv, RInv, AInv, CompleteRead, UNCHANGED readerVars PROVE AInv'
<1>0. /\ StackOK /\ Deep /\ ReadersTypes /\ FlagsUp /\ OneByOne
      /\ RightBlock /\ RunningSum /\ OnTrail /\ AddingUp /\ AfterAll
      /\ program.name \in Names /\ program.blocks \in Nat /\ i \in Int
  BY RoundIs DEF IInv, RInv, AInv, ReadersTypes
<1>1. /\ Goto("deliver") /\ at[Top] = "loop" /\ prq # <<>> /\ prq' = Tail(prq)
      /\ UNCHANGED <<program, queue, i, sum, asked, locals, first_block_val, waiting_for_first_block>>
      /\ mem' = Filled(Head(prq).buf, Head(prq).blockNo)
  BY DEF CompleteRead, At, Due, AfterDequeue, readerVars, huntVars
<1>2. "deliver" \in Places \ Main /\ at[Top] \notin Main
  BY <1>1 DEF Places, Main
<1>3. /\ Top' = Top /\ Top \in Nat /\ Top > 1
      /\ at'[Top] = "deliver" /\ \A k \in 1..Top : k # Top => at'[k] = at[k]
      /\ at'[1] = at[1] /\ at[1] # "returned"
  BY <1>1, <1>2, HandlerMoves
<1>4. /\ Len(prq) \in Nat /\ Len(prq) >= 1 /\ Len(prq') = Len(prq) - 1 /\ Head(prq) = prq[1]
      /\ \A j \in 1..Len(prq') : prq'[j] = prq[j + 1]
      /\ (prq' = <<>> <=> Len(prq') = 0)
  <2>1. PICK S : prq \in Seq(S)
    BY <1>0 DEF ReadersTypes
  <2>2. prq' \in Seq(S)
    BY <1>1, <2>1
  <2>3. prq' = <<>> <=> Len(prq') = 0
    BY <2>2
  <2> QED BY <1>1, <2>1, <2>3
<1>5. /\ prq[1].buf \in DOMAIN mem' /\ mem'[prq[1].buf] = Block(prq[1].blockNo)
      /\ \A b, v : b # prq[1].buf /\ Holds(b, v) => b \in DOMAIN mem' /\ mem'[b] = v
  <2> DEFINE buf == prq[1].buf
             n == prq[1].blockNo
  <2>1. mem' = Filled(buf, n)
    BY <1>1, <1>4
  <2> HIDE DEF buf, n
  <2>2. /\ buf \in DOMAIN mem' /\ mem'[buf] = Block(n)
        /\ \A b, v : b # buf /\ Holds(b, v) => b \in DOMAIN mem' /\ mem'[b] = v
    BY <2>1 DEF Filled, Holds
  <2> QED BY <2>2 DEF buf, n
<1>6. Trail' = Trail /\ Buffer' = Buffer /\ MoreBlocks' = MoreBlocks
  BY <1>1, TrailStays, SameRound DEF MoreBlocks
<1>7. program.name # "aRead" =>
        at[1] = "spin" /\ Len(prq) = 1 /\ prq[1].buf = Buffer /\ prq[1].blockNo = BlockNo
  <2> SUFFICES ASSUME program.name # "aRead"
               PROVE  at[1] = "spin" /\ Len(prq) = 1 /\ prq[1].buf = Buffer /\ prq[1].blockNo = BlockNo
    OBVIOUS
  <2>1. InFlight >= Len(prq)
    BY <1>4, Numbers DEF InFlight
  <2>2. at[1] = "spin" /\ InFlight <= 1
    BY <1>0, <1>4, <2>1, Numbers DEF OneByOne
  <2>3. Len(prq) = 1
    BY <1>4, <2>1, <2>2, Numbers
  <2> QED BY <1>0, <2>2, <2>3 DEF RightBlock
<1>8. OnTrail'
  <2> SUFFICES ASSUME program.name = "treasureHunt", NEW k \in 0..(i - 1)
               PROVE  <<"blocks", k>> \in DOMAIN mem' /\ mem'[<<"blocks", k>>] = Trail[k]
    BY <1>0, <1>1, <1>3, <1>6 DEF OnTrail, Holds
  <2>1. Holds(<<"blocks", k>>, Trail[k])
    BY <1>0 DEF OnTrail
  <2>2. <<"blocks", k>> # Buffer
    BY <1>0, AskedFor
  <2> QED BY <1>5, <1>7, <2>1, <2>2
<1>9. program.name # "aRead" => BlockNo' = BlockNo
  <2> SUFFICES ASSUME program.name # "aRead" PROVE BlockNo' = BlockNo
    OBVIOUS
  <2>1. CASE program.name # "treasureHunt" \/ i <= 0
    BY <1>0, <1>1, <2>1 DEF BlockNo, FlagsUp
  <2>2. CASE program.name = "treasureHunt" /\ i > 0
    <3>1. i - 1 \in 0..(i - 1)
      BY <1>0, <2>2
    <3>2. mem'[<<"blocks", i - 1>>] = Trail'[i - 1] /\ mem[<<"blocks", i - 1>>] = Trail[i - 1]
      BY <1>0, <1>1, <1>8, <2>2, <3>1 DEF OnTrail, Holds
    <3> QED BY <1>0, <1>1, <1>6, <2>2, <3>2 DEF BlockNo
  <2> QED BY <1>0, <2>1, <2>2
<1>10. RightBlock'
  <2> SUFFICES ASSUME program.name # "aRead"
               PROVE  Len(prq') = 0 /\ Buffer \in DOMAIN mem' /\ mem'[Buffer] = Block(BlockNo)
    BY <1>1, <1>4, <1>6, <1>9 DEF RightBlock, Holds
  <2>1. Len(prq') = 0
    <3>1. Len(prq) = 1
      BY <1>7
    <3>2. Len(prq') = Len(prq) - 1
      BY <1>4
    <3> QED BY <3>1, <3>2
  <2>2. Buffer \in DOMAIN mem' /\ mem'[Buffer] = Block(BlockNo)
    BY <1>5, <1>7, Zenon
  <2> QED BY <2>1, <2>2
<1>11. RunningSum' /\ AfterAll'
  BY <1>0, <1>1, <1>3, <1>6 DEF RunningSum, AfterAll
<1>12. AddingUp'
  <2> SUFFICES ASSUME program.name = "aRead", ~program.nested PROVE AddingUp'
    BY <1>1 DEF AddingUp
  <2>1. /\ \A k \in 0..(Written - 1) : Holds(<<"res", k>>, Block(k))
        /\ \A j \in 1..Len(prq) : /\ prq[j].buf = <<"res", Written + j - 1>>
                                  /\ prq[j].blockNo = Written + j - 1
        /\ \A j \in 1..Len(queue) : queue[j].val = <<"res", Written - Count(Coming) + j - 1>>
        /\ Counted \in Nat /\ sum = Total[Counted]
        /\ \A k \in 1..Top : /\ at[k] = "callback" => locals[k].val.val = <<"res", Counted>>
                             /\ at[k] = "store_sum" => locals[k].tmp = Total[Counted + 1]
    BY <1>0, <2>1 DEF AddingUp
  <2>2. /\ Count(Coming) \in Nat /\ Count(Coming)' = Count(Coming) + 1
        /\ Count(Uncounted) \in Nat /\ Count(Uncounted)' = Count(Uncounted) + 1
    <3>1. /\ Count(Coming)' = (Count(Coming) - 0) + 1 /\ Count(Uncounted)' = (Count(Uncounted) - 0) + 1
      <4>1. /\ at[Top] \notin Coming /\ at[Top] \notin Uncounted
            /\ "deliver" \in Coming /\ "deliver" \in Uncounted
        BY <1>1 DEF Coming, Uncounted
      <4> QED BY <1>0, <1>1, <1>2, <4>1, CountMoves
    <3>2. Count(Coming) \in Nat /\ Count(Uncounted) \in Nat
      BY <1>0, CountOK
    <3> QED BY <3>1, <3>2
  <2>3. Written \in Int /\ Written' = Written + 1
    BY <1>1, <1>4, Numbers DEF Written
  <2>4. Counted' = Counted
    BY <2>2, <2>3 DEF Counted
  <2>5. Written \in Nat
    BY <2>1, <2>2, <2>3 DEF Counted
  <2>6. prq[1].buf = <<"res", Written>> /\ prq[1].blockNo = Written
    <3>1. 1 \in 1..Len(prq) /\ Written + 1 - 1 = Written
      BY <1>4, <2>5
    <3>2. prq[1].buf = <<"res", Written + 1 - 1>> /\ prq[1].blockNo = Written + 1 - 1
      BY <2>1, <3>1
    <3> QED BY <3>1, <3>2
  <2>7. ASSUME NEW k \in 0..(Written' - 1) PROVE Holds(<<"res", k>>, Block(k))'
    <3>1. CASE k = Written
      BY <1>5, <2>6, <3>1 DEF Holds
    <3>2. CASE k # Written
      <4>1. k \in 0..(Written - 1) /\ <<"res", k>> # prq[1].buf
        BY <2>3, <2>5, <2>6, <2>7, <3>2
      <4>2. Holds(<<"res", k>>, Block(k))
        BY <2>1, <4>1
      <4> QED BY <1>5, <4>1, <4>2 DEF Holds
    <3> QED BY <3>1, <3>2
  <2>8. ASSUME NEW j \in 1..Len(prq')
        PROVE  prq'[j].buf = <<"res", Written' + j - 1>> /\ prq'[j].blockNo = Written' + j - 1
    <3>1. j + 1 \in 1..Len(prq) /\ Written + (j + 1) - 1 = Written' + j - 1
      BY <1>4, <2>3
    <3> QED BY <1>4, <2>1, <3>1
  <2>9. ASSUME NEW j \in 1..Len(queue)
        PROVE  queue[j].val = <<"res", Written' - Count(Coming)' + j - 1>>
    <3>1. Written' - Count(Coming)' + j - 1 = Written - Count(Coming) + j - 1
      BY <2>2, <2>3, Numbers
    <3> QED BY <2>1, <3>1
  <2>10. ASSUME NEW k \in 1..Top
         PROVE  /\ at'[k] = "callback" => locals'[k].val.val = <<"res", Counted'>>
                /\ at'[k] = "store_sum" => locals'[k].tmp = Total[Counted' + 1]
    BY <1>1, <1>3, <2>1, <2>4
  <2> QED BY <1>1, <1>3, <2>1, <2>4, <2>7, <2>8, <2>9, <2>10 DEF AddingUp
<1> QED BY <1>8, <1>10, <1>11, <1>12 DEF AInv

(* The service routine gets the entry of the read that was completed first. *)
LEMMA DequeueAnswers == ASSUME IInv, RInv, AInv, Dequeue PROVE AInv'
<1>0. /\ StackOK /\ Deep /\ LocalsOK /\ ReadersTypes /\ QueueFollows /\ Fit(Top)
      /\ RightBlock /\ RunningSum /\ OnTrail /\ AddingUp /\ AfterAll
      /\ Top \in Nat /\ Top > 0
  BY DEF IInv, RInv, AInv, StackOK, Top
<1>1. /\ Goto("callback") /\ at[Top] = "dequeue"
      /\ UNCHANGED <<program, i, sum, asked, prq, mem, first_block_val, waiting_for_first_block>>
      /\ queue' = IF queue = <<>> THEN queue ELSE Tail(queue)
      /\ locals' = [locals EXCEPT ![Top].val = IF queue = <<>> THEN NoEntry ELSE Head(queue)]
  BY DEF Dequeue, At, NextEntry, diskVars, huntVars
<1>2. "callback" \in Places \ Main /\ at[Top] \notin Main
  BY <1>1 DEF Places, Main, Inside
<1>3. /\ Top' = Top /\ Top > 1
      /\ at'[Top] = "callback" /\ \A k \in 1..Top : k # Top => at'[k] = at[k]
      /\ at'[1] = at[1] /\ at[1] # "returned"
  BY <1>1, <1>2, HandlerMoves
<1>4. Count(Coming) \in Nat /\ Count(Coming)' = Count(Coming) - 1 /\ Count(Coming) >= 1
  <2>1. "callback" \notin Coming /\ at[Top] \in Coming
    BY <1>1 DEF Coming
  <2> QED BY <1>1, <1>2, <2>1, HandlerMoves
<1>5. Trail' = Trail /\ Buffer' = Buffer /\ BlockNo' = BlockNo
  BY <1>1, TrailStays, SameRound DEF BlockNo
<1>6. program.name # "sRead"
  BY <1>0, <1>1 DEF Fit
<1>7. queue \in Seq(Entries) /\ Len(queue) \in Nat /\ Len(queue) >= 1 /\ Len(prq) \in Nat
  <2>1. Len(queue) = Count(Coming) + Len(prq) + Scheduling
    BY <1>0, <1>6 DEF QueueFollows
  <2>2. Scheduling \in {0, 1} /\ Len(prq) \in Nat /\ Len(queue) \in Nat
    BY Numbers DEF Scheduling
  <2> QED BY <1>0, <1>4, <2>1, <2>2 DEF ReadersTypes
<1>8. /\ Len(queue') = Len(queue) - 1
      /\ \A j \in 1..(Len(queue) - 1) : queue'[j] = queue[j + 1]
      /\ Head(queue) = queue[1] /\ queue # <<>>
  BY <1>1, <1>7
<1>9. locals'[Top].val = queue[1] /\ \A k \in 1..Top : k # Top => locals'[k] = locals[k]
  BY <1>0, <1>1, <1>3, <1>8, LocalVal
<1>10. RightBlock' /\ RunningSum' /\ AfterAll'
  BY <1>0, <1>1, <1>3, <1>5 DEF RightBlock, RunningSum, AfterAll, Holds
<1>11. OnTrail'
  <2> SUFFICES ASSUME program.name = "treasureHunt"
               PROVE  /\ \A j \in 1..Len(queue') : queue'[j].val = Buffer
                      /\ \A k \in 1..Top : at'[k] = "callback" => locals'[k].val.val = Buffer
    BY <1>0, <1>1, <1>3, <1>5 DEF OnTrail, Holds
  <2>1. /\ \A j \in 1..Len(queue) : queue[j].val = Buffer
        /\ \A k \in 1..Top : at[k] = "callback" => locals[k].val.val = Buffer
    BY <1>0 DEF OnTrail
  <2>2. ASSUME NEW j \in 1..Len(queue') PROVE queue'[j].val = Buffer
    BY <1>7, <1>8, <2>1
  <2>3. ASSUME NEW k \in 1..Top, at'[k] = "callback" PROVE locals'[k].val.val = Buffer
    BY <1>3, <1>7, <1>9, <2>1, <2>3
  <2> QED BY <2>2, <2>3
<1>12. AddingUp'
  <2> SUFFICES ASSUME program.name = "aRead", ~program.nested PROVE AddingUp'
    BY <1>1 DEF AddingUp
  <2>1. /\ \A k \in 0..(Written - 1) : Holds(<<"res", k>>, Block(k))
        /\ \A j \in 1..Len(prq) : /\ prq[j].buf = <<"res", Written + j - 1>>
                                  /\ prq[j].blockNo = Written + j - 1
        /\ \A j \in 1..Len(queue) : queue[j].val = <<"res", Written - Count(Coming) + j - 1>>
        /\ Counted \in Nat /\ sum = Total[Counted]
        /\ \A k \in 1..Top : /\ at[k] = "callback" => locals[k].val.val = <<"res", Counted>>
                             /\ at[k] = "store_sum" => locals[k].tmp = Total[Counted + 1]
    BY <1>0 DEF AddingUp
  <2>2. /\ Count(Coming) = 1 /\ Count(Uncounted) = 1 /\ Count(Uncounted)' = Count(Uncounted)
    <3>1. /\ at[Top] \in Coming /\ at[Top] \in Uncounted /\ "callback" \in Uncounted
          /\ Coming \cap Main = {} /\ Uncounted \cap Main = {}
      BY <1>1 DEF Coming, Uncounted, Main
    <3>2. Count(Coming) = 1 /\ Count(Uncounted) = 1
      BY <1>0, <3>1, OneHandler
    <3>3. Count(Uncounted)' = (Count(Uncounted) - 1) + 1
      BY <1>0, <1>1, <1>2, <3>1, CountMoves
    <3> QED BY <3>2, <3>3
  <2>3. Written \in Int /\ Written' = Written /\ Counted' = Counted
    BY <1>1, <1>7, <2>2, Numbers DEF Written, Counted
  <2>4. queue[1].val = <<"res", Counted>>
    <3>1. Written - Count(Coming) + 1 - 1 = Counted /\ 1 \in 1..Len(queue)
      BY <1>7, <2>2, <2>3 DEF Counted
    <3>2. queue[1].val = <<"res", Written - Count(Coming) + 1 - 1>>
      BY <2>1, <3>1
    <3> QED BY <3>1, <3>2
  <2>5. ASSUME NEW j \in 1..Len(queue')
        PROVE  queue'[j].val = <<"res", Written' - Count(Coming)' + j - 1>>
    <3>1. /\ j \in 1..(Len(queue) - 1) /\ j + 1 \in 1..Len(queue)
          /\ Written - Count(Coming) + (j + 1) - 1 = Written' - Count(Coming)' + j - 1
      BY <1>4, <1>7, <1>8, <2>3
    <3> QED BY <1>8, <2>1, <3>1
  <2>6. ASSUME NEW k \in 1..Top
        PROVE  /\ at'[k] = "callback" => locals'[k].val.val = <<"res", Counted>>
               /\ at'[k] = "store_sum" => locals'[k].tmp = Total[Counted + 1]
    BY <1>3, <1>9, <2>1, <2>4
  <2>7. \A k \in 0..(Written' - 1) : Holds(<<"res", k>>, Block(k))'
    BY <1>1, <2>1, <2>3 DEF Holds
  <2> QED BY <1>1, <1>3, <2>1, <2>3, <2>5, <2>6, <2>7 DEF AddingUp
<1> QED BY <1>10, <1>11, <1>12 DEF AInv

(* The callback adds the block of its entry, which is the next one. *)
LEMMA SumAnswers == ASSUME IInv, RInv, AInv, LoadSum \/ StoreSum PROVE AInv'
<1>0. /\ StackOK /\ Deep /\ LocalsOK /\ ReadersTypes /\ Fit(Top)
      /\ RightBlock /\ RunningSum /\ OnTrail /\ AddingUp /\ AfterAll
      /\ Top \in Nat /\ Top > 0 /\ program.name \in Names
  BY RoundIs DEF IInv, RInv, AInv, StackOK, Top
<1>1. /\ UNCHANGED <<program, queue, i, asked, prq, mem, first_block_val, waiting_for_first_block>>
      /\ \/ /\ at[Top] = "callback" /\ Goto("store_sum") /\ sum' = sum
            /\ locals[Top].val.callback = "handle_read"
            /\ locals' = [locals EXCEPT ![Top].tmp = sum + mem[locals[Top].val.val]]
         \/ /\ at[Top] = "store_sum" /\ Goto("load_pending") /\ sum' = locals[Top].tmp
            /\ locals' = locals
  BY DEF LoadSum, StoreSum, Compute, Calls, At, Mine, machine, diskVars, readerVars, huntVars
<1>2. program.name = "aRead"
  <2>1. CASE at[Top] = "store_sum"
    BY <1>0, <2>1 DEF Fit
  <2>2. CASE at[Top] = "callback"
    <3>1. Callback = "handle_read" /\ program.name # "sRead"
      BY <1>0, <1>1, <2>2 DEF Fit, Serving
    <3> QED BY <1>0, <3>1, RoundIs DEF Names
  <2> QED BY <1>1, <2>1, <2>2
<1>3. PICK place \in {"store_sum", "load_pending"} :
        Goto(place) /\ (place = "store_sum" <=> at[Top] = "callback")
  BY <1>1
<1>4. place \in Places \ Main /\ at[Top] \notin Main
  BY <1>1, <1>3 DEF Places, Main, Inside
<1>5. /\ Top' = Top /\ Top > 1
      /\ at'[Top] = place /\ \A k \in 1..Top : k # Top => at'[k] = at[k]
      /\ at'[1] = at[1] /\ at[1] # "returned"
  BY <1>1, <1>3, <1>4, HandlerMoves
<1>6. RightBlock' /\ RunningSum' /\ OnTrail' /\ AfterAll'
  BY <1>1, <1>2, <1>5 DEF RightBlock, RunningSum, OnTrail, AfterAll
<1>7. AddingUp'
  <2> SUFFICES ASSUME ~program.nested PROVE AddingUp'
    BY <1>1 DEF AddingUp
  <2>1. /\ \A k \in 0..(Written - 1) : Holds(<<"res", k>>, Block(k))
        /\ \A j \in 1..Len(prq) : /\ prq[j].buf = <<"res", Written + j - 1>>
                                  /\ prq[j].blockNo = Written + j - 1
        /\ \A j \in 1..Len(queue) : queue[j].val = <<"res", Written - Count(Coming) + j - 1>>
        /\ Counted \in Nat /\ sum = Total[Counted]
        /\ \A k \in 1..Top : /\ at[k] = "callback" => locals[k].val.val = <<"res", Counted>>
                             /\ at[k] = "store_sum" => locals[k].tmp = Total[Counted + 1]
    BY <1>0, <1>2 DEF AddingUp
  <2>2. /\ Top = 2 /\ Count(Uncounted) = 1
        /\ Count(Coming) \in Nat /\ Count(Coming)' = Count(Coming)
        /\ Count(Uncounted)' = IF place = "store_sum" THEN 1 ELSE 0
    <3>1. at[Top] \in Uncounted /\ Uncounted \cap Main = {}
      BY <1>1 DEF Coming, Uncounted, Main
    <3>2. Count(Uncounted) = 1 /\ Top = 2
      BY <1>0, <3>1, OneHandler
    <3>3. Count(Uncounted)' = (Count(Uncounted) - 1) + (IF place = "store_sum" THEN 1 ELSE 0)
      <4>1. place \in Uncounted <=> place = "store_sum"
        BY <1>3 DEF Uncounted, Coming
      <4> QED BY <1>0, <1>3, <1>4, <3>1, <4>1, CountMoves
    <3>4. Count(Coming)' = (Count(Coming) - 0) + 0 /\ Count(Coming) \in Nat
      <4>1. place \notin Coming /\ at[Top] \notin Coming
        BY <1>1, <1>3 DEF Coming
      <4> QED BY <1>0, <1>3, <1>4, <4>1, CountMoves, CountOK
    <3> QED BY <3>2, <3>3, <3>4
  <2>3. /\ Written \in Int /\ Written' = Written /\ Written = Counted + 1
        /\ Counted' = IF place = "store_sum" THEN Counted ELSE Counted + 1
    <3>1. Len(prq) \in Nat /\ asked \in Nat
      BY Numbers
    <3>2. Written \in Int /\ Written' = Written
      BY <1>1, <3>1 DEF Written
    <3> QED BY <2>2, <3>2 DEF Counted
  <2>4. /\ at'[1] # "callback" /\ at'[1] # "store_sum"
        /\ at'[2] # "callback" /\ \A k \in 1..Top : k = 1 \/ k = 2
    BY <1>0, <1>3, <1>5, <2>2 DEF StackOK, Main
  <2>5. /\ sum' = Total[Counted'] /\ Counted' \in Nat
        /\ at'[2] = "store_sum" => locals'[2].tmp = Total[Counted' + 1]
    <3>1. CASE at[Top] = "callback"
      <4>1. /\ sum' = sum /\ locals[2].val.val = <<"res", Counted>>
            /\ locals' = [locals EXCEPT ![Top].tmp = sum + mem[<<"res", Counted>>]]
        BY <1>0, <1>1, <2>1, <2>2, <3>1
      <4>2. locals'[2].tmp = sum + mem[<<"res", Counted>>]
        BY <1>0, <1>5, <2>2, <4>1, LocalTmp
      <4>3. Counted \in 0..(Written - 1)
        BY <2>1, <2>3
      <4>4. mem[<<"res", Counted>>] = Block(Counted)
        BY <2>1, <4>3 DEF Holds
      <4>5. Total[Counted + 1] = Total[Counted] + Block(Counted)
        BY <2>1, TotalIs
      <4> QED BY <1>3, <2>1, <2>3, <3>1, <4>1, <4>2, <4>4, <4>5
    <3>2. CASE at[Top] = "store_sum"
      <4>1. sum' = Total[Counted + 1] /\ place # "store_sum"
        BY <1>0, <1>1, <1>3, <2>1, <2>2, <3>2
      <4> QED BY <1>5, <2>1, <2>2, <2>3, <4>1
    <3> QED BY <1>1, <3>1, <3>2
  <2>6. \A k \in 0..(Written' - 1) : Holds(<<"res", k>>, Block(k))'
    BY <1>1, <2>1, <2>3 DEF Holds
  <2>7. /\ \A j \in 1..Len(prq') : /\ prq'[j].buf = <<"res", Written' + j - 1>>
                                   /\ prq'[j].blockNo = Written' + j - 1
        /\ \A j \in 1..Len(queue') : queue'[j].val = <<"res", Written' - Count(Coming)' + j - 1>>
    BY <1>1, <2>1, <2>2, <2>3
  <2>8. \A k \in 1..Top' : /\ at'[k] = "callback" => locals'[k].val.val = <<"res", Counted'>>
                           /\ at'[k] = "store_sum" => locals'[k].tmp = Total[Counted' + 1]
    <3> SUFFICES ASSUME NEW k \in 1..Top
                 PROVE  /\ at'[k] = "callback" => locals'[k].val.val = <<"res", Counted'>>
                        /\ at'[k] = "store_sum" => locals'[k].tmp = Total[Counted' + 1]
      BY <1>5
    <3> QED BY <2>4, <2>5
  <2> QED BY <2>5, <2>6, <2>7, <2>8 DEF AddingUp
<1> QED BY <1>6, <1>7 DEF AInv

(* The first block of a hunt is in its buffer when its callback takes it. *)
LEMMA FirstReadAnswers == ASSUME IInv, RInv, AInv, FirstRead PROVE AInv'
<1>0. /\ StackOK /\ ReadersTypes /\ OneByOne /\ FlagsUp /\ Fit(Top)
      /\ RightBlock /\ RunningSum /\ OnTrail /\ AddingUp /\ AfterAll
      /\ Top \in Nat /\ Top > 0 /\ program.name \in Names
  BY RoundIs DEF IInv, RInv, AInv, StackOK, Top
<1>1. /\ Goto("served") /\ at[Top] = "callback" /\ locals[Top].val.callback = "handleFirstRead"
      /\ first_block_val' = mem[locals[Top].val.val]
      /\ UNCHANGED <<locals, program, queue, i, sum, asked, prq, mem>>
  BY DEF FirstRead, Calls, At, Mine, machine, diskVars
<1>2. program.name = "treasureHunt" /\ i = -1
  BY <1>0, <1>1, RoundIs DEF Fit, Serving, Names
<1>3. "served" \in Places \ Main /\ at[Top] \notin Main
  BY <1>1 DEF Places, Main, Inside
<1>4. /\ Top' = Top /\ Top > 1
      /\ at'[Top] = "served" /\ \A k \in 1..Top : k # Top => at'[k] = at[k]
      /\ at'[1] = at[1] /\ at[1] # "returned"
  BY <1>1, <1>3, HandlerMoves
<1>5. at[1] = "spin" /\ prq = <<>>
  <2>1. Count(Serving) >= 1
    BY <1>0, <1>1, CountOK DEF Serving
  <2>2. InFlight >= 1 + Len(prq) /\ InFlight \in Nat /\ Len(prq) \in Nat
    BY <2>1, Numbers DEF InFlight
  <2>3. at[1] = "spin" /\ InFlight <= 1
    BY <1>0, <1>2, <2>2 DEF OneByOne
  <2> QED BY <2>2, <2>3, Numbers
<1>6. Trail' = Trail /\ Buffer' = Buffer /\ BlockNo' = BlockNo
  BY <1>1, <1>2, TrailStays, SameRound DEF BlockNo
<1>7. first_block_val' = Block(program.blocks)
  <2>1. Holds(Buffer, Block(BlockNo))
    BY <1>0, <1>2, <1>5 DEF RightBlock
  <2>2. locals[Top].val.val = Buffer
    BY <1>0, <1>1, <1>2 DEF OnTrail
  <2>3. BlockNo = program.blocks
    BY <1>0, <1>2, AskedFor
  <2> QED BY <1>1, <2>1, <2>2, <2>3 DEF Holds
<1>8. RightBlock' /\ RunningSum' /\ AddingUp' /\ AfterAll'
  BY <1>0, <1>1, <1>2, <1>4, <1>6 DEF RightBlock, RunningSum, AddingUp, AfterAll, Holds
<1>9. OnTrail'
  <2>1. \A k \in 1..Top : at'[k] = "callback" => locals'[k].val.val = Buffer
    BY <1>0, <1>1, <1>2, <1>4 DEF OnTrail
  <2> QED BY <1>0, <1>1, <1>2, <1>4, <1>6, <1>7, <2>1 DEF OnTrail, Holds
<1> QED BY <1>8, <1>9 DEF AInv

-----------------------------------------------------------------------------
(* Main moves: what is read, and what has been, is not touched. *)
LEMMA AnnounceAnswers == ASSUME IInv, RInv, AInv, Announce PROVE AInv'
<1>0. /\ StackOK /\ Deep /\ ReadersTypes /\ QueueFollows /\ AllAtOnce /\ OneByOne /\ OneBuffer
      /\ RightBlock /\ RunningSum /\ OnTrail /\ AddingUp /\ AfterAll
      /\ program.name \in Names /\ FlagsUp
  BY RoundIs DEF IInv, RInv, AInv
<1>1. /\ Goto("schedule") /\ at[Top] = "request" /\ MoreBlocks
      /\ UNCHANGED <<locals, queue_mutex, program, i, sum, asked, prq, mem, first_block_val,
                     waiting_for_first_block>>
      /\ program.name # "sRead" => queue' = Append(queue, [val |-> Buffer, callback |-> Callback])
  BY DEF Announce, At, Enqueued, machine, diskVars
<1>2. "schedule" \in Main /\ at[Top] \in Main
  BY <1>1 DEF Main
<1>3. /\ Top = 1 /\ at'[1] = "schedule" /\ at[1] = "request" /\ Top' = 1
      /\ Count(Coming) = 0 /\ Count(Coming)' = 0 /\ InFlight = Len(prq)
  <2>1. "schedule" \in Places
    BY DEF Places, Main
  <2> QED BY <1>0, <1>1, <1>2, <2>1, GotoKeeps, MainMoves
<1>4. Trail' = Trail /\ Buffer' = Buffer
  BY <1>1, TrailStays, SameRound
<1>5. Len(prq) \in Nat /\ Len(queue) \in Nat /\ asked \in Nat /\ i \in Int
  BY Numbers
<1>6. program.name # "sRead" =>
        /\ Len(queue') = Len(queue) + 1 /\ queue'[Len(queue) + 1].val = Buffer
        /\ \A j \in 1..Len(queue) : queue'[j] = queue[j]
        /\ Len(queue) = Len(prq)
  <2> SUFFICES ASSUME program.name # "sRead"
               PROVE  /\ Len(queue') = Len(queue) + 1 /\ queue'[Len(queue) + 1].val = Buffer
                      /\ \A j \in 1..Len(queue) : queue'[j] = queue[j]
                      /\ Len(queue) = Len(prq)
    OBVIOUS
  <2> DEFINE entry == [val |-> Buffer, callback |-> Callback]
  <2>1. queue \in Seq(Entries) /\ queue' = Append(queue, entry) /\ entry.val = Buffer
    BY <1>0, <1>1 DEF ReadersTypes
  <2> HIDE DEF entry
  <2>2. /\ Len(queue') = Len(queue) + 1 /\ queue'[Len(queue) + 1] = entry
        /\ \A j \in 1..Len(queue) : queue'[j] = queue[j]
    BY <2>1
  <2>3. Len(queue) = 0 + Len(prq) + 0
    BY <1>0, <1>3 DEF QueueFollows, Scheduling
  <2> QED BY <1>5, <2>1, <2>2, <2>3
<1>7. RightBlock' /\ AfterAll'
  BY <1>3 DEF RightBlock, AfterAll
<1>8. RunningSum'
  BY <1>0, <1>1, <1>3 DEF RunningSum, MoreBlocks
<1>9. OnTrail'
  <2> SUFFICES ASSUME program.name = "treasureHunt" PROVE OnTrail'
    BY <1>1 DEF OnTrail
  <2>1. \A j \in 1..Len(queue') : queue'[j].val = Buffer
    BY <1>0, <1>5, <1>6 DEF OnTrail
  <2>2. \A k \in 1..Top' : at'[k] # "callback"
    BY <1>3
  <2> QED BY <1>0, <1>1, <1>4, <2>1, <2>2 DEF OnTrail, Holds
<1>10. AddingUp'
  <2> SUFFICES ASSUME program.name = "aRead", ~program.nested PROVE AddingUp'
    BY <1>1 DEF AddingUp
  <2>1. /\ \A k \in 0..(Written - 1) : Holds(<<"res", k>>, Block(k))
        /\ \A j \in 1..Len(prq) : /\ prq[j].buf = <<"res", Written + j - 1>>
                                  /\ prq[j].blockNo = Written + j - 1
        /\ \A j \in 1..Len(queue) : queue[j].val = <<"res", Written - Count(Coming) + j - 1>>
        /\ Counted \in Nat /\ sum = Total[Counted]
    BY <1>0 DEF AddingUp
  <2>2. Written \in Int /\ Written' = Written
    BY <1>1, <1>5 DEF Written
  <2>3. Count(Uncounted)' = Count(Uncounted)
    BY <1>0, <1>2, <1>3, MainCounts
  <2>4. Counted' = Counted
    BY <2>2, <2>3 DEF Counted
  <2>5. ASSUME NEW j \in 1..Len(queue')
        PROVE  queue'[j].val = <<"res", Written' - Count(Coming)' + j - 1>>
    <3>1. Written' - Count(Coming)' + j - 1 = Written - Count(Coming) + j - 1
      BY <1>3, <2>2
    <3>2. CASE j \in 1..Len(queue)
      BY <1>6, <2>1, <3>1, <3>2
    <3>3. CASE j = Len(queue) + 1
      <4>1. asked = i /\ Buffer = <<"res", i>>
        BY <1>0, AskedFor DEF AllAtOnce
      <4>2. Written - Count(Coming) + j - 1 = i
        <5>1. Written = i - Len(prq) /\ j = Len(prq) + 1 /\ Count(Coming) = 0
          BY <1>3, <1>6, <3>3, <4>1 DEF Written
        <5> QED BY <1>5, <5>1
      <4> QED BY <1>6, <3>1, <3>3, <4>1, <4>2
    <3> QED BY <1>5, <1>6, <3>2, <3>3
  <2>6. \A k \in 1..Top' : at'[k] # "callback" /\ at'[k] # "store_sum"
    BY <1>3
  <2>7. \A k \in 0..(Written' - 1) : Holds(<<"res", k>>, Block(k))'
    BY <1>1, <2>1, <2>2 DEF Holds
  <2> QED BY <1>1, <2>1, <2>2, <2>4, <2>5, <2>6, <2>7 DEF AddingUp
<1> QED BY <1>7, <1>8, <1>9, <1>10 DEF AInv

LEMMA ScheduleAnswers == ASSUME IInv, RInv, AInv, Schedule PROVE AInv'
<1>0. /\ StackOK /\ Deep /\ ReadersTypes /\ QueueFollows /\ AllAtOnce /\ OneByOne /\ OneBuffer
      /\ RightBlock /\ RunningSum /\ OnTrail /\ AddingUp /\ AfterAll
      /\ program.name \in Names /\ FlagsUp
  BY RoundIs DEF IInv, RInv, AInv
<1> DEFINE place == IF program.name = "aRead" THEN "request" ELSE "spin"
           request == [buf |-> Buffer, blockNo |-> BlockNo, completeTime |-> asked + 1]
<1>1. /\ Goto(place) /\ at[Top] = "schedule"
      /\ prq' = Append(prq, request) /\ asked' = asked + 1
      /\ i' = IF program.name = "aRead" THEN i + 1 ELSE i
      /\ UNCHANGED <<locals, queue, queue_mutex, program, mem, sum, first_block_val,
                     waiting_for_first_block>>
  BY DEF Schedule, ScheduleRead, At, huntVars
<1>2. place \in Main /\ at[Top] \in Main
  BY <1>1 DEF Main
<1>3. /\ Top = 1 /\ at'[1] = place /\ at[1] = "schedule" /\ Top' = 1
      /\ Count(Coming) = 0 /\ Count(Coming)' = 0 /\ InFlight = Len(prq)
  <2> HIDE DEF place
  <2>1. place \in Places
    BY <1>2 DEF Places
  <2> QED BY <1>0, <1>1, <1>2, <2>1, GotoKeeps, MainMoves
<1>4. place # "schedule" /\ place # "returned" /\ place # "callback" /\ place # "store_sum"
      /\ (place = "spin" => program.name # "aRead")
  OBVIOUS
<1>5. Len(prq) \in Nat /\ Len(queue) \in Nat /\ asked \in Nat /\ i \in Int
  BY Numbers
<1>6. /\ Len(prq') = Len(prq) + 1 /\ prq' # <<>>
      /\ prq'[Len(prq) + 1].buf = Buffer /\ prq'[Len(prq) + 1].blockNo = BlockNo
      /\ \A j \in 1..Len(prq) : prq'[j] = prq[j]
  <2>1. PICK S : prq \in Seq(S)
    BY <1>0 DEF ReadersTypes
  <2>2. request.buf = Buffer /\ request.blockNo = BlockNo
    OBVIOUS
  <2> HIDE DEF request
  <2>3. prq \in Seq(S \cup {request})
    BY <2>1
  <2>4. /\ prq' \in Seq(S \cup {request}) /\ Len(prq') = Len(prq) + 1
        /\ prq'[Len(prq) + 1] = request /\ \A j \in 1..Len(prq) : prq'[j] = prq[j]
    BY <1>1, <2>3
  <2>5. prq' # <<>>
    BY <1>5, <2>4
  <2> QED BY <2>2, <2>4, <2>5
<1> HIDE DEF place, request
<1>7. program.name # "aRead" => /\ Trail' = Trail /\ Buffer' = Buffer /\ BlockNo' = BlockNo
                                /\ Len(prq) = 0 /\ i' = i
  <2> SUFFICES ASSUME program.name # "aRead"
               PROVE  Trail' = Trail /\ Buffer' = Buffer /\ BlockNo' = BlockNo /\ Len(prq) = 0 /\ i' = i
    OBVIOUS
  <2>1. i' = i /\ Len(prq) = 0
    BY <1>0, <1>1, <1>3 DEF OneByOne
  <2>2. UNCHANGED <<program, i, mem, first_block_val>>
    BY <1>1, <2>1
  <2>3. Trail' = Trail /\ Buffer' = Buffer
    BY <2>2, TrailStays, SameRound
  <2>4. BlockNo' = BlockNo
    BY <2>2 DEF BlockNo
  <2> QED BY <2>1, <2>3, <2>4
<1>8. RightBlock'
  <2> SUFFICES ASSUME program.name # "aRead"
               PROVE  \A j \in 1..Len(prq') : prq'[j].buf = Buffer' /\ prq'[j].blockNo = BlockNo'
    BY <1>1, <1>6 DEF RightBlock
  <2> QED BY <1>6, <1>7
<1>9. RunningSum' /\ AfterAll'
  BY <1>0, <1>1, <1>3, <1>4 DEF RunningSum, AfterAll
<1>10. OnTrail'
  <2> SUFFICES ASSUME program.name = "treasureHunt" PROVE OnTrail'
    BY <1>1 DEF OnTrail
  <2>1. \A k \in 1..Top' : at'[k] # "callback"
    BY <1>3, <1>4
  <2> QED BY <1>0, <1>1, <1>7, <2>1 DEF OnTrail, Holds
<1>11. AddingUp'
  <2> SUFFICES ASSUME program.name = "aRead", ~program.nested PROVE AddingUp'
    BY <1>1 DEF AddingUp
  <2>1. /\ \A k \in 0..(Written - 1) : Holds(<<"res", k>>, Block(k))
        /\ \A j \in 1..Len(prq) : /\ prq[j].buf = <<"res", Written + j - 1>>
                                  /\ prq[j].blockNo = Written + j - 1
        /\ \A j \in 1..Len(queue) : queue[j].val = <<"res", Written - Count(Coming) + j - 1>>
        /\ Counted \in Nat /\ sum = Total[Counted]
    BY <1>0 DEF AddingUp
  <2>2. Written \in Int /\ Written' = Written
    BY <1>1, <1>5, <1>6 DEF Written
  <2>3. Count(Uncounted)' = Count(Uncounted)
    BY <1>0, <1>2, <1>3, MainCounts
  <2>4. Counted' = Counted
    BY <2>2, <2>3 DEF Counted
  <2>5. ASSUME NEW j \in 1..Len(prq')
        PROVE  prq'[j].buf = <<"res", Written' + j - 1>> /\ prq'[j].blockNo = Written' + j - 1
    <3>1. CASE j \in 1..Len(prq)
      BY <1>6, <2>1, <2>2, <3>1
    <3>2. CASE j = Len(prq) + 1
      <4>1. asked = i /\ Buffer = <<"res", i>> /\ BlockNo = i
        BY <1>0, AskedFor DEF AllAtOnce
      <4>2. Written' + j - 1 = i
        BY <1>5, <2>2, <3>2, <4>1 DEF Written
      <4> QED BY <1>6, <3>2, <4>1, <4>2
    <3> QED BY <1>5, <1>6, <3>1, <3>2
  <2>6. \A k \in 1..Top' : at'[k] # "callback" /\ at'[k] # "store_sum"
    BY <1>3, <1>4
  <2>7. \A k \in 0..(Written' - 1) : Holds(<<"res", k>>, Block(k))'
    BY <1>1, <2>1, <2>2 DEF Holds
  <2>8. \A j \in 1..Len(queue') : queue'[j].val = <<"res", Written' - Count(Coming)' + j - 1>>
    BY <1>1, <1>3, <2>1, <2>2
  <2> QED BY <1>1, <2>1, <2>4, <2>5, <2>6, <2>7, <2>8 DEF AddingUp
<1> QED BY <1>8, <1>9, <1>10, <1>11 DEF AInv

(* The block that main spun for is in its buffer, and counts in the sum or on the trail. *)
LEMMA SpinEndsAnswers == ASSUME IInv, RInv, AInv, SpinEnds PROVE AInv'
<1>0. /\ StackOK /\ Deep /\ ReadersTypes /\ QueueFollows /\ AllAtOnce /\ OneByOne
      /\ RightBlock /\ RunningSum /\ OnTrail /\ AddingUp /\ AfterAll
      /\ program.name \in Names /\ program.blocks \in Nat /\ FlagsUp
  BY RoundIs DEF IInv, RInv, AInv
<1>1. /\ Goto("request") /\ at[Top] = "spin" /\ Arrived /\ i' = i + 1
      /\ sum' = IF program.name = "sRead" THEN sum + mem[Buffer] ELSE sum
      /\ UNCHANGED <<locals, queue, queue_mutex, program, asked, prq, mem, first_block_val,
                     waiting_for_first_block>>
  BY DEF SpinEnds, At, machine, diskVars, huntVars
<1>2. "request" \in Main /\ at[Top] \in Main
  BY <1>1 DEF Main
<1>3. /\ Top = 1 /\ at'[1] = "request" /\ at[1] = "spin" /\ Top' = 1
      /\ Count(Coming) = 0 /\ Count(Coming)' = 0 /\ InFlight = Len(prq)
  <2>1. "request" \in Places
    BY DEF Places, Main
  <2> QED BY <1>0, <1>1, <1>2, <2>1, GotoKeeps, MainMoves
<1>4. program.name # "aRead"
  BY <1>0, <1>3 DEF AllAtOnce
<1>5. Len(prq) = 0 /\ prq = <<>> /\ i \in Int
  BY <1>0, <1>1, <1>3, <1>4, Numbers DEF OneByOne
<1>6. Holds(Buffer, Block(BlockNo))
  BY <1>0, <1>3, <1>4, <1>5 DEF RightBlock
<1>7. RightBlock' /\ AddingUp' /\ AfterAll'
  BY <1>1, <1>3, <1>4 DEF RightBlock, AddingUp, AfterAll
<1>8. RunningSum'
  <2> SUFFICES ASSUME program.name = "sRead"
               PROVE  i + 1 \in Nat /\ i + 1 <= program.blocks /\ sum' = Total[i + 1]
    BY <1>1, <1>3 DEF RunningSum
  <2>1. i \in Nat /\ i < program.blocks /\ sum = Total[i]
    BY <1>0, <1>3 DEF RunningSum
  <2>2. Buffer = Result /\ BlockNo = i
    BY <1>0, AskedFor
  <2>3. sum' = Total[i] + Block(i)
    BY <1>1, <1>6, <2>1, <2>2 DEF Holds
  <2>4. Total[i + 1] = Total[i] + Block(i)
    BY <2>1, TotalIs
  <2> QED BY <1>0, <2>1, <2>3, <2>4
<1>9. OnTrail'
  <2> SUFFICES ASSUME program.name = "treasureHunt" PROVE OnTrail'
    BY <1>1 DEF OnTrail
  <2>1. Trail' = Trail
    BY <1>1, TrailStays
  <2>2. first_block_val = Block(program.blocks)
    <3>1. i = -1 => waiting_for_first_block = 0
      BY <1>1 DEF Arrived
    <3>2. i >= -1
      BY <1>0 DEF FlagsUp
    <3> QED BY <1>0, <1>5, <3>1, <3>2 DEF OnTrail
  <2>3. ASSUME NEW k \in 0..i PROVE Holds(<<"blocks", k>>, Trail[k])
    <3>1. CASE k # i
      <4>1. k \in 0..(i - 1)
        BY <1>5, <3>1
      <4> QED BY <1>0, <4>1 DEF OnTrail
    <3>2. CASE k = i
      <4>1. /\ i \in Nat /\ Buffer = <<"blocks", i>>
            /\ BlockNo = IF i = 0 THEN Block(program.blocks) ELSE Trail[i - 1]
        BY <1>0, <1>5, <3>2, AskedFor
      <4>2. CASE i = 0
        <5>1. Trail[0] = Block(Block(program.blocks))
          BY <1>0, TrailIs
        <5> QED BY <1>6, <3>2, <4>1, <4>2, <5>1
      <4>3. CASE i # 0
        <5>1. i - 1 \in Nat /\ (i - 1) + 1 = i
          BY <4>1, <4>3
        <5>2. Trail[(i - 1) + 1] = Block(Trail[i - 1])
          BY <1>0, <5>1, TrailIs
        <5> QED BY <1>6, <3>2, <4>1, <4>3, <5>1, <5>2
      <4> QED BY <4>2, <4>3
    <3> QED BY <3>1, <3>2
  <2>4. \A k \in 0..(i' - 1) : Holds(<<"blocks", k>>, Trail[k])'
    <3>1. i' - 1 = i
      BY <1>1, <1>5
    <3>2. ASSUME NEW k \in 0..i PROVE Holds(<<"blocks", k>>, Trail[k])'
      <4>1. Holds(<<"blocks", k>>, Trail[k])
        BY <2>3
      <4> QED BY <1>1, <2>1, <4>1 DEF Holds
    <3> QED BY <3>1, <3>2
  <2>5. Len(queue') = 0
    <3>1. Len(queue) = 0 + 0 + 0
      BY <1>0, <1>3, <1>5 DEF QueueFollows, Scheduling
    <3> QED BY <1>1, <3>1
  <2>6. \A k \in 1..Top' : at'[k] # "callback"
    BY <1>3
  <2> QED BY <1>1, <2>2, <2>4, <2>5, <2>6 DEF OnTrail
<1> QED BY <1>7, <1>8, <1>9 DEF AInv

LEMMA ReturnAnswers == ASSUME IInv, RInv, AInv, Return PROVE AInv'
<1>0. /\ StackOK /\ Deep
      /\ RightBlock /\ RunningSum /\ OnTrail /\ AddingUp /\ AfterAll
  BY DEF IInv, RInv, AInv
<1>1. /\ Goto("returned") /\ at[Top] = "request" /\ ~MoreBlocks
      /\ UNCHANGED <<locals, asked, prq, mem, queue, queue_mutex, program, i, sum, first_block_val,
                     waiting_for_first_block>>
  BY DEF Return, At, machine, diskVars, readerVars, huntVars
<1>2. "returned" \in Main /\ at[Top] \in Main
  BY <1>1 DEF Main
<1>3. /\ Top = 1 /\ at'[1] = "returned" /\ at[1] = "request" /\ Top' = 1
      /\ Count(Coming) = 0 /\ Count(Coming)' = 0
  <2>1. "returned" \in Places
    BY DEF Places, Main
  <2> QED BY <1>0, <1>1, <1>2, <2>1, GotoKeeps, MainMoves
<1>4. Count(Uncounted)' = Count(Uncounted)
  BY <1>0, <1>2, <1>3, MainCounts
<1>5. RightBlock' /\ RunningSum'
  BY <1>0, <1>1, <1>3 DEF RightBlock, RunningSum
<1>6. AfterAll'
  BY <1>1 DEF AfterAll, MoreBlocks
<1>7. Trail' = Trail /\ Buffer' = Buffer
  BY <1>1, TrailStays, SameRound
<1>8. \A k \in 1..Top' : at'[k] # "callback" /\ at'[k] # "store_sum"
  BY <1>3
<1>9. OnTrail'
  BY <1>0, <1>1, <1>7, <1>8 DEF OnTrail, Holds
<1>10. AddingUp'
  BY <1>0, <1>1, <1>3, <1>4, <1>8 DEF AddingUp, Counted, Written, Holds
<1> QED BY <1>5, <1>6, <1>9, <1>10 DEF AInv

LEMMA InitAnswers == Init => AInv
<1> SUFFICES ASSUME Init PROVE AInv
  OBVIOUS
<1>1. /\ prq = <<>> /\ queue = <<>> /\ asked = 0 /\ mem = <<>> /\ sum = 0
      /\ i = IF program.name = "treasureHunt" THEN -1 ELSE 0
      /\ waiting_for_first_block = 1
  BY DEF Init, DiskInit
<1>2. StackOK /\ Deep /\ Top = 1 /\ at[1] = "request" /\ program.blocks \in Nat
  <2>1. at = <<"request">>
    BY DEF Init, DiskInit
  <2> QED BY <2>1, InitHolds, InitFits, Numbers DEF IInv, RInv, Top
<1>3. Count(Coming) = 0 /\ Count(Uncounted) = 0
  <2>1. Frames(Uncounted) = {} /\ Frames(Coming) = {}
    BY <1>2 DEF Frames, Uncounted, Coming
  <2>2. Cardinality({}) = 0
    BY FS_EmptySet
  <2> QED BY <2>1, <2>2 DEF Count
<1>4. Total[0] = 0
  BY TotalIs
<1>5. Len(prq) = 0 /\ Len(queue) = 0
  BY <1>1
<1>6. Written = 0 /\ Counted = 0
  <2>1. Written = 0 - 0 /\ Counted = Written - 0
    BY <1>1, <1>3, <1>5 DEF Written, Counted
  <2> QED BY <2>1
<1>7. RightBlock /\ AfterAll
  BY <1>2 DEF RightBlock, AfterAll
<1>8. RunningSum
  BY <1>1, <1>2, <1>4 DEF RunningSum
<1>9. OnTrail
  BY <1>1, <1>2, <1>5 DEF OnTrail
<1>10. AddingUp
  BY <1>1, <1>2, <1>4, <1>5, <1>6 DEF AddingUp
<1> QED BY <1>7, <1>8, <1>9, <1>10 DEF AInv

-----------------------------------------------------------------------------
LEMMA AStepKeeps == IInv /\ RInv /\ AInv /\ [Next]_vars => AInv'
<1> SUFFICES ASSUME IInv, RInv, AInv, [Next]_vars PROVE AInv'
  OBVIOUS
<1>1. CASE MainStep
  BY <1>1, AnnounceAnswers, ScheduleAnswers, SpinEndsAnswers, ReturnAnswers DEF MainStep
<1>2. CASE IsrStep
  BY <1>2, QuietSteps, DequeueAnswers, SumAnswers, FirstReadAnswers DEF IsrStep
<1>3. CASE HandlerStep /\ UNCHANGED readerVars
  BY <1>3, QuietSteps, QuietStack, CompleteReadAnswers DEF HandlerStep
<1>4. CASE Timer \/ Elapse
  BY <1>4, QuietStack
<1>5. CASE UNCHANGED vars
  BY <1>5, QuietStack DEF vars, machine
<1> QED
  BY <1>1, <1>2, <1>3, <1>4, <1>5 DEF Next, Interrupt

LEMMA IsRight == IInv /\ RInv /\ AInv => AnswerIsRight
<1> SUFFICES ASSUME IInv, RInv, AInv, OneReadAtATime, at[Top] = "returned"
             PROVE  IF program.name = "treasureHunt"
                    THEN LET last == Block(program.blocks) - 1
                         IN mem[<<"blocks", last>>] = Trail[last]
                    ELSE sum = Total[program.blocks]
  BY DEF AnswerIsRight, RightAnswer, At
<1>1. /\ StackOK /\ Deep /\ Ended /\ AllAtOnce /\ RunningSum /\ OnTrail /\ AddingUp /\ AfterAll
      /\ program \in Programs /\ program.name \in Names
  BY RoundIs DEF IInv, RInv, AInv, ReadersTypes
<1>2. Top = 1 /\ at[1] = "returned" /\ prq = <<>> /\ ~MoreBlocks
  <2>1. Top = 1
    BY <1>1, Alone DEF Main
  <2> QED BY <1>1, <2>1 DEF Ended, AfterAll
<1>3. i \in Int /\ program.blocks \in Nat /\ asked \in Nat
  BY Numbers
<1>4. CASE program.name = "sRead"
  <2>1. i = program.blocks
    BY <1>1, <1>2, <1>3, <1>4 DEF RunningSum, MoreBlocks
  <2> QED BY <1>1, <1>4, <2>1 DEF RunningSum
<1>5. CASE program.name = "aRead"
  <2>1. i = program.blocks /\ asked = i
    BY <1>1, <1>2, <1>3, <1>5 DEF AllAtOnce, MoreBlocks
  <2>2. Count(Uncounted) = 0
    <3>1. Frames(Uncounted) = {}
      BY <1>2 DEF Frames, Uncounted, Coming
    <3>2. Cardinality({}) = 0
      BY FS_EmptySet
    <3> QED BY <3>1, <3>2 DEF Count
  <2>3. Len(prq) = 0
    BY <1>2
  <2>4. Counted = program.blocks
    BY <1>3, <2>1, <2>2, <2>3 DEF Counted, Written
  <2>5. sum = Total[Counted]
    BY <1>1, <1>5 DEF AddingUp, OneReadAtATime
  <2> QED BY <1>5, <2>4, <2>5
<1>6. CASE program.name = "treasureHunt"
  <2>1. Block(program.blocks) > 0 /\ Block(program.blocks) \in Nat
    BY <1>1, <1>3, <1>6, BlockIs, ProgramsAssumption DEF ProgramsAssumption
  <2>2. i > 0
    BY <1>2, <1>3, <1>6 DEF MoreBlocks
  <2>3. first_block_val = Block(program.blocks)
    BY <1>1, <1>3, <1>6, <2>2 DEF OnTrail
  <2>4. Block(program.blocks) <= i
    BY <1>2, <1>3, <1>6, <2>1, <2>3 DEF MoreBlocks
  <2>5. Block(program.blocks) - 1 \in 0..(i - 1)
    BY <1>3, <2>1, <2>4
  <2> QED BY <1>1, <1>6, <2>5 DEF OnTrail, Holds
<1> QED BY <1>1, <1>4, <1>5, <1>6 DEF Names

(* When main has returned, sRead and aRead have printed the sum of the blocks (sRead.c:45,
   aRead.c:46) and treasureHunt the end of its trail (treasureHunt.c:76): for every story,
   every number of blocks, every start of a hunt and every timing, if no handler of aRead is
   interrupted by another. *)
THEOREM AnswerIsRightCorrect == Spec => []AnswerIsRight
BY InitHolds, StepKeeps, InitFits, RStepKeeps, InitAnswers, AStepKeeps, IsRight, PTL DEF Spec
=============================================================================
