-------------------------------- MODULE Disk --------------------------------
(***************************************************************************)
(* The simulated disk of a09 (disk.c) and the machine under it: one         *)
(* processor whose SIGALRM handler may interrupt the program, or itself,    *)
(* wherever the signal is not masked.  What runs is the top of a stack of   *)
(* frames: the bottom one is the program, each other one an activation of   *)
(* handleTimerInterrupt that interrupted the frame below it.                *)
(*                                                                          *)
(* spinlock_lock and spinlock_unlock mask and unmask the signal, except     *)
(* when isInterrupt is set (uthread.c:81-103).  A mutex holds the depth of   *)
(* the frame that took it, 0 when free.                                     *)
(*                                                                          *)
(* The interrupt service routine is the reader's: it starts with the top    *)
(* frame at "isr" and leaves it at "served" (module Readers).               *)
(***************************************************************************)
EXTENDS Naturals, Sequences

CONSTANT Story  \* what the blocks of the disk hold, from block 0 on

(* disk.c:95: a list of numbers that are not negative. *)
StoryAssumption == Story \in Seq(Nat) /\ Story # <<>>

ASSUME StoryAssumption

VARIABLES at,           \* at[k]: where frame k is
          locals,       \* locals[k]: what frame k has in local variables
          masked,       \* SIGALRM is blocked
          isInterrupt,  \* the flag of the one thread there is
          prq, prq_mutex,
          asked,        \* reads scheduled so far; a read's number is its completeTime
          clock,        \* reads whose latency is over
          mem           \* what the buffers written by the disk contain

diskVars == <<prq, asked, clock, mem>>

Top == Len(at)
Mine == locals[Top]
At(place) == at[Top] = place
Goto(place) == at' = [at EXCEPT ![Top] = place]

Block(blockno) == Story[(blockno % Len(Story)) + 1]

(* The parts of spinlock_lock and spinlock_unlock that are about the signal. *)
(* MaskNothing: a lock that leaves the signal on. *)
MaskNothing == masked' = masked
MaskToLock == masked' = (masked \/ ~isInterrupt)
UnmaskAfterLock == masked' = (masked /\ isInterrupt)

NoLocals == [now |-> 0, val |-> <<>>, tmp |-> 0]

DiskInit(place) == /\ at = <<place>> /\ locals = <<NoLocals>>
                   /\ masked = FALSE
                   /\ isInterrupt = FALSE
                   /\ prq = <<>> /\ prq_mutex = 0
                   /\ asked = 0 /\ clock = 0
                   /\ mem = <<>>

(* disk_schedule_read; its lock section is masked and on one processor so is a single step *)
ScheduleRead(buf, blockno) ==
  /\ prq_mutex = 0
  /\ prq' = Append(prq, [buf |-> buf, blockNo |-> blockno, completeTime |-> asked + 1])
  /\ asked' = asked + 1
  /\ UNCHANGED <<masked, isInterrupt, prq_mutex, clock, mem>>

TimePasses == /\ clock < asked
              /\ clock' = clock + 1
              /\ UNCHANGED <<at, locals, masked, isInterrupt, prq, prq_mutex, asked, mem>>

(* The timer interrupts what runs.  The kernel masks the signal for the handler, which
   reads the time first. *)
Tick(depth) == /\ ~masked
               /\ Top < depth
               /\ at' = Append(at, "lock")
               /\ locals' = Append(locals, [NoLocals EXCEPT !.now = clock])
               /\ masked' = TRUE
               /\ UNCHANGED <<isInterrupt, prq_mutex, diskVars>>

LockRequests == /\ At("lock")
                /\ prq_mutex = 0
                /\ prq_mutex' = Top
                /\ MaskToLock
                /\ Goto("loop")
                /\ UNCHANGED <<locals, isInterrupt, diskVars>>

Due == prq # <<>> /\ Head(prq).completeTime <= Mine.now

(* performDMA *)
Filled(buf, blockno) ==
  [b \in DOMAIN mem \cup {buf} |-> IF b = buf THEN Block(blockno) ELSE mem[b]]

AfterDequeue == Tail(prq)

(* with prq_dequeue_lock_held and the unlock before the delivery *)
CompleteRead == /\ At("loop")
                /\ Due
                /\ mem' = Filled(Head(prq).buf, Head(prq).blockNo)
                /\ prq' = AfterDequeue
                /\ prq_mutex' = 0
                /\ UnmaskAfterLock
                /\ Goto("deliver")
                /\ UNCHANGED <<locals, isInterrupt, asked, clock>>

(* an early return that forgets the mutex *)
ReturnHolding == /\ At("loop")
                 /\ ~Due
                 /\ masked' = FALSE
                 /\ at' = SubSeq(at, 1, Top - 1)
                 /\ locals' = SubSeq(locals, 1, Top - 1)
                 /\ UNCHANGED <<isInterrupt, prq_mutex, diskVars>>

(* The return restores the mask of the frame that was interrupted. *)
HandlerReturns == /\ At("loop")
                  /\ ~Due
                  /\ prq_mutex' = 0
                  /\ masked' = FALSE
                  /\ at' = SubSeq(at, 1, Top - 1)
                  /\ locals' = SubSeq(locals, 1, Top - 1)
                  /\ UNCHANGED <<isInterrupt, diskVars>>

DeliverInterrupt == /\ At("deliver")
                    /\ isInterrupt' = TRUE
                    /\ Goto("isr")
                    /\ UNCHANGED <<locals, masked, prq_mutex, diskVars>>

InterruptServed == /\ At("served")
                   /\ isInterrupt' = FALSE
                   /\ Goto("lock")
                   /\ UNCHANGED <<locals, masked, prq_mutex, diskVars>>

HandlerStep == LockRequests \/ CompleteRead \/ HandlerReturns \/ DeliverInterrupt \/ InterruptServed
=============================================================================
