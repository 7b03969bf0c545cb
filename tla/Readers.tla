------------------------------- MODULE Readers -------------------------------
(***************************************************************************)
(* The programs of a09 that read the disk without threads: sRead spins for  *)
(* each block, aRead asks for all of them and adds them up in callbacks,    *)
(* treasureHunt follows a trail of block numbers.  A behaviour is a run of  *)
(* one of them.  aRead and treasureHunt keep their callbacks in a queue     *)
(* (queue.c) with a spinlock of its own.                                    *)
(*                                                                          *)
(* sum += ... and pending_reads-- are a load and a store, since the handler *)
(* that runs them can be interrupted by itself.                             *)
(***************************************************************************)
EXTENDS Disk, Integers

CONSTANTS Programs,  \* records: name, blocks (how many, or the hunt's first), nested (the
                     \* handler may still run at the next tick)
          MaxDepth,  \* of the stack of frames
          NoEntry    \* what queue_dequeue returns from an empty queue

VARIABLES program,
          queue, queue_mutex,  \* pending_read_queue
          i,                   \* of main's loop; -1 for the hunt's first block
          sum, is_read_pending, pending_reads,
          first_block_val, waiting_for_first_block, waiting_for_prev_block

Names == {"sRead", "aRead", "treasureHunt"}

(* A negative start would be an index before the story, and treasureHunt.c:76 takes the value
   of its first block minus one as an index. *)
ProgramsAssumption ==
  \A p \in Programs : /\ p.name \in Names /\ p.blocks \in Nat /\ p.nested \in BOOLEAN
                      /\ p.name = "treasureHunt" => Block(p.blocks) > 0

ASSUME ProgramsAssumption

(* What the queue holds: a buffer, which is a variable and an index, and what to call. *)
Buffers == {"result", "res", "starting_block", "blocks"} \X Int
Entries == [val : Buffers, callback : {"handle_read", "handleFirstRead", "handleOtherReads"}]

EntryAssumption == NoEntry \notin Entries

ASSUME EntryAssumption

huntVars == <<first_block_val, waiting_for_first_block, waiting_for_prev_block>>
readerVars == <<program, queue, queue_mutex, i, sum, is_read_pending, pending_reads, huntVars>>
machine == <<masked, isInterrupt, prq_mutex, diskVars>>
vars == <<at, locals, machine, readerVars>>

Init == /\ program \in Programs
        /\ DiskInit("request")
        /\ queue = <<>> /\ queue_mutex = 0
        /\ i = IF program.name = "treasureHunt" THEN -1 ELSE 0
        /\ sum = 0
        /\ is_read_pending = 0
        /\ pending_reads = IF program.name = "aRead" THEN program.blocks ELSE 0
        /\ first_block_val = 0
        /\ waiting_for_first_block = 1 /\ waiting_for_prev_block = 1

-----------------------------------------------------------------------------
(* main *)

MoreBlocks == IF program.name = "treasureHunt" THEN i <= 0 \/ i < first_block_val
                                               ELSE i < program.blocks

Buffer == CASE program.name = "sRead" -> <<"result", 0>>
            [] program.name = "aRead" -> <<"res", i>>
            [] program.name = "treasureHunt" ->
                 IF i = -1 THEN <<"starting_block", 0>> ELSE <<"blocks", i>>

(* a trail that takes its first step twice *)
StartAgain == IF program.name # "treasureHunt" THEN i
              ELSE IF i <= 0 THEN program.blocks ELSE mem[<<"blocks", i - 1>>]

BlockNo == IF program.name # "treasureHunt" THEN i
           ELSE CASE i = -1 -> program.blocks
                  [] i = 0  -> first_block_val
                  [] i > 0  -> mem[<<"blocks", i - 1>>]

Callback == CASE program.name = "aRead" -> "handle_read"
              [] program.name = "treasureHunt" ->
                   IF i = -1 THEN "handleFirstRead" ELSE "handleOtherReads"

Enqueued(entry) == Append(queue, entry)

(* What main does before it schedules the read: a flag, and a place in the queue. *)
Announce == /\ At("request")
            /\ MoreBlocks
            /\ IF program.name = "sRead"
               THEN is_read_pending' = 1 /\ UNCHANGED <<queue, waiting_for_prev_block>>
               ELSE /\ queue_mutex = 0
                    /\ queue' = Enqueued([val |-> Buffer, callback |-> Callback])
                    /\ waiting_for_prev_block' =
                         IF program.name = "treasureHunt" /\ i > 0 THEN 1 ELSE waiting_for_prev_block
                    /\ UNCHANGED is_read_pending
            /\ Goto("schedule")
            /\ UNCHANGED <<locals, machine, program, queue_mutex, i, sum, pending_reads,
                           first_block_val, waiting_for_first_block>>

Schedule == /\ At("schedule")
            /\ ScheduleRead(Buffer, BlockNo)
            /\ IF program.name = "aRead" THEN Goto("request") /\ i' = i + 1
                                         ELSE Goto("spin") /\ UNCHANGED i
            /\ UNCHANGED <<locals, program, queue, queue_mutex, sum, is_read_pending, pending_reads, huntVars>>

(* sRead and treasureHunt spin until the read is over. *)
Arrived == CASE program.name = "sRead" -> is_read_pending = 0
             [] program.name = "treasureHunt" ->
                  IF i = -1 THEN waiting_for_first_block = 0 ELSE waiting_for_prev_block = 0

SpinEnds == /\ At("spin")
            /\ Arrived
            /\ i' = i + 1
            /\ sum' = IF program.name = "sRead" THEN sum + mem[Buffer] ELSE sum
            /\ pending_reads' = IF program.name = "treasureHunt" /\ i = 0
                                THEN first_block_val - 1 ELSE pending_reads
            /\ Goto("request")
            /\ UNCHANGED <<locals, machine, program, queue, queue_mutex, is_read_pending, huntVars>>

(* without the polling loop *)
ReturnAtOnce == /\ At("request")
                /\ ~MoreBlocks
                /\ Goto("returned")
                /\ UNCHANGED <<locals, machine, readerVars>>

(* The loop is over, and so is the one that keeps main from returning too early. *)
Return == /\ At("request")
          /\ ~MoreBlocks
          /\ pending_reads <= 0
          /\ Goto("returned")
          /\ UNCHANGED <<locals, machine, readerVars>>

MainStep == Announce \/ Schedule \/ SpinEnds \/ Return

-----------------------------------------------------------------------------
(* The interrupt service routines and the callbacks *)

ClearFlag == /\ At("isr")
             /\ program.name = "sRead"
             /\ is_read_pending' = 0
             /\ Goto("served")
             /\ UNCHANGED <<locals, machine, program, queue, queue_mutex, i, sum, pending_reads, huntVars>>

LockQueue == /\ At("isr")
             /\ program.name # "sRead"
             /\ queue_mutex = 0
             /\ queue_mutex' = Top
             /\ MaskToLock
             /\ Goto("dequeue")
             /\ UNCHANGED <<locals, isInterrupt, prq_mutex, diskVars, program, queue, i, sum,
                            is_read_pending, pending_reads, huntVars>>

NewestEntry == queue[Len(queue)]  \* taken from the wrong end
NextEntry == Head(queue)

Dequeue == /\ At("dequeue")
           /\ LET e == IF queue = <<>> THEN NoEntry ELSE NextEntry
              IN locals' = [locals EXCEPT ![Top].val = e]
           /\ Goto("callback")
           /\ queue' = IF queue = <<>> THEN queue ELSE Tail(queue)
           /\ queue_mutex' = 0
           /\ UnmaskAfterLock
           /\ UNCHANGED <<isInterrupt, prq_mutex, diskVars, program, i, sum,
                          is_read_pending, pending_reads, huntVars>>

Calls(callback) == At("callback") /\ Mine.val # NoEntry /\ Mine.val.callback = callback

Compute(value, place) == locals' = [locals EXCEPT ![Top].tmp = value] /\ Goto(place)

LoadSum == /\ Calls("handle_read")
           /\ Compute(sum + mem[Mine.val.val], "store_sum")
           /\ UNCHANGED <<machine, readerVars>>

StoreSum == /\ At("store_sum")
            /\ sum' = Mine.tmp
            /\ Goto("load_pending")
            /\ UNCHANGED <<locals, machine, program, queue, queue_mutex, i, is_read_pending,
                           pending_reads, huntVars>>

LoadPending == /\ At("load_pending") \/ Calls("handleOtherReads")
               /\ Compute(pending_reads - 1, "store_pending")
               /\ UNCHANGED <<machine, readerVars>>

StorePending == /\ At("store_pending")
                /\ pending_reads' = Mine.tmp
                /\ waiting_for_prev_block' =
                     IF program.name = "treasureHunt" THEN 0 ELSE waiting_for_prev_block
                /\ Goto("served")
                /\ UNCHANGED <<locals, machine, program, queue, queue_mutex, i, sum, is_read_pending,
                               first_block_val, waiting_for_first_block>>

FirstRead == /\ Calls("handleFirstRead")
             /\ first_block_val' = mem[Mine.val.val]
             /\ waiting_for_first_block' = 0
             /\ Goto("served")
             /\ UNCHANGED <<locals, machine, program, queue, queue_mutex, i, sum, is_read_pending,
                            pending_reads, waiting_for_prev_block>>

IsrStep == \/ ClearFlag \/ LockQueue \/ Dequeue
           \/ LoadSum \/ StoreSum \/ LoadPending \/ StorePending \/ FirstRead

-----------------------------------------------------------------------------
Interrupt == \/ HandlerStep /\ UNCHANGED readerVars
             \/ IsrStep

(* The process ends with main. *)
Timer == /\ ~At("returned")
         /\ Tick(IF program.nested THEN MaxDepth ELSE 2)
         /\ UNCHANGED readerVars

Elapse == TimePasses /\ UNCHANGED readerVars

Next == MainStep \/ Interrupt \/ Timer \/ Elapse

(* Time passes, the timer goes off again and again, and ticks are a millisecond apart:
   what they interrupt, the program or a handler, runs on between two of them. *)
Fairness == /\ WF_vars(Elapse) /\ WF_vars(Timer)
            /\ SF_vars(MainStep)
            /\ \A depth \in 2..MaxDepth : SF_vars(Top = depth /\ Interrupt)

Spec == Init /\ [][Next]_vars /\ Fairness

-----------------------------------------------------------------------------
(* The assignment's timing: a handler is done before the next tick, or no second read is
   under way.  A nested aRead is what happens when neither holds. *)
OneReadAtATime == program.name = "aRead" => ~program.nested

Total[n \in Nat] == IF n = 0 THEN 0 ELSE Total[n - 1] + Block(n - 1)

(* blocks[n] of a hunt *)
Trail[n \in Nat] == IF n = 0 THEN Block(Block(program.blocks)) ELSE Block(Trail[n - 1])

(* What main prints is the sum of the blocks (sRead.c:45, aRead.c:46) or the end of the
   trail (treasureHunt.c:76): every block is read before it is used, counted once, and by
   the read it was asked with. *)
RightAnswer ==
  At("returned") =>
    IF program.name = "treasureHunt"
    THEN LET last == Block(program.blocks) - 1 IN mem[<<"blocks", last>>] = Trail[last]
    ELSE sum = Total[program.blocks]

AnswerIsRight == OneReadAtATime => RightAnswer

(* An interrupt service routine never runs ahead of what it serves: there is an entry in
   the queue for each completed read, and the buffer of the entry it gets is already
   filled, also when deliveries overtake each other (aRead.c:18, treasureHunt.c:20). *)
IsrFindsRead ==
  \A k \in DOMAIN at :
    /\ at[k] = "callback" => locals[k].val # NoEntry /\ locals[k].val.val \in DOMAIN mem
    /\ at[k] = "isr" /\ program.name = "sRead" => <<"result", 0>> \in DOMAIN mem

DiskMutexFree == At("lock") \/ At("schedule") => prq_mutex = 0
QueueMutexFree == At("isr") \/ At("request") => queue_mutex = 0

(* Nobody spins on a mutex held by a frame below, which cannot run: never on the disk's
   (disk.c:111), and on the queue's (queue.c:59) not while reads are served one at a time. *)
NobodySpins == DiskMutexFree /\ (OneReadAtATime => QueueMutexFree)

(* aRead.c:53, treasureHunt.c:74: main does not return before all of the reads complete
   and are served, and so frees no buffer that is still to be written, even when callbacks
   interrupt each other. *)
ReturnsLast == At("returned") => prq = <<>> /\ queue = <<>>

(* A reader that serves one read at a time gets to the end: no completed read is forgotten. *)
MainReturns == OneReadAtATime => <>At("returned")

(* What aRead.c:46 says of its loop, whenever the timer ticks: it sums the blocks. *)
SumsBlocks == RightAnswer
=============================================================================
