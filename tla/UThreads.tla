------------------------------ MODULE UThreads ------------------------------
(***************************************************************************)
(* The uthread scheduler of a10/uthreads/uthread.c: thread control blocks,  *)
(* the ready queue and the sleep of an idle pthread, uthread_switch step by *)
(* step, and uthread_create / yield / block / unblock / join / detach.      *)
(*                                                                          *)
(* An action is one step of one processor (a pthread) that other processors *)
(* can tell apart.  A section under ready_queue_spinlock or a join_spinlock *)
(* is one step: nothing waits inside it except for pthread_mutex, whose     *)
(* holder (an idle pthread about to sleep) never takes a spinlock, so the   *)
(* wait is the guard of the step.  uthread_free keeps the identity of the   *)
(* freed TCB in `freed` and never reuses it, so that a later access shows.  *)
(*                                                                          *)
(* a09/q1 and a09/q3 have an older uthread.c, compiled with                 *)
(* PTHREAD_IDLE_SLEEP 0: an idle pthread yields for ever, a thread that     *)
(* finds the queue empty keeps looking, and uthread_yield enqueues its      *)
(* thread before the switch.  A program runs over one or over the other.    *)
(***************************************************************************)
EXTENDS Naturals, Sequences, FiniteSets, Functions

CONSTANTS
  Threads,      \* the uthreads of a program, the main thread among them
  Main,         \* base_thread: the thread that called uthread_init
  Processors,   \* pthreads; processor p is also the name of its pthread_base thread
  Boot,         \* the processor that ran uthread_init
  NoThread,     \* the null uthread_t
  Detached,     \* the joiner value (uthread_t) -1
  Programs,     \* the client programs: the calls each thread makes, in any order, the
                \* bound on how many before it returns, the processors it runs on, and
                \* whether it is compiled with PTHREAD_IDLE_SLEEP
  MaxClaims,    \* bound: how many threads join or detach one and the same thread
  AnyUnblock,   \* whether a program calls uthread_unblock on any live thread
  MaxSpurious   \* bound: how many spurious wakeups of pthread_cond_wait there are

OpNames == {"create", "yield", "block", "unblock", "wait", "wake", "join", "detach", "exit"}

ASSUME ThreadsAssumption == Main \in Threads /\ Threads \cap Processors = {}
ASSUME BootAssumption == Boot \in Processors /\ IsFiniteSet(Processors)
ASSUME NullAssumption == /\ NoThread # Detached
                         /\ {NoThread, Detached} \cap (Threads \cup Processors) = {}
ASSUME ProgramsAssumption == \A g \in Programs :
  /\ g.calls \in [Threads -> SUBSET OpNames] /\ "exit" \notin g.calls[Main]
  /\ g.bound \in Nat /\ g.idleSleep \in BOOLEAN
  /\ Boot \in g.processors /\ g.processors \subseteq Processors
ASSUME AnyUnblockAssumption == AnyUnblock \in BOOLEAN
ASSUME BoundsAssumption == MaxClaims \in Nat /\ MaxSpurious \in Nat

TCBs == Threads \cup Processors

VARIABLES
  program,      \* the program that is run, one of Programs; never changes
  state,        \* thread->state; NONE before uthread_new_thread
  joiner,       \* thread->joiner
  freed,        \* the TCBs given to uthread_free
  ready,        \* ready_queue
  pc,           \* where the code on a thread's stack is, or will resume
  stopAs,       \* the argument of the uthread_stop a thread is in
  retTo,        \* where that uthread_stop returns to
  arg,          \* the thread a uthread_join or uthread_detach in progress is about
  from,         \* local from_thread of the uthread_switch that a thread returned into
  cur,          \* the thread whose stack a processor runs on
  to,           \* local to_thread of the switch a processor is in
  spinning,     \* processors past the store of from_thread_state, waiting for to_thread
  pmutex,       \* the processor that holds pthread_mutex
  numSleeping,  \* pthread_num_sleeping
  condwait,     \* processors asleep on pthread_wakeup and not signalled
  spurious,     \* spurious wakeups so far
  waiters,      \* the program: threads on a wait queue (of a mutex, say)
  budget,       \* the program: calls a thread may still make
  claims,       \* the program: joins and detaches of a thread so far
  owed          \* ghost: threads with a uthread_unblock no uthread_block has returned for

sched == <<state, freed, ready, pc, stopAs, retTo, from, cur, to, spinning>>
idle  == <<pmutex, numSleeping, condwait>>
prog  == <<waiters, budget, claims, owed>>
vars  == <<program, sched, joiner, arg, idle, spurious, prog>>

States == {"NONE", "NASCENT", "RUNABLE", "RUNNING", "BLOCKED", "DYING", "DEAD"}
Places == {"none", "run", "stop", "presleep", "asleep", "switch", "resume", "reap",
           "recheck", "requeue", "enter", "join", "joined", "detach"}

IdleSleep == program.idleSleep

(* pthread_base: stop for ever, or yield for ever. *)
BaseCode == IF IdleSleep THEN "stop" ELSE "run"

(* The pthread_base of the boot processor is an ordinary thread if it does not sleep. *)
InitialReady == IF IdleSleep THEN <<>> ELSE <<Boot>>

(* uthread_init (num_processors): main runs on the boot processor, whose pthread_base
   is NASCENT; every other pthread runs its own pthread_base. *)
Init ==
  /\ program \in Programs
  /\ state = [t \in TCBs |-> CASE t = Main \/ t \in program.processors \ {Boot} -> "RUNNING"
                               [] t = Boot -> "NASCENT"
                               [] OTHER -> "NONE"]
  /\ joiner = [t \in TCBs |-> NoThread]
  /\ freed = {} /\ ready = InitialReady
  /\ pc = [t \in TCBs |-> CASE t = Main -> "run"
                            [] t \in program.processors \ {Boot} -> BaseCode
                            [] t = Boot -> "resume"
                            [] OTHER -> "none"]
  /\ stopAs = [t \in TCBs |-> "BLOCKED"]
  /\ retTo = [t \in TCBs |-> IF t \in Processors THEN BaseCode ELSE "run"]
  /\ arg = [t \in TCBs |-> NoThread]
  /\ from = [t \in TCBs |-> NoThread]
  /\ cur = [p \in Processors |-> IF p = Boot THEN Main ELSE p]
  /\ to = [p \in Processors |-> NoThread]
  /\ spinning = {}
  /\ pmutex = NoThread /\ numSleeping = 0 /\ condwait = {} /\ spurious = 0
  /\ waiters = {} /\ owed = {}
  /\ budget = [t \in Threads |-> program.bound]
  /\ claims = [t \in Threads |-> 0]

(* Processor p runs thread t, whose code is at l. *)
Runs(p, t, l) == p \notin spinning /\ cur[p] = t /\ pc[t] = l
Goto(t, l) == pc' = [pc EXCEPT ![t] = l]

(***************************************************************************)
(* The ready queue.                                                         *)
(***************************************************************************)
EnqueuedUnlessRunning(q, t) == IF t \in Range(q) \/ state[t] = "RUNNING" THEN q ELSE Append(q, t)
Enqueued(q, t) == IF t \in Range(q) THEN q ELSE Append(q, t)

(* uthread_start: append under the spinlock, signal if somebody sleeps. *)
ReadyEnqueue(t) ==
  /\ pmutex = NoThread
  /\ ready' = Enqueued(ready, t)
  /\ IF numSleeping > 0 /\ condwait # {}
       THEN \E q \in condwait : condwait' = condwait \ {q}
       ELSE UNCHANGED condwait
  /\ UNCHANGED <<pmutex, numSleeping>>

NoEnqueue == UNCHANGED <<ready, idle>>

(* uthread_stop(s): the thread goes to ready_queue_dequeue and comes back to r. *)
Stop(t, s, r) ==
  /\ Goto(t, "stop")
  /\ stopAs' = [stopAs EXCEPT ![t] = s]
  /\ retTo' = [retTo EXCEPT ![t] = r]

TakeHead(p) == ready # <<>> /\ to' = [to EXCEPT ![p] = Head(ready)] /\ ready' = Tail(ready)

(* ready_queue_dequeue finds a thread, or a uthread falls back on its pthread_base (and
   looks again where there is no idle sleep). *)
Dequeue(p) == \E t \in TCBs :
  /\ Runs(p, t, "stop")
  /\ \/ TakeHead(p)
     \/ IdleSleep /\ ready = <<>> /\ t # p /\ to' = [to EXCEPT ![p] = p] /\ UNCHANGED ready
  /\ Goto(t, "switch")
  /\ UNCHANGED <<state, joiner, arg, freed, stopAs, retTo, from, cur, spinning, idle, prog>>

PreSleepUnlocked(p) == NoThread
PreSleepHolder(p) == p

(* pthread_base finds the queue empty: it takes pthread_mutex, then drops the spinlock. *)
PreSleep(p) ==
  /\ IdleSleep /\ Runs(p, p, "stop") /\ ready = <<>> /\ pmutex = NoThread
  /\ pmutex' = PreSleepHolder(p)
  /\ Goto(p, "presleep")
  /\ UNCHANGED <<state, joiner, arg, freed, ready, stopAs, retTo, from, cur, to, spinning,
                 numSleeping, condwait, prog>>

(* pthread_num_sleeping ++; pthread_cond_wait lets pthread_mutex go. *)
Sleep(p) ==
  /\ Runs(p, p, "presleep")
  /\ numSleeping' = numSleeping + 1
  /\ condwait' = condwait \cup {p}
  /\ pmutex' = NoThread
  /\ Goto(p, "asleep")
  /\ UNCHANGED <<state, joiner, arg, freed, ready, stopAs, retTo, from, cur, to, spinning, prog>>

AwakeUncounted(n) == n
AwakeCount(n) == n - 1

(* pthread_cond_wait returns with pthread_mutex, and the loop tries again. *)
Awake(p) ==
  /\ Runs(p, p, "asleep") /\ p \notin condwait /\ pmutex = NoThread
  /\ numSleeping' = AwakeCount(numSleeping)
  /\ Goto(p, "stop")
  /\ UNCHANGED <<state, joiner, arg, freed, ready, stopAs, retTo, from, cur, to, spinning,
                 pmutex, condwait, prog>>

(* POSIX lets pthread_cond_wait return without a signal. *)
SpuriousWakeup(p) ==
  /\ p \in condwait /\ spurious < MaxSpurious
  /\ condwait' = condwait \ {p} /\ spurious' = spurious + 1
  /\ UNCHANGED <<sched, joiner, arg, pmutex, numSleeping, prog>>

(***************************************************************************)
(* uthread_switch.                                                          *)
(***************************************************************************)
StoreNothing(t) == state[t]
StoredState(t) == stopAs[t]

(* The assembly saves sp and then stores from_thread_state: from here on another
   processor may load the stack. *)
SaveState(p) == \E t \in TCBs :
  /\ Runs(p, t, "switch")
  /\ state' = [state EXCEPT ![t] = StoredState(t)]
  /\ Goto(t, "resume")
  /\ spinning' = spinning \cup {p}
  /\ UNCHANGED <<joiner, arg, freed, ready, stopAs, retTo, from, cur, to, idle, prog>>

LoadAnyway(t) == TRUE
MayLoad(t) == state[t] # "RUNNING"

(* to_thread is no longer RUNNING: load its stack, from_thread goes onto it. *)
LoadStack(p) ==
  /\ p \in spinning /\ MayLoad(to[p])
  /\ from' = [from EXCEPT ![to[p]] = cur[p]]
  /\ cur' = [cur EXCEPT ![p] = to[p]]
  /\ to' = [to EXCEPT ![p] = NoThread]
  /\ spinning' = spinning \ {p}
  /\ UNCHANGED <<state, joiner, arg, freed, ready, pc, stopAs, retTo, idle, prog>>

(* A thread that yielded is on the queue already in the older uthread_switch. *)
NotDying == IF IdleSleep THEN "recheck" ELSE "enter"

(* if (from_thread->state == TS_DYING) *)
CheckDying(p) == \E t \in TCBs :
  /\ Runs(p, t, "resume")
  /\ Goto(t, IF state[from[t]] = "DYING" THEN "reap" ELSE NotDying)
  /\ UNCHANGED <<state, joiner, arg, freed, ready, stopAs, retTo, from, cur, to, spinning, idle, prog>>

FreeUnderJoiner(f) == joiner[f] # NoThread
ReaperFrees(f) == joiner[f] = Detached

(* Free a detached or joined thread that died, or leave it DEAD for whoever comes. *)
Reap(p) == \E t \in TCBs : LET f == from[t] IN
  /\ Runs(p, t, "reap")
  /\ IF ReaperFrees(f)
       THEN freed' = freed \cup {f} /\ UNCHANGED state
       ELSE state' = [state EXCEPT ![f] = "DEAD"] /\ UNCHANGED freed
  /\ Goto(t, "enter")
  /\ UNCHANGED <<joiner, arg, ready, stopAs, retTo, from, cur, to, spinning, idle, prog>>

RequeueAny(f) == TRUE
MustRequeue(f) == state[f] = "RUNABLE"

(* else if (from_thread->state == TS_RUNABLE), which reads the state once more *)
CheckRunable(p) == \E t \in TCBs :
  /\ Runs(p, t, "recheck")
  /\ Goto(t, IF MustRequeue(from[t]) THEN "requeue" ELSE "enter")
  /\ UNCHANGED <<state, joiner, arg, freed, ready, stopAs, retTo, from, cur, to, spinning, idle, prog>>

Requeue(p) == \E t \in TCBs :
  /\ Runs(p, t, "requeue")
  /\ ReadyEnqueue(from[t])
  /\ Goto(t, "enter")
  /\ UNCHANGED <<state, joiner, arg, freed, stopAs, retTo, from, cur, to, spinning, prog>>

(* The resumed thread is RUNNING; a NASCENT one calls its start_proc. *)
Enter(p) == \E t \in TCBs :
  /\ Runs(p, t, "enter")
  /\ state' = [state EXCEPT ![t] = "RUNNING"]
  /\ Goto(t, IF state[t] # "NASCENT" THEN retTo[t] ELSE IF t \in Processors THEN BaseCode ELSE "run")
  /\ owed' = IF stopAs[t] = "BLOCKED" THEN owed \ {t} ELSE owed
  /\ UNCHANGED <<joiner, arg, freed, ready, stopAs, retTo, from, cur, to, spinning, idle,
                 waiters, budget, claims>>

(***************************************************************************)
(* The program's calls.                                                     *)
(***************************************************************************)
Calls(p, t, op) ==
  /\ Runs(p, t, "run") /\ op \in program.calls[t] /\ budget[t] > 0
  /\ budget' = [budget EXCEPT ![t] = @ - 1]

(* uthread_new_thread: a fresh TCB with a frame of uthread_switch on its stack. *)
NewThread(c) ==
  /\ state[c] = "NONE"
  /\ state' = [state EXCEPT ![c] = "NASCENT"]
  /\ Goto(c, "resume")

Create(p) == \E t, c \in Threads :
  /\ Calls(p, t, "create") /\ NewThread(c) /\ ReadyEnqueue(c)
  /\ UNCHANGED <<joiner, arg, freed, stopAs, retTo, from, cur, to, spinning, waiters, claims, owed>>

(* The older uthread_yield enqueues its thread while it runs. *)
YieldFirst(t) == IF IdleSleep THEN NoEnqueue ELSE ReadyEnqueue(t)

Yield(p) == \E t \in Threads :
  /\ Calls(p, t, "yield") /\ YieldFirst(t) /\ Stop(t, "RUNABLE", "run")
  /\ UNCHANGED <<state, joiner, arg, freed, from, cur, to, spinning, waiters, claims, owed>>

(* while (1) uthread_yield(); *)
BaseYields(p) == \E b \in Processors :
  /\ Runs(p, b, "run") /\ YieldFirst(b) /\ Stop(b, "RUNABLE", "run")
  /\ UNCHANGED <<state, joiner, arg, freed, from, cur, to, spinning, prog>>

Block(p) == \E t \in Threads :
  /\ Calls(p, t, "block") /\ Stop(t, "BLOCKED", "run")
  /\ UNCHANGED <<state, joiner, arg, freed, from, cur, to, spinning, waiters, claims, owed>> /\ NoEnqueue

(* A disciplined program unblocks a thread that has started, and not twice for one
   block; uthread.h puts no such condition on the call. *)
MayUnblock(u) == IF AnyUnblock THEN state[u] \notin {"NONE", "DYING", "DEAD"}
                               ELSE state[u] \in {"RUNNING", "BLOCKED"} /\ u \notin owed

Unblock(p) == \E t, u \in Threads :
  /\ Calls(p, t, "unblock") /\ u # t /\ MayUnblock(u)
  /\ ReadyEnqueue(u)
  /\ owed' = owed \cup {u}
  /\ UNCHANGED <<state, joiner, arg, freed, pc, stopAs, retTo, from, cur, to, spinning, waiters, claims>>

(* A wait queue as the mutexes, condition variables and semaphores keep it: the
   thread puts itself on the queue, leaves the queue's lock, then blocks. *)
Wait(p) == \E t \in Threads :
  /\ Calls(p, t, "wait") /\ waiters' = waiters \cup {t} /\ Stop(t, "BLOCKED", "run")
  /\ UNCHANGED <<state, joiner, arg, freed, from, cur, to, spinning, claims, owed>> /\ NoEnqueue

KeepWaiter(u) == waiters
LeaveQueue(u) == waiters \ {u}

Wake(p) == \E t \in Threads : \E u \in waiters :
  /\ Calls(p, t, "wake") /\ waiters' = LeaveQueue(u) /\ ReadyEnqueue(u)
  /\ UNCHANGED <<state, joiner, arg, freed, pc, stopAs, retTo, from, cur, to, spinning, claims, owed>>

(* uthread_join and uthread_detach first read thread->joiner without the lock. *)
Claims(p, t, u, op) ==
  /\ Calls(p, t, op) /\ u # t /\ u # Main /\ state[u] # "NONE" /\ claims[u] < MaxClaims
  /\ claims' = [claims EXCEPT ![u] = @ + 1]

JoinCheck(p) == \E t, u \in Threads :
  /\ Claims(p, t, u, "join")
  /\ IF joiner[u] = NoThread THEN Goto(t, "join") /\ arg' = [arg EXCEPT ![t] = u]
                             ELSE UNCHANGED <<pc, arg>>
  /\ UNCHANGED <<state, joiner, freed, stopAs, retTo, from, cur, to, spinning, waiters, owed>> /\ NoEnqueue

ClaimForgotten(u) == joiner
ClaimedJoiner(u) == [joiner EXCEPT ![u] = Detached]

(* The tail of uthread_join, and all of uthread_detach, under join_spinlock: free the dead, or leave it to the reaper. *)
JoinEnd(t) ==
  /\ IF state[arg[t]] = "DEAD" THEN freed' = freed \cup {arg[t]} /\ UNCHANGED joiner
                               ELSE joiner' = ClaimedJoiner(arg[t]) /\ UNCHANGED freed
  /\ Goto(t, "run")
  /\ arg' = [arg EXCEPT ![t] = NoThread]

JoinLocked(p) == \E t \in Threads :
  /\ Runs(p, t, "join")
  /\ IF state[arg[t]] \notin {"DYING", "DEAD"}
       THEN joiner' = [joiner EXCEPT ![arg[t]] = t] /\ Stop(t, "BLOCKED", "joined") /\ UNCHANGED <<freed, arg>>
       ELSE JoinEnd(t) /\ UNCHANGED <<stopAs, retTo>>
  /\ UNCHANGED <<state, from, cur, to, spinning, prog>> /\ NoEnqueue

Joined(p) == \E t \in Threads :
  /\ Runs(p, t, "joined") /\ JoinEnd(t)
  /\ UNCHANGED <<state, stopAs, retTo, from, cur, to, spinning, prog>> /\ NoEnqueue

DetachCheck(p) == \E t, u \in Threads :
  /\ Claims(p, t, u, "detach")
  /\ IF joiner[u] = NoThread THEN Goto(t, "detach") /\ arg' = [arg EXCEPT ![t] = u]
                             ELSE UNCHANGED <<pc, arg>>
  /\ UNCHANGED <<state, joiner, freed, stopAs, retTo, from, cur, to, spinning, waiters, owed>> /\ NoEnqueue

DetachLocked(p) == \E t \in Threads :
  /\ Runs(p, t, "detach") /\ JoinEnd(t)
  /\ UNCHANGED <<state, stopAs, retTo, from, cur, to, spinning, prog>> /\ NoEnqueue

(* start_proc returned: DYING and the joiner started under join_spinlock, then stop. *)
Exit(p) == \E t \in Threads : LET j == joiner[t] IN
  /\ Runs(p, t, "run") /\ "exit" \in program.calls[t]
  /\ state' = [state EXCEPT ![t] = "DYING"]
  /\ IF j \notin {NoThread, Detached} THEN ReadyEnqueue(j) ELSE NoEnqueue
  /\ Stop(t, "DYING", "run")
  /\ UNCHANGED <<joiner, arg, freed, from, cur, to, spinning, prog>>

(* A thread of the program that never returns may block for good at any time. *)
Park(p) == \E t \in Threads :
  /\ Runs(p, t, "run") /\ "exit" \notin program.calls[t]
  /\ Stop(t, "BLOCKED", "run")
  /\ UNCHANGED <<state, joiner, arg, freed, from, cur, to, spinning, prog>> /\ NoEnqueue

Call(p) == \/ Create(p) \/ Yield(p) \/ Block(p) \/ Unblock(p) \/ Wait(p) \/ Wake(p)
           \/ JoinCheck(p) \/ DetachCheck(p)

Kernel(p) == \/ Dequeue(p) \/ PreSleep(p) \/ Sleep(p) \/ Awake(p)
             \/ SaveState(p) \/ LoadStack(p)
             \/ CheckDying(p) \/ Reap(p) \/ CheckRunable(p) \/ Requeue(p) \/ Enter(p)
             \/ JoinLocked(p) \/ Joined(p) \/ DetachLocked(p)
             \/ Exit(p) \/ Park(p) \/ BaseYields(p)

Step(p) == (Call(p) \/ Kernel(p)) /\ UNCHANGED <<program, spurious>>

Next == \E p \in Processors : Step(p) \/ (SpuriousWakeup(p) /\ UNCHANGED program)

(* Every processor that can take a step keeps taking steps: the operating system
   schedules pthreads preemptively.  Spurious wakeups carry no fairness. *)
Fairness == \A p \in Processors : WF_vars(Step(p))

Spec == Init /\ [][Next]_vars /\ Fairness

(***************************************************************************)
(* Properties.                                                              *)
(***************************************************************************)
TypeOK ==
  /\ program \in Programs
  /\ state \in [TCBs -> States]
  /\ joiner \in [TCBs -> Threads \cup {NoThread, Detached}]
  /\ freed \subseteq Threads
  /\ ready \in Seq(TCBs)
  /\ pc \in [TCBs -> Places]
  /\ stopAs \in [TCBs -> {"RUNABLE", "BLOCKED", "DYING"}]
  /\ retTo \in [TCBs -> {"run", "stop", "joined"}]
  /\ arg \in [TCBs -> Threads \cup {NoThread}]
  /\ from \in [TCBs -> TCBs \cup {NoThread}]
  /\ cur \in [Processors -> TCBs]
  /\ to \in [Processors -> TCBs \cup {NoThread}]
  /\ spinning \subseteq Processors
  /\ pmutex \in Processors \cup {NoThread}
  /\ numSleeping \in 0 .. Cardinality(Processors)
  /\ condwait \subseteq Processors
  /\ spurious \in 0 .. MaxSpurious
  /\ waiters \subseteq Threads /\ owed \subseteq Threads
  /\ budget \in [Threads -> 0 .. program.bound]
  /\ claims \in [Threads -> 0 .. MaxClaims]

(* Processor p executes on the stack of t (a spinning processor has left its own). *)
OnStack(p, t) == p \notin spinning /\ cur[p] = t

(* No stack is ever in use by two processors, and no thread is picked by two: the
   spin in uthread_switch and the single place in the ready queue together keep a
   thread that was unblocked while it still ran from being run twice. *)
OneProcessor == \A p, q \in Processors : p # q =>
  /\ \A t \in TCBs : ~(OnStack(p, t) /\ OnStack(q, t))
  /\ to[p] = to[q] => to[p] = NoThread

(* A thread is on the ready queue only because its current stop has been answered, or a
   uthread_unblock has come before it: otherwise it runs no code of its own while it is
   there (it is on its way into a stop or stopped), and no processor has picked it
   already.  A stray entry would end a later uthread_block that nobody has answered. *)
NoStrayReady == \A t \in Range(ready) \ owed :
  /\ pc[t] \in {"stop", "switch", "resume"}
  /\ \A p \in Processors : to[p] # t /\ (OnStack(p, t) => pc[t] # "resume")

(* The TCBs some step is still going to touch. *)
InUse == Range(ready) \cup { cur[p] : p \in Processors } \cup { to[p] : p \in Processors }
  \cup { from[t] : t \in { u \in TCBs : pc[u] \in {"resume", "reap", "recheck", "requeue"}
                                         /\ \E p \in Processors : OnStack(p, u) } }
  \cup { arg[t] : t \in TCBs }

(* "don't touch it after": no thread control block is used again after uthread_free,
   by whichever of the reaper, uthread_join and uthread_detach frees it. *)
NoUseAfterFree == freed \cap InUse = {}

(* uthread_join comes back from its uthread_stop only when the target has ended, so
   that return_val, read without any check after the wait, is there. *)
JoinAfterExit == \A t \in Threads :
  pc[t] = "joined" => state[arg[t]] \in {"DYING", "DEAD"}

(* Idle processors never sleep on work: while one sleeps unsignalled, every thread on
   the ready queue has an idle processor of its own on the way to the queue. *)
NoLostWakeup == condwait # {} =>
  Len(ready) <= Cardinality({ p \in Processors : p \notin condwait /\ OnStack(p, p)
                                                 /\ pc[p] \in {"asleep", "stop"} })

(* Every thread put on the ready queue is eventually running again. *)
ReadyRuns == \A t \in Threads : (t \in Range(ready)) ~> (t \in freed \/ pc[t] = "enter")

(* A thread that died and was joined or detached, in any order, is eventually freed. *)
Reclaimed == \A t \in Threads :
  (claims[t] > 0 /\ state[t] \in {"DYING", "DEAD"}) ~> (t \in freed)

(* uthread.h:37: a thread that was unblocked before it blocked comes back from its
   next uthread_block; once stopped it is on the ready queue or picked already. *)
UnblockKept == \A t \in owed :
  (pc[t] = "resume" /\ state[t] = "BLOCKED") =>
    t \in Range(ready) \cup { to[p] : p \in Processors } \cup { cur[p] : p \in Processors }
=============================================================================
