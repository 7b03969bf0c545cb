--------------------------- MODULE UThreadsProofs ---------------------------
(***************************************************************************)
(* The scheduler of a10/uthreads under disciplined programs, for any number *)
(* of threads, processors and calls: a stack is run by one processor at a   *)
(* time, ready threads are where they should be, idle processors do not     *)
(* sleep on work, joins return after exits, unblocks are not lost, and no   *)
(* thread control block is used after it was freed.                         *)
(***************************************************************************)
EXTENDS UThreads, SharedTheorems, FiniteSetTheorems, TLAPS

(* The discipline: wakeups come from wait queues and ends only, and a thread that yields is a
   runner, which waits for nothing (a mutex, a condition, another's end).  A thread that
   does both is requeued by a processor that looks at its state too late (README.md). *)
Runner(t) == t \in Threads /\ program.calls[t] \cap {"wait", "join"} = {}
Separate == /\ IdleSleep
            /\ \A t \in Threads : "unblock" \notin program.calls[t]
            /\ \A t \in Threads : "yield" \in program.calls[t] => Runner(t)

Live(t) == state[t] \notin {"DYING", "DEAD"}
Off(t) == \A p \in Processors : ~OnStack(p, t)
Answered(t) == t \in Range(ready) \/ \E p \in Processors : to[p] = t
AwaitsEnd(t, x) == joiner[x] = t /\ Live(x)

(* Whoever runs next on p will look at the state of t to know whether to requeue it. *)
Handoff(p, t) == IF p \in spinning THEN cur[p] = t
                 ELSE pc[cur[p]] \in {"resume", "recheck", "requeue"} /\ from[cur[p]] = t

Kinds ==
  /\ state \in [TCBs -> States]
  /\ joiner \in [TCBs -> Threads \cup {NoThread, Detached}]
  /\ ready \in Seq(Threads)
  /\ pc \in [TCBs -> Places]
  /\ stopAs \in [TCBs -> {"RUNABLE", "BLOCKED", "DYING"}]
  /\ retTo \in [TCBs -> {"run", "stop", "joined"}]
  /\ arg \in [TCBs -> Threads \cup {NoThread}]
  /\ from \in [TCBs -> TCBs \cup {NoThread}]
  /\ cur \in [Processors -> TCBs]
  /\ to \in [Processors -> TCBs \cup {NoThread}]
  /\ spinning \subseteq Processors
  /\ waiters \subseteq Threads

(* The pthread_base of a processor runs there only, and threads never sleep as it does. *)
BasesAtHome ==
  /\ \A p, q \in Processors : cur[p] = q => q = p
  /\ \A p, q \in Processors : to[p] = q => q = p
  /\ \A p \in Processors : pc[p] \notin {"run", "join", "joined", "detach"} /\ retTo[p] = "stop"
  /\ \A p \in Processors : to[p] = p => ~OnStack(p, p)
  /\ \A t \in Threads : pc[t] \notin {"presleep", "asleep"} /\ retTo[t] # "stop"

(* Who executes what: a stack is executed by one processor, and a thread that nobody
   executes is about to resume or does not exist. *)
OneStack == \A t \in TCBs : \A p, q \in Processors : OnStack(p, t) /\ OnStack(q, t) => p = q
OffResumes == \A t \in TCBs : Off(t) => pc[t] \in {"none", "resume"}
FreshIsNone == \A t \in Threads : state[t] = "NONE" => pc[t] = "none" /\ retTo[t] = "run"
NoneIsOff == \A t \in Threads : pc[t] = "none" => Off(t)
PicksToSwitch == \A p \in Processors :
  to[p] # NoThread <=> p \in spinning \/ pc[cur[p]] = "switch"

(* The states: RUNNING until the stack is saved, and DYING and DEAD for good. *)
RunningUntilSaved == \A t \in Threads :
  pc[t] \in {"run", "stop", "switch", "join", "joined", "detach"} /\ Live(t) => state[t] = "RUNNING"
EndingStops == \A t \in TCBs : ~Live(t) =>
  t \in Threads /\ (pc[t] \in {"stop", "switch"} \/ (pc[t] = "resume" /\ Off(t)))
EndingStays == \A t \in TCBs : ~Live(t) <=> stopAs[t] = "DYING"
RunnersRunable == \A t \in TCBs : state[t] = "RUNABLE" \/ stopAs[t] = "RUNABLE" => Runner(t)

(* What a resumed thread knows of the one before it stays true until it has acted. *)
FromKnown == \A p \in Processors :
  p \notin spinning /\ pc[cur[p]] \in {"resume", "reap", "recheck", "requeue"} => from[cur[p]] \in TCBs
ReapsEnded == \A p \in Processors :
  p \notin spinning /\ pc[cur[p]] = "reap" => ~Live(from[cur[p]])
RequeuesRunable == \A p \in Processors :
  p \notin spinning /\ pc[cur[p]] = "requeue" => state[from[cur[p]]] = "RUNABLE"
OneHandoff == \A t \in Threads : \A p \in Processors : Runner(t) /\ Handoff(p, t) =>
  /\ pc[t] = "resume" /\ Off(t)
  /\ \A q \in Processors : Handoff(q, t) => q = p

Stopped(t) == pc[t] \in {"stop", "switch"} \/ (pc[t] = "resume" /\ Off(t))

(* A stop is answered once: by the queue it waits on, by the end it waits for, or, for a
   thread that yielded, by whoever resumes after it; then it is ready, then picked. *)
PlacedOnce == /\ IsInjective(ready)
              /\ \A p, q \in Processors : to[p] = to[q] => p = q \/ to[p] = NoThread
              /\ \A p \in Processors : to[p] \notin Range(ready)
AnsweredStopped == \A t \in Threads : Answered(t) => Stopped(t) /\ Live(t)
AnswerNotPending == \A t \in Threads : Answered(t) =>
  /\ t \notin waiters
  /\ \A x \in TCBs : ~AwaitsEnd(t, x)
RunnerAnswered == \A t \in Threads : Answered(t) /\ Runner(t) =>
  pc[t] = "resume" /\ \A p \in Processors : ~Handoff(p, t)
WaiterStopped == \A t \in waiters :
  /\ Stopped(t) /\ Live(t) /\ ~Runner(t) /\ retTo[t] = "run"
  /\ \A x \in TCBs : ~AwaitsEnd(t, x)
JoinerStopped == \A t \in Threads : \A x \in TCBs : AwaitsEnd(t, x) =>
  Stopped(t) /\ Live(t) /\ ~Runner(t) /\ arg[t] = x
JoinersWait == \A t \in Threads : pc[t] = "join" \/ retTo[t] = "joined" => ~Runner(t)

(* Who waited for an end and goes on has seen it. *)
GoesOn(t) == \/ Answered(t)
             \/ ~Off(t) /\ pc[t] \in {"resume", "reap", "recheck", "requeue", "enter"}
EndSeen == \A t \in Threads : (retTo[t] = "joined" /\ GoesOn(t)) \/ pc[t] = "joined" =>
  arg[t] \in Threads /\ ~Live(arg[t])

SchedInv ==
  /\ Kinds /\ BasesAtHome
  /\ OneStack /\ OffResumes /\ FreshIsNone /\ NoneIsOff /\ PicksToSwitch
  /\ RunningUntilSaved /\ EndingStops /\ EndingStays /\ RunnersRunable
  /\ FromKnown /\ ReapsEnded /\ RequeuesRunable /\ OneHandoff
  /\ PlacedOnce /\ AnsweredStopped /\ AnswerNotPending /\ RunnerAnswered
  /\ WaiterStopped /\ JoinerStopped /\ JoinersWait
  /\ EndSeen

(* What the sleep of the idle processors rests on. *)
Seats == Kinds /\ BasesAtHome /\ PlacedOnce

Asleep == { p \in Processors : pc[p] = "asleep" }
SleepInv == /\ \A p \in Processors : pc[p] \in {"presleep", "asleep"} => OnStack(p, p)
            /\ condwait \subseteq Asleep
            /\ numSleeping = Cardinality(Asleep)
            /\ \A p \in Processors : pc[p] = "presleep" => pmutex = p
            /\ pmutex # NoThread => ready = <<>>
            /\ NoLostWakeup

(* No thread and no processor is the null thread, and no thread is a processor. *)
LEMMA Names == /\ NoThread \notin TCBs /\ Threads \subseteq TCBs /\ Processors \subseteq TCBs
               /\ \A t \in Threads : t \notin Processors
BY ThreadsAssumption, NullAssumption DEF TCBs

(* The other processor leaves its stack for the one it has picked. *)
LEMMA LoadStackInv ==
  ASSUME SchedInv, Separate, UNCHANGED program, NEW p \in Processors, LoadStack(p)
  PROVE  SchedInv'
<1> USE DEF SchedInv
<1> DEFINE u == to[p]
           c == cur[p]
<1>1. /\ p \in spinning /\ u \in TCBs /\ c \in TCBs /\ state[u] # "RUNNING"
      /\ from' = [from EXCEPT ![u] = c] /\ cur' = [cur EXCEPT ![p] = u]
      /\ to' = [to EXCEPT ![p] = NoThread] /\ spinning' = spinning \ {p}
      /\ UNCHANGED <<state, joiner, arg, ready, pc, stopAs, retTo, waiters, program>>
  BY DEF Kinds, PicksToSwitch, LoadStack, MayLoad, prog
<1>2. u \in Threads => Answered(u)
  BY <1>1 DEF Answered
<1>3. Off(u) /\ pc[u] \in {"none", "resume"} /\ (u \in Threads => pc[u] = "resume") /\ Live(u)
  <2>1. CASE u \in Threads
    BY <1>1, <1>2, <2>1 DEF AnsweredStopped, RunningUntilSaved, Stopped
  <2>2. CASE u \in Processors
    <3>1. u = p /\ ~OnStack(p, p)
      BY <2>2 DEF BasesAtHome
    <3>2. Off(u)
      BY <3>1 DEF BasesAtHome, Off, OnStack
    <3> QED BY <1>1, <2>2, <3>2, Names DEF OffResumes, EndingStops
  <2> QED BY <1>1, <2>1, <2>2 DEF TCBs
<1>4. /\ \A q \in Processors, t \in TCBs : OnStack(q, t)' <=> OnStack(q, t) \/ (q = p /\ t = u)
      /\ \A t \in TCBs : Off(t)' <=> Off(t) /\ t # u
  BY <1>1 DEF OnStack, Off, Kinds
<1>5. /\ \A t \in Threads : Answered(t)' <=> Answered(t) /\ t # u
      /\ \A q \in Processors : to'[q] = IF q = p THEN NoThread ELSE to[q]
  <2>1. u \notin Range(ready) /\ \A q \in Processors : q # p => to[q] # u
    BY <1>1, Names DEF PlacedOnce
  <2> QED BY <1>1, <2>1, Names DEF Answered, Kinds
<1>6. \A q \in Processors, t \in TCBs : Handoff(q, t)' => Handoff(q, t)
  BY <1>1, <1>3 DEF Handoff, Kinds, Off, OnStack
<1>8. \A t \in TCBs : t # u => (Stopped(t)' <=> Stopped(t))
  BY <1>1, <1>4 DEF Stopped
<1> USE DEF Live, Runner, AwaitsEnd
<1>11. Kinds'
  BY <1>1 DEF Kinds
<1>12. BasesAtHome'
  BY <1>1, <1>4, Names DEF BasesAtHome, Kinds
<1>13. OneStack' /\ OffResumes' /\ FreshIsNone' /\ NoneIsOff'
  BY <1>1, <1>3, <1>4, Names DEF OneStack, OffResumes, FreshIsNone, NoneIsOff, Off
<1>14. PicksToSwitch'
  BY <1>1, <1>3, <1>5, Names DEF PicksToSwitch, Kinds
<1>15. RunningUntilSaved' /\ EndingStops' /\ EndingStays' /\ RunnersRunable'
  BY <1>1, <1>3, <1>4, Names DEF RunningUntilSaved, EndingStops, EndingStays, RunnersRunable
<1>16. FromKnown' /\ ReapsEnded' /\ RequeuesRunable'
  <2>1. ASSUME NEW q \in Processors, q \notin spinning', pc'[cur'[q]] \in {"reap", "requeue"}
        PROVE  q \notin spinning /\ pc'[cur'[q]] = pc[cur[q]] /\ from'[cur'[q]] = from[cur[q]]
    <3>1. q # p
      BY <1>1, <1>3, <2>1 DEF Kinds
    <3>2. q \notin spinning /\ cur'[q] = cur[q] /\ cur[q] # u
      BY <1>1, <1>3, <2>1, <3>1 DEF Kinds, Off, OnStack
    <3> QED BY <1>1, <3>2 DEF Kinds
  <2>2. ReapsEnded'
    BY <1>1, <2>1 DEF ReapsEnded
  <2>3. RequeuesRunable'
    BY <1>1, <2>1 DEF RequeuesRunable
  <2>4. FromKnown'
    <3> SUFFICES ASSUME NEW q \in Processors, q \notin spinning',
                        pc'[cur'[q]] \in {"resume", "reap", "recheck", "requeue"}
                 PROVE  from'[cur'[q]] \in TCBs
      BY DEF FromKnown
    <3>1. CASE q = p
      BY <1>1, <3>1 DEF Kinds
    <3>2. CASE q # p
      <4>1. q \notin spinning /\ cur'[q] = cur[q] /\ cur[q] # u /\ cur[q] \in TCBs
        BY <1>1, <1>3, <3>2 DEF Kinds, Off, OnStack
      <4> QED BY <1>1, <4>1 DEF FromKnown, Kinds
    <3> QED BY <3>1, <3>2
  <2> QED BY <2>2, <2>3, <2>4
<1>17. OneHandoff'
  BY <1>1, <1>2, <1>4, <1>6, Names DEF OneHandoff, RunnerAnswered
<1>18. PlacedOnce'
  <2>1. ready' = ready /\ \A q \in Processors : to'[q] = to[q] \/ to'[q] = NoThread
    BY <1>1, <1>5
  <2>2. NoThread \notin Range(ready)
    BY EmptyRange, Names DEF Kinds
  <2> QED BY <2>1, <2>2 DEF PlacedOnce
<1>19. AnsweredStopped'
  BY <1>1, <1>5, <1>8, Names DEF AnsweredStopped
<1>20. AnswerNotPending'
  BY <1>1, <1>5, Names DEF AnswerNotPending
<1>21. RunnerAnswered'
  BY <1>1, <1>5, <1>6, Names DEF RunnerAnswered
<1>22. WaiterStopped'
  BY <1>1, <1>2, <1>8, Names DEF WaiterStopped, AnswerNotPending, Kinds
<1>23. JoinerStopped' /\ JoinersWait'
  BY <1>1, <1>2, <1>8, Names DEF JoinerStopped, JoinersWait, AnswerNotPending
<1>24. EndSeen'
  BY <1>1, <1>2, <1>4, <1>5, Names DEF EndSeen, GoesOn
<1> QED BY <1>11, <1>12, <1>13, <1>14, <1>15, <1>16, <1>17, <1>18, <1>19, <1>20, <1>21, <1>22, <1>23, <1>24

(* A thread that a processor executes, other than on its way out, is in no queue and has
   no wakeup coming. *)
LEMMA Executes ==
  ASSUME SchedInv, NEW p \in Processors, NEW t \in TCBs, OnStack(p, t)
  PROVE  /\ ~Off(t)
         /\ p \notin spinning /\ cur[p] = t
         /\ \A q \in Processors : q \notin spinning /\ cur[q] = t => q = p
         /\ t \in Threads => pc[t] # "none" /\ \A q \in Processors : Runner(t) => ~Handoff(q, t)
         /\ t \in Threads /\ pc[t] \notin {"stop", "switch"} =>
              /\ ~Stopped(t) /\ ~Answered(t) /\ t \notin waiters /\ Live(t)
              /\ \A x \in TCBs : ~AwaitsEnd(t, x)
<1> USE DEF SchedInv
<1>1. p \notin spinning /\ cur[p] = t /\ ~Off(t)
  BY DEF OnStack, Off
<1>2. \A q \in Processors : q \notin spinning /\ cur[q] = t => q = p
  BY DEF OneStack, OnStack
<1>3. ASSUME t \in Threads
      PROVE  pc[t] # "none" /\ \A q \in Processors : Runner(t) => ~Handoff(q, t)
  BY <1>1, <1>3 DEF NoneIsOff, OneHandoff
<1>4. ASSUME t \in Threads, pc[t] \notin {"stop", "switch"}
      PROVE  /\ ~Stopped(t) /\ ~Answered(t) /\ t \notin waiters /\ Live(t)
             /\ \A x \in TCBs : ~AwaitsEnd(t, x)
  <2>1. ~Stopped(t)
    BY <1>1, <1>4 DEF Stopped
  <2> QED BY <1>1, <1>4, <2>1 DEF AnsweredStopped, WaiterStopped, JoinerStopped, EndingStops
<1> QED BY <1>1, <1>2, <1>3, <1>4

(* A thread about to be put back on the ready queue has yielded and is nowhere else. *)
LEMMA RequeuedOff ==
  ASSUME SchedInv, NEW p \in Processors, p \notin spinning, pc[cur[p]] = "requeue"
  PROVE  LET f == from[cur[p]] IN
         /\ f \in Threads /\ Runner(f) /\ Handoff(p, f) /\ state[f] = "RUNABLE"
         /\ Off(f) /\ pc[f] = "resume" /\ ~Answered(f)
<1> DEFINE f == from[cur[p]]
<1> USE DEF SchedInv
<1>1. f \in Threads /\ Runner(f) /\ state[f] = "RUNABLE"
  BY DEF FromKnown, RequeuesRunable, RunnersRunable, Runner
<1>2. Handoff(p, f)
  BY DEF Handoff
<1>3. Off(f) /\ pc[f] = "resume"
  BY <1>1, <1>2 DEF OneHandoff
<1>4. ~Answered(f)
  BY <1>1, <1>2 DEF RunnerAnswered
<1> QED BY <1>1, <1>2, <1>3, <1>4

(* The two ends of the ready queue. *)
LEMMA Enqueues ==
  ASSUME Kinds, IsInjective(ready), NEW x \in Threads, x \notin Range(ready), ReadyEnqueue(x)
  PROVE  /\ ready' \in Seq(Threads) /\ IsInjective(ready')
         /\ Range(ready') = Range(ready) \cup {x}
         /\ Len(ready') = Len(ready) + 1
<1>1. ready \in Seq(Threads) /\ ready' = Append(ready, x)
  BY DEF Kinds, ReadyEnqueue, Enqueued
<1> QED BY <1>1, AppendNew

LEMMA TakesHead ==
  ASSUME Kinds, IsInjective(ready), ready # <<>>
  PROVE  /\ Tail(ready) \in Seq(Threads) /\ IsInjective(Tail(ready))
         /\ Head(ready) \in Threads /\ Head(ready) \in Range(ready)
         /\ Range(Tail(ready)) = Range(ready) \ {Head(ready)}
         /\ Len(Tail(ready)) = Len(ready) - 1
<1>1. ready \in Seq(Threads)
  BY DEF Kinds
<1> QED BY <1>1, TailRest

(* A thread goes on in its code, and stops nowhere: it looks at the thread before it, it
   claims another or is done with it, or, a pthread_base, it falls asleep or wakes. *)
Resuming(t, l, m) == \/ l = "resume" /\ m = "reap" /\ ~Live(from[t])
                     \/ l = "resume" /\ m = "recheck"
                     \/ l = "recheck" /\ m = "requeue" /\ state[from[t]] = "RUNABLE"
                     \/ l = "recheck" /\ m = "enter"
Claiming(t, l, m) == /\ t \in Threads
                     /\ \/ l \in {"join", "joined", "detach"} /\ m = "run"
                        \/ l = "run" /\ m = "detach"
                        \/ l = "run" /\ m = "join" /\ ~Runner(t)
Dozing(t, l, m) == t \in Processors /\ {l, m} \subseteq {"stop", "presleep", "asleep"}

LEMMA MoveInv ==
  ASSUME SchedInv, Separate, UNCHANGED program, NEW p \in Processors, NEW t \in TCBs, NEW l, NEW m,
         Runs(p, t, l), Goto(t, m),
         Resuming(t, l, m) \/ Claiming(t, l, m) \/ Dozing(t, l, m),
         UNCHANGED <<state, ready, stopAs, retTo, from, cur, to, spinning, waiters>>,
         arg' \in [TCBs -> Threads \cup {NoThread}], \A u \in TCBs : u # t => arg'[u] = arg[u],
         arg' = arg \/ Claiming(t, l, m),
         joiner' \in [TCBs -> Threads \cup {NoThread, Detached}],
         \A x \in TCBs : joiner'[x] = joiner[x] \/ joiner'[x] = Detached
  PROVE  SchedInv'
<1> USE DEF SchedInv
<1>1. /\ p \notin spinning /\ cur[p] = t /\ pc[t] = l /\ pc' = [pc EXCEPT ![t] = m]
      /\ OnStack(p, t) /\ ~Off(t)
  BY DEF Runs, Goto, OnStack, Off
<1>2. \A u \in TCBs : pc'[u] = IF u = t THEN m ELSE pc[u]
  BY <1>1 DEF Kinds
<1>3. /\ l \notin {"none", "switch", "enter"} /\ m \in Places \ {"none", "switch", "resume", "joined"}
      /\ t \in Threads => l # "stop" /\ m # "stop"
      /\ m \in {"run", "join", "detach"} => t \in Threads /\ l \in {"run", "join", "joined", "detach"}
      /\ m \in {"presleep", "asleep", "stop"} => t \in Processors
      /\ m \in {"reap", "recheck", "requeue", "enter"} => l \in {"resume", "recheck"} /\ arg' = arg
      /\ m = "join" => ~Runner(t)
      /\ m = "reap" => ~Live(from[t])
      /\ m = "requeue" => state[from[t]] = "RUNABLE"
  <2>1. CASE Resuming(t, l, m)
    BY <2>1 DEF Resuming, Claiming, Dozing, Places
  <2>2. CASE Claiming(t, l, m)
    BY <2>2, Names DEF Claiming, Places
  <2>3. CASE Dozing(t, l, m)
    BY <2>3, Names DEF Dozing, Places
  <2> QED BY <2>1, <2>2, <2>3
<1>4. /\ \A q \in Processors, u \in TCBs : OnStack(q, u)' <=> OnStack(q, u)
      /\ \A u \in TCBs : Off(u)' <=> Off(u)
      /\ \A u \in TCBs : Answered(u)' <=> Answered(u)
  BY DEF OnStack, Off, Answered
<1>5. \A q \in Processors : q \notin spinning /\ cur[q] = t => q = p
  BY <1>1, Executes
<1>6. t \in Threads => /\ pc[t] \notin {"stop", "switch"}
                       /\ ~Stopped(t) /\ ~Answered(t) /\ t \notin waiters /\ Live(t)
                       /\ \A x \in TCBs : ~AwaitsEnd(t, x)
  BY <1>1, <1>3, Executes
<1>7. \A q \in Processors, u \in TCBs : Handoff(q, u)' => Handoff(q, u)
  BY <1>1, <1>2, <1>3, <1>5 DEF Handoff, Kinds
<1>8. \A u, x \in TCBs : u \in Threads => (AwaitsEnd(u, x)' => AwaitsEnd(u, x))
  BY NullAssumption DEF AwaitsEnd, Live
<1>9. \A u \in TCBs : u # t => (Stopped(u)' <=> Stopped(u))
  BY <1>2, <1>4 DEF Stopped
<1> USE DEF Live, Runner
<1>11. Kinds'
  BY <1>1, <1>3 DEF Kinds
<1>12. BasesAtHome'
  BY <1>2, <1>3, <1>4, Names DEF BasesAtHome
<1>13. OneStack' /\ OffResumes' /\ FreshIsNone' /\ NoneIsOff'
  BY <1>1, <1>2, <1>3, <1>4, Names DEF OneStack, OffResumes, FreshIsNone, NoneIsOff
<1>14. PicksToSwitch'
  BY <1>1, <1>2, <1>3, <1>5, Names DEF PicksToSwitch, Kinds
<1>15. RunningUntilSaved' /\ EndingStops' /\ EndingStays' /\ RunnersRunable'
  BY <1>1, <1>2, <1>3, <1>4, <1>6, Names DEF RunningUntilSaved, EndingStops, EndingStays, RunnersRunable
<1>16. FromKnown' /\ ReapsEnded' /\ RequeuesRunable'
  BY <1>1, <1>2, <1>3, <1>5 DEF FromKnown, ReapsEnded, RequeuesRunable, Kinds
<1>17. OneHandoff'
  BY <1>1, <1>2, <1>4, <1>7, Names DEF OneHandoff
<1>18. PlacedOnce'
  BY DEF PlacedOnce
<1>19. AnsweredStopped'
  BY <1>4, <1>6, <1>9, Names DEF AnsweredStopped
<1>20. AnswerNotPending'
  BY <1>4, <1>8, Names DEF AnswerNotPending
<1>21. RunnerAnswered'
  BY <1>2, <1>4, <1>6, <1>7, Names DEF RunnerAnswered
<1>22. WaiterStopped'
  BY <1>6, <1>8, <1>9, Names DEF WaiterStopped, Kinds
<1>23. JoinerStopped' /\ JoinersWait'
  BY <1>2, <1>3, <1>6, <1>8, <1>9, Names DEF JoinerStopped, JoinersWait
<1>24. EndSeen'
  BY <1>1, <1>2, <1>3, <1>4, <1>6, Names DEF EndSeen, GoesOn
<1> QED BY <1>11, <1>12, <1>13, <1>14, <1>15, <1>16, <1>17, <1>18, <1>19, <1>20, <1>21, <1>22, <1>23, <1>24

(* A thread yields, blocks, or puts itself where somebody will find it and then blocks. *)
LEMMA StopInv ==
  ASSUME SchedInv, Separate, UNCHANGED program, NEW p \in Processors, NEW t \in Threads,
         NEW l \in {"run", "join"}, NEW s \in {"RUNABLE", "BLOCKED"}, NEW r \in {"run", "joined"},
         Runs(p, t, l), Stop(t, s, r),
         s = "RUNABLE" => Runner(t),
         r = "joined" => ~Runner(t),
         waiters' = waiters \/ (waiters' = waiters \cup {t} /\ ~Runner(t) /\ r = "run"),
         \/ joiner' = joiner
         \/ /\ joiner' = [joiner EXCEPT ![arg[t]] = t]
            /\ ~Runner(t) /\ r = "joined" /\ waiters' = waiters,
         UNCHANGED <<state, ready, arg, from, cur, to, spinning>>
  PROVE  SchedInv'
<1> USE DEF SchedInv
<1>1. /\ p \notin spinning /\ cur[p] = t /\ pc[t] = l /\ pc' = [pc EXCEPT ![t] = "stop"]
      /\ stopAs' = [stopAs EXCEPT ![t] = s] /\ retTo' = [retTo EXCEPT ![t] = r]
      /\ OnStack(p, t) /\ ~Off(t) /\ t \in TCBs
  BY Names DEF Runs, Stop, Goto, OnStack, Off
<1>2. \A u \in TCBs : /\ pc'[u] = IF u = t THEN "stop" ELSE pc[u]
                      /\ stopAs'[u] = IF u = t THEN s ELSE stopAs[u]
                      /\ retTo'[u] = IF u = t THEN r ELSE retTo[u]
  BY <1>1 DEF Kinds
<1>4. /\ \A q \in Processors, u \in TCBs : OnStack(q, u)' <=> OnStack(q, u)
      /\ \A u \in TCBs : Off(u)' <=> Off(u)
      /\ \A u \in TCBs : Answered(u)' <=> Answered(u)
  BY DEF OnStack, Off, Answered
<1>5. \A q \in Processors : q \notin spinning /\ cur[q] = t => q = p
  BY <1>1, Executes
<1>6. /\ ~Stopped(t) /\ ~Answered(t) /\ t \notin waiters /\ Live(t) /\ state[t] = "RUNNING"
      /\ \A x \in TCBs : ~AwaitsEnd(t, x)
  BY <1>1, Executes DEF RunningUntilSaved
<1>7. \A q \in Processors, u \in TCBs : Handoff(q, u)' => Handoff(q, u)
  BY <1>1, <1>2, <1>5 DEF Handoff, Kinds
<1>8. \A u, x \in TCBs : u \in Threads /\ AwaitsEnd(u, x)' =>
        \/ AwaitsEnd(u, x)
        \/ u = t /\ ~Runner(t) /\ r = "joined" /\ waiters' = waiters /\ x = arg[t]
  BY DEF AwaitsEnd, Live, Kinds
<1>9. \A u \in TCBs : u # t => (Stopped(u)' <=> Stopped(u))
  BY <1>2, <1>4 DEF Stopped
<1>10. Stopped(t)'
  BY <1>1, <1>2 DEF Stopped
<1> USE DEF Live, Runner
<1>11. Kinds'
  BY <1>1, Names DEF Kinds, Places
<1>12. BasesAtHome'
  BY <1>2, <1>4, Names DEF BasesAtHome
<1>13. OneStack' /\ OffResumes' /\ FreshIsNone' /\ NoneIsOff'
  BY <1>1, <1>2, <1>4, <1>6, Names DEF OneStack, OffResumes, FreshIsNone, NoneIsOff
<1>14. PicksToSwitch'
  BY <1>1, <1>2, <1>5 DEF PicksToSwitch, Kinds
<1>15. RunningUntilSaved' /\ EndingStops' /\ EndingStays' /\ RunnersRunable'
  BY <1>1, <1>2, <1>4, <1>6, Names DEF RunningUntilSaved, EndingStops, EndingStays, RunnersRunable
<1>16. FromKnown' /\ ReapsEnded' /\ RequeuesRunable'
  BY <1>1, <1>2, <1>5 DEF FromKnown, ReapsEnded, RequeuesRunable, Kinds
<1>17. OneHandoff'
  BY <1>1, <1>2, <1>4, <1>7, Names DEF OneHandoff
<1>18. PlacedOnce'
  BY DEF PlacedOnce
<1>19. AnsweredStopped'
  BY <1>4, <1>6, <1>9, Names DEF AnsweredStopped
<1>20. AnswerNotPending'
  BY <1>4, <1>6, <1>8, Names DEF AnswerNotPending
<1>21. RunnerAnswered'
  BY <1>2, <1>4, <1>6, <1>7, Names DEF RunnerAnswered
<1>22. WaiterStopped'
  BY <1>2, <1>6, <1>8, <1>9, <1>10, Names DEF WaiterStopped, Kinds
<1>23. JoinerStopped' /\ JoinersWait'
  BY <1>2, <1>6, <1>8, <1>9, <1>10, Names DEF JoinerStopped, JoinersWait
<1>24. EndSeen'
  BY <1>1, <1>2, <1>4, <1>6, Names DEF EndSeen, GoesOn
<1> QED BY <1>11, <1>12, <1>13, <1>14, <1>15, <1>16, <1>17, <1>18, <1>19, <1>20, <1>21, <1>22, <1>23, <1>24

(* The stack pointer is saved: whoever is waiting for the thread may have it. *)
LEMMA SaveStateInv ==
  ASSUME SchedInv, Separate, UNCHANGED program, NEW p \in Processors, SaveState(p)
  PROVE  SchedInv'
<1> USE DEF SchedInv
<1> DEFINE t == cur[p]
<1>1. /\ p \notin spinning /\ pc[t] = "switch" /\ pc' = [pc EXCEPT ![t] = "resume"]
      /\ state' = [state EXCEPT ![t] = stopAs[t]] /\ spinning' = spinning \cup {p}
      /\ OnStack(p, t) /\ ~Off(t) /\ t \in TCBs
      /\ UNCHANGED <<joiner, arg, ready, stopAs, retTo, from, cur, to, waiters>>
  BY DEF SaveState, StoredState, Runs, Goto, OnStack, Off, prog
<1>2. \A u \in TCBs : /\ pc'[u] = IF u = t THEN "resume" ELSE pc[u]
                      /\ state'[u] = IF u = t THEN stopAs[t] ELSE state[u]
  BY <1>1 DEF Kinds
<1>3. \A q \in Processors : q \notin spinning /\ cur[q] = t => q = p
  BY <1>1, Executes
<1>4. /\ \A q \in Processors, u \in TCBs : OnStack(q, u)' <=> OnStack(q, u) /\ q # p
      /\ \A u \in TCBs : Off(u)' <=> Off(u) \/ u = t
      /\ \A u \in TCBs : Answered(u)' <=> Answered(u)
  BY <1>1, <1>3 DEF OnStack, Off, Answered
<1>6. t \in Threads => \A q \in Processors : Runner(t) => ~Handoff(q, t)
  BY <1>1, Executes
<1>7. \A q \in Processors, u \in TCBs : Handoff(q, u)' => Handoff(q, u) \/ (q = p /\ u = t)
  BY <1>1, <1>2, <1>3 DEF Handoff, Kinds
<1>8. /\ \A u \in TCBs : Live(u)' <=> Live(u)
      /\ \A u, x \in TCBs : AwaitsEnd(u, x)' <=> AwaitsEnd(u, x)
  BY <1>1, <1>2 DEF AwaitsEnd, Live, EndingStays, Kinds
<1>9. \A u \in TCBs : Stopped(u)' <=> Stopped(u)
  BY <1>1, <1>2, <1>4 DEF Stopped
<1>10. \A q \in Processors : q \notin spinning /\ pc[cur[q]] = "requeue" => from[cur[q]] # t
  <2> SUFFICES ASSUME NEW q \in Processors, q \notin spinning, pc[cur[q]] = "requeue",
                      from[cur[q]] = t
               PROVE  FALSE
    OBVIOUS
  <2>1. Runner(t) /\ t \in Threads
    BY <1>1 DEF RequeuesRunable, RunnersRunable, Runner
  <2>2. Handoff(q, t)
    BY DEF Handoff
  <2> QED BY <1>6, <2>1, <2>2
<1> USE DEF Runner
<1>11. Kinds'
  BY <1>1 DEF Kinds, Places, States
<1>12. BasesAtHome'
  BY <1>1, <1>2, <1>4, Names DEF BasesAtHome
<1>13. OneStack' /\ OffResumes' /\ FreshIsNone' /\ NoneIsOff'
  BY <1>1, <1>2, <1>4, Names DEF OneStack, OffResumes, FreshIsNone, NoneIsOff, Kinds
<1>14. PicksToSwitch'
  BY <1>1, <1>2, <1>3 DEF PicksToSwitch, Kinds
<1>15. RunningUntilSaved' /\ EndingStops' /\ EndingStays' /\ RunnersRunable'
  BY <1>1, <1>2, <1>4, <1>8, Names DEF RunningUntilSaved, EndingStops, EndingStays, RunnersRunable
<1>16. FromKnown' /\ ReapsEnded' /\ RequeuesRunable'
  BY <1>1, <1>2, <1>3, <1>8, <1>10 DEF FromKnown, ReapsEnded, RequeuesRunable, Kinds
<1>17. OneHandoff'
  BY <1>1, <1>2, <1>4, <1>6, <1>7, Names DEF OneHandoff
<1>18. PlacedOnce'
  BY <1>1 DEF PlacedOnce
<1>19. AnsweredStopped'
  BY <1>4, <1>8, <1>9, Names DEF AnsweredStopped
<1>20. AnswerNotPending'
  BY <1>1, <1>4, <1>8, Names DEF AnswerNotPending
<1>21. RunnerAnswered'
  BY <1>1, <1>2, <1>4, <1>7, Names DEF RunnerAnswered
<1>22. WaiterStopped'
  BY <1>1, <1>8, <1>9, Names DEF WaiterStopped, Kinds
<1>23. JoinerStopped' /\ JoinersWait'
  BY <1>1, <1>2, <1>8, <1>9, Names DEF JoinerStopped, JoinersWait
<1>24. EndSeen'
  BY <1>1, <1>2, <1>4, <1>8, Names DEF EndSeen, GoesOn, Kinds
<1> QED BY <1>11, <1>12, <1>13, <1>14, <1>15, <1>16, <1>17, <1>18, <1>19, <1>20, <1>21, <1>22, <1>23, <1>24

(* The first on the ready queue is picked; or the pthread_base is, when there is none. *)
LEMMA Taken ==
  ASSUME Kinds, BasesAtHome, PicksToSwitch, PlacedOnce, NEW p \in Processors, NEW t,
         p \notin spinning, cur[p] = t, pc[t] = "stop",
         TakeHead(p) \/ (t # p /\ to' = [to EXCEPT ![p] = p] /\ ready' = ready)
  PROVE  /\ ready' \in Seq(Threads) /\ IsInjective(ready')
         /\ \A q \in Processors : q # p => to'[q] = to[q] /\ (to[q] = NoThread \/ to'[p] # to[q])
         /\ to'[p] \in TCBs /\ to' \in [Processors -> TCBs \cup {NoThread}]
         /\ to'[p] \in Processors => to'[p] = p /\ t # p
         /\ \A u \in TCBs : u \in Range(ready') <=> u \in Range(ready) /\ u # to'[p]
         /\ \A u \in Threads : Answered(u)' <=> Answered(u)
<1>1. CASE TakeHead(p)
  <2>1. /\ ready' \in Seq(Threads) /\ IsInjective(ready')
        /\ to' = [to EXCEPT ![p] = Head(ready)]
        /\ Head(ready) \in Threads /\ Head(ready) \in Range(ready)
        /\ Range(ready') = Range(ready) \ {Head(ready)}
    BY <1>1, TakesHead DEF TakeHead, PlacedOnce
  <2>2. to[p] = NoThread /\ \A q \in Processors : to[q] # Head(ready)
    BY <2>1 DEF PicksToSwitch, PlacedOnce
  <2>3. to'[p] = Head(ready) /\ \A q \in Processors : q # p => to'[q] = to[q]
    BY <2>1 DEF Kinds
  <2>4. \A u \in Threads : Answered(u)' <=> Answered(u)
    BY <2>1, <2>2, <2>3, Names DEF Answered
  <2> QED BY <2>1, <2>2, <2>3, <2>4, Names DEF Kinds
<1>2. CASE t # p /\ to' = [to EXCEPT ![p] = p] /\ ready' = ready
  <2>1. to'[p] = p /\ \A q \in Processors : q # p => to'[q] = to[q] /\ to[q] # p
    BY <1>2 DEF Kinds, BasesAtHome
  <2>2. to[p] = NoThread
    BY DEF PicksToSwitch
  <2>3. p \notin Range(ready) /\ Range(ready) \subseteq Threads
    BY EmptyRange, Names DEF Kinds
  <2>4. \A u \in Threads : Answered(u)' <=> Answered(u)
    BY <1>2, <2>1, <2>2, Names DEF Answered
  <2> QED BY <1>2, <2>1, <2>2, <2>3, <2>4, Names DEF Kinds, PlacedOnce
<1> QED BY <1>1, <1>2

LEMMA DequeueInv ==
  ASSUME SchedInv, Separate, UNCHANGED program, NEW p \in Processors, Dequeue(p)
  PROVE  SchedInv'
<1> USE DEF SchedInv
<1> DEFINE t == cur[p]
<1>1. /\ p \notin spinning /\ pc[t] = "stop" /\ pc' = [pc EXCEPT ![t] = "switch"]
      /\ OnStack(p, t) /\ ~Off(t) /\ t \in TCBs
      /\ TakeHead(p) \/ (t # p /\ to' = [to EXCEPT ![p] = p] /\ ready' = ready)
      /\ UNCHANGED <<state, joiner, arg, stopAs, retTo, from, cur, spinning, waiters>>
  BY DEF Dequeue, Runs, Goto, OnStack, Off, prog
<1>2. \A u \in TCBs : pc'[u] = IF u = t THEN "switch" ELSE pc[u]
  BY <1>1 DEF Kinds
<1>3. \A q \in Processors : q \notin spinning /\ cur[q] = t => q = p
  BY <1>1, Executes
<1>4. /\ \A q \in Processors, u \in TCBs : OnStack(q, u)' <=> OnStack(q, u)
      /\ \A u \in TCBs : Off(u)' <=> Off(u)
  BY <1>1 DEF OnStack, Off
<1>5. /\ ready' \in Seq(Threads) /\ IsInjective(ready')
      /\ \A q \in Processors : q # p => to'[q] = to[q] /\ (to[q] = NoThread \/ to'[p] # to[q])
      /\ to'[p] \in TCBs /\ to' \in [Processors -> TCBs \cup {NoThread}]
      /\ to'[p] \in Processors => to'[p] = p /\ t # p
      /\ \A u \in TCBs : u \in Range(ready') <=> u \in Range(ready) /\ u # to'[p]
      /\ \A u \in Threads : Answered(u)' <=> Answered(u)
  BY <1>1, Taken
<1>7. \A q \in Processors, u \in TCBs : Handoff(q, u)' <=> Handoff(q, u)
  BY <1>1, <1>2, <1>3 DEF Handoff, Kinds
<1>9. \A u \in TCBs : Stopped(u)' <=> Stopped(u)
  BY <1>1, <1>2, <1>4 DEF Stopped
<1> USE DEF Runner, Live, AwaitsEnd
<1>11. Kinds'
  BY <1>1, <1>5 DEF Kinds, Places
<1>12. BasesAtHome'
  BY <1>1, <1>2, <1>4, <1>5, Names DEF BasesAtHome, OnStack
<1>13. OneStack' /\ OffResumes' /\ FreshIsNone' /\ NoneIsOff'
  BY <1>1, <1>2, <1>4, Names DEF OneStack, OffResumes, FreshIsNone, NoneIsOff
<1>14. PicksToSwitch'
  BY <1>1, <1>2, <1>3, <1>5, Names DEF PicksToSwitch, Kinds
<1>15. RunningUntilSaved' /\ EndingStops' /\ EndingStays' /\ RunnersRunable'
  BY <1>1, <1>2, <1>4, Names DEF RunningUntilSaved, EndingStops, EndingStays, RunnersRunable
<1>16. FromKnown' /\ ReapsEnded' /\ RequeuesRunable'
  BY <1>1, <1>2, <1>3 DEF FromKnown, ReapsEnded, RequeuesRunable, Kinds
<1>17. OneHandoff'
  BY <1>1, <1>2, <1>4, <1>7, Names DEF OneHandoff
<1>18. PlacedOnce'
  <2>1. \A q \in Processors : to'[q] \notin Range(ready')
    BY <1>5, EmptyRange, Names DEF PlacedOnce, Kinds
  <2>2. \A q, o \in Processors : to'[q] = to'[o] => q = o \/ to'[q] = NoThread
    BY <1>5, Names DEF PlacedOnce
  <2> QED BY <1>5, <2>1, <2>2 DEF PlacedOnce
<1>19. AnsweredStopped'
  BY <1>1, <1>5, <1>9, Names DEF AnsweredStopped
<1>20. AnswerNotPending'
  BY <1>1, <1>5, Names DEF AnswerNotPending
<1>21. RunnerAnswered'
  BY <1>1, <1>2, <1>5, <1>7, Names DEF RunnerAnswered
<1>22. WaiterStopped'
  BY <1>1, <1>9, Names DEF WaiterStopped, Kinds
<1>23. JoinerStopped' /\ JoinersWait'
  BY <1>1, <1>2, <1>9, Names DEF JoinerStopped, JoinersWait
<1>24. EndSeen'
  BY <1>1, <1>2, <1>4, <1>5, Names DEF EndSeen, GoesOn
<1> QED BY <1>11, <1>12, <1>13, <1>14, <1>15, <1>16, <1>17, <1>18, <1>19, <1>20, <1>21, <1>22, <1>23, <1>24

(* The resumed thread counts as RUNNING and goes back to where it stopped. *)
LEMMA EnterInv ==
  ASSUME SchedInv, Separate, UNCHANGED program, NEW p \in Processors, Enter(p)
  PROVE  SchedInv'
<1> USE DEF SchedInv
<1> DEFINE t == cur[p]
           m == IF state[t] # "NASCENT" THEN retTo[t] ELSE IF t \in Processors THEN BaseCode ELSE "run"
<1>1. /\ p \notin spinning /\ pc[t] = "enter" /\ pc' = [pc EXCEPT ![t] = m]
      /\ state' = [state EXCEPT ![t] = "RUNNING"]
      /\ OnStack(p, t) /\ ~Off(t) /\ t \in TCBs
      /\ UNCHANGED <<joiner, arg, ready, stopAs, retTo, from, cur, to, spinning, waiters>>
  BY DEF Enter, Runs, Goto, OnStack, Off
<1>2. \A u \in TCBs : /\ pc'[u] = IF u = t THEN m ELSE pc[u]
                      /\ state'[u] = IF u = t THEN "RUNNING" ELSE state[u]
  BY <1>1 DEF Kinds
<1>3. \A q \in Processors : q \notin spinning /\ cur[q] = t => q = p
  BY <1>1, Executes
<1>4. /\ \A q \in Processors, u \in TCBs : OnStack(q, u)' <=> OnStack(q, u)
      /\ \A u \in TCBs : Off(u)' <=> Off(u)
      /\ \A u \in TCBs : Answered(u)' <=> Answered(u)
  BY <1>1 DEF OnStack, Off, Answered
<1>5. /\ t \in Processors => m = "stop"
      /\ t \in Threads => m \in {"run", "joined"} /\ (m = "joined" => retTo[t] = "joined")
      /\ m \in {"stop", "run", "joined"}
  BY <1>1, Names DEF BasesAtHome, BaseCode, Separate, Kinds, TCBs
<1>6. Live(t) /\ (t \in Threads => /\ ~Stopped(t) /\ ~Answered(t) /\ t \notin waiters
                                   /\ \A x \in TCBs : ~AwaitsEnd(t, x))
  BY <1>1, Executes DEF EndingStops
<1>7. \A q \in Processors, u \in TCBs : Handoff(q, u)' <=> Handoff(q, u)
  BY <1>1, <1>2, <1>3, <1>5 DEF Handoff, Kinds
<1>8. /\ \A u \in TCBs : Live(u)' <=> Live(u)
      /\ \A u, x \in TCBs : AwaitsEnd(u, x)' <=> AwaitsEnd(u, x)
  BY <1>1, <1>2, <1>6 DEF AwaitsEnd, Live
<1>9. \A u \in TCBs : u # t => (Stopped(u)' <=> Stopped(u))
  BY <1>1, <1>2, <1>4 DEF Stopped
<1>10. \A q \in Processors : q \notin spinning /\ pc[cur[q]] = "requeue" => from[cur[q]] # t
  BY <1>1, RequeuedOff
<1> USE DEF Runner
<1> HIDE DEF m
<1>11. Kinds'
  BY <1>1, <1>5 DEF Kinds, Places, States
<1>12. BasesAtHome'
  BY <1>1, <1>2, <1>4, <1>5, Names DEF BasesAtHome
<1>13. OneStack' /\ OffResumes' /\ FreshIsNone' /\ NoneIsOff'
  BY <1>1, <1>2, <1>4, <1>5, Names DEF OneStack, OffResumes, FreshIsNone, NoneIsOff
<1>14. PicksToSwitch'
  BY <1>1, <1>2, <1>3, <1>5 DEF PicksToSwitch, Kinds
<1>15. RunningUntilSaved' /\ EndingStops' /\ EndingStays' /\ RunnersRunable'
  BY <1>1, <1>2, <1>4, <1>6, <1>8, Names DEF RunningUntilSaved, EndingStops, EndingStays, RunnersRunable
<1>16. FromKnown' /\ ReapsEnded' /\ RequeuesRunable'
  BY <1>1, <1>2, <1>3, <1>5, <1>8, <1>10 DEF FromKnown, ReapsEnded, RequeuesRunable, Kinds
<1>17. OneHandoff'
  BY <1>1, <1>2, <1>4, <1>7, Names DEF OneHandoff
<1>18. PlacedOnce'
  BY <1>1 DEF PlacedOnce
<1>19. AnsweredStopped'
  BY <1>4, <1>6, <1>8, <1>9, Names DEF AnsweredStopped
<1>20. AnswerNotPending'
  BY <1>1, <1>4, <1>8, Names DEF AnswerNotPending
<1>21. RunnerAnswered'
  BY <1>1, <1>2, <1>4, <1>6, <1>7, Names DEF RunnerAnswered
<1>22. WaiterStopped'
  BY <1>1, <1>6, <1>8, <1>9, Names DEF WaiterStopped, Kinds
<1>23. JoinerStopped' /\ JoinersWait'
  BY <1>1, <1>2, <1>5, <1>6, <1>8, <1>9, Names DEF JoinerStopped, JoinersWait
<1>24. EndSeen'
  BY <1>1, <1>2, <1>4, <1>5, <1>6, <1>8, Names DEF EndSeen, GoesOn, Kinds
<1> QED BY <1>11, <1>12, <1>13, <1>14, <1>15, <1>16, <1>17, <1>18, <1>19, <1>20, <1>21, <1>22, <1>23, <1>24

(* The thread before it has ended: freed, or DEAD from now on. *)
LEMMA ReapInv ==
  ASSUME SchedInv, Separate, UNCHANGED program, NEW p \in Processors, Reap(p)
  PROVE  SchedInv'
<1> USE DEF SchedInv
<1> DEFINE t == cur[p]
           f == from[t]
<1>1. /\ p \notin spinning /\ pc[t] = "reap" /\ pc' = [pc EXCEPT ![t] = "enter"]
      /\ state' = state \/ state' = [state EXCEPT ![f] = "DEAD"]
      /\ OnStack(p, t) /\ ~Off(t) /\ t \in TCBs
      /\ UNCHANGED <<joiner, arg, ready, stopAs, retTo, from, cur, to, spinning, waiters>>
  BY DEF Reap, Runs, Goto, OnStack, Off, prog
<1>2. /\ \A u \in TCBs : pc'[u] = IF u = t THEN "enter" ELSE pc[u]
      /\ \A u \in TCBs : state'[u] = state[u] \/ (u = f /\ state'[u] = "DEAD")
      /\ f \in TCBs /\ ~Live(f) /\ state' \in [TCBs -> States]
  BY <1>1 DEF Kinds, States, FromKnown, ReapsEnded
<1>3. \A q \in Processors : q \notin spinning /\ cur[q] = t => q = p
  BY <1>1, Executes
<1>4. /\ \A q \in Processors, u \in TCBs : OnStack(q, u)' <=> OnStack(q, u)
      /\ \A u \in TCBs : Off(u)' <=> Off(u)
      /\ \A u \in TCBs : Answered(u)' <=> Answered(u)
  BY <1>1 DEF OnStack, Off, Answered
<1>6. /\ t \in Threads => ~Answered(t) /\ ~Stopped(t) /\ t \notin waiters /\ \A x \in TCBs : ~AwaitsEnd(t, x)
      /\ Live(t)
  BY <1>1, Executes DEF EndingStops
<1>7. \A q \in Processors, u \in TCBs : Handoff(q, u)' <=> Handoff(q, u)
  BY <1>1, <1>2, <1>3 DEF Handoff, Kinds
<1>8. /\ \A u \in TCBs : Live(u)' <=> Live(u)
      /\ \A u, x \in TCBs : AwaitsEnd(u, x)' <=> AwaitsEnd(u, x)
  BY <1>1, <1>2 DEF AwaitsEnd, Live
<1>9. \A u \in TCBs : u # t => (Stopped(u)' <=> Stopped(u))
  BY <1>1, <1>2, <1>4 DEF Stopped
<1>10. \A q \in Processors : q \notin spinning /\ pc[cur[q]] = "requeue" => from[cur[q]] # f
  BY <1>2, RequeuedOff DEF Live
<1> USE DEF Runner
<1>11. Kinds'
  BY <1>1, <1>2 DEF Kinds, Places
<1>12. BasesAtHome'
  BY <1>1, <1>2, <1>4, Names DEF BasesAtHome
<1>13. OneStack' /\ OffResumes' /\ FreshIsNone' /\ NoneIsOff'
  BY <1>1, <1>2, <1>4, Names DEF OneStack, OffResumes, FreshIsNone, NoneIsOff
<1>14. PicksToSwitch'
  BY <1>1, <1>2, <1>3 DEF PicksToSwitch, Kinds
<1>15. RunningUntilSaved' /\ EndingStops' /\ EndingStays' /\ RunnersRunable'
  <2>1. RunningUntilSaved'
    BY <1>2, <1>8, Names DEF RunningUntilSaved, Live
  <2>2. EndingStops' /\ EndingStays'
    BY <1>1, <1>2, <1>4, <1>6, <1>8 DEF EndingStops, EndingStays
  <2>3. RunnersRunable'
    BY <1>1, <1>2 DEF RunnersRunable
  <2> QED BY <2>1, <2>2, <2>3
<1>16. FromKnown' /\ ReapsEnded' /\ RequeuesRunable'
  BY <1>1, <1>2, <1>3, <1>8, <1>10 DEF FromKnown, ReapsEnded, RequeuesRunable, Kinds
<1>17. OneHandoff'
  BY <1>1, <1>2, <1>4, <1>7, Names DEF OneHandoff
<1>18. PlacedOnce'
  BY <1>1 DEF PlacedOnce
<1>19. AnsweredStopped'
  BY <1>4, <1>6, <1>8, <1>9, Names DEF AnsweredStopped
<1>20. AnswerNotPending'
  BY <1>1, <1>4, <1>8, Names DEF AnswerNotPending
<1>21. RunnerAnswered'
  BY <1>1, <1>2, <1>4, <1>6, <1>7, Names DEF RunnerAnswered
<1>22. WaiterStopped'
  BY <1>1, <1>6, <1>8, <1>9, Names DEF WaiterStopped, Kinds
<1>23. JoinerStopped' /\ JoinersWait'
  BY <1>1, <1>2, <1>6, <1>8, <1>9, Names DEF JoinerStopped, JoinersWait
<1>24. EndSeen'
  BY <1>1, <1>2, <1>4, <1>6, <1>8, Names DEF EndSeen, GoesOn, Kinds
<1> QED BY <1>11, <1>12, <1>13, <1>14, <1>15, <1>16, <1>17, <1>18, <1>19, <1>20, <1>21, <1>22, <1>23, <1>24

(* The thread before it has yielded: back onto the ready queue. *)
LEMMA RequeueInv ==
  ASSUME SchedInv, Separate, UNCHANGED program, NEW p \in Processors, Requeue(p)
  PROVE  SchedInv'
<1> USE DEF SchedInv
<1> DEFINE t == cur[p]
           f == from[t]
<1>1. /\ p \notin spinning /\ pc[t] = "requeue" /\ pc' = [pc EXCEPT ![t] = "enter"]
      /\ OnStack(p, t) /\ ~Off(t) /\ t \in TCBs /\ ReadyEnqueue(f)
      /\ UNCHANGED <<state, joiner, arg, stopAs, retTo, from, cur, to, spinning, waiters>>
  BY DEF Requeue, Runs, Goto, OnStack, Off, prog
<1>2. \A u \in TCBs : pc'[u] = IF u = t THEN "enter" ELSE pc[u]
  BY <1>1 DEF Kinds
<1>3. \A q \in Processors : q \notin spinning /\ cur[q] = t => q = p
  BY <1>1, Executes
<1>4. /\ f \in Threads /\ Runner(f) /\ Handoff(p, f) /\ state[f] = "RUNABLE" /\ Live(f)
      /\ Off(f) /\ pc[f] = "resume" /\ ~Answered(f) /\ f # t /\ Stopped(f)
  BY <1>1, RequeuedOff DEF Live, Stopped
<1>5. /\ ready' \in Seq(Threads) /\ IsInjective(ready') /\ Range(ready') = Range(ready) \cup {f}
      /\ f \notin Range(ready) /\ \A q \in Processors : to[q] # f
  <2>1. f \notin Range(ready) /\ \A q \in Processors : to[q] # f
    BY <1>4 DEF Answered
  <2> QED BY <1>1, <1>4, <2>1, Enqueues DEF PlacedOnce
<1>6. /\ \A q \in Processors, u \in TCBs : OnStack(q, u)' <=> OnStack(q, u)
      /\ \A u \in TCBs : Off(u)' <=> Off(u)
      /\ \A u \in TCBs : Answered(u)' <=> Answered(u) \/ u = f
  BY <1>1, <1>5 DEF OnStack, Off, Answered
<1>7. \A q \in Processors, u \in TCBs : Handoff(q, u)' => Handoff(q, u) /\ q # p
  BY <1>1, <1>2, <1>3 DEF Handoff, Kinds
<1>8. \A q \in Processors : ~Handoff(q, f)'
  BY <1>1, <1>4, <1>7, Names DEF OneHandoff
<1>9. /\ \A u \in TCBs : u # t => (Stopped(u)' <=> Stopped(u))
      /\ t \in Threads => ~Answered(t) /\ ~Stopped(t) /\ t \notin waiters /\ \A x \in TCBs : ~AwaitsEnd(t, x)
  BY <1>1, <1>2, <1>6, Executes DEF Stopped
<1>10. f \notin waiters /\ (\A x \in TCBs : ~AwaitsEnd(f, x)) /\ retTo[f] # "joined"
  BY <1>4 DEF WaiterStopped, JoinerStopped, JoinersWait
<1> USE DEF Runner, Live, AwaitsEnd
<1>11. Kinds'
  BY <1>1, <1>5 DEF Kinds, Places
<1>12. BasesAtHome'
  BY <1>1, <1>2, <1>6, Names DEF BasesAtHome
<1>13. OneStack' /\ OffResumes' /\ FreshIsNone' /\ NoneIsOff'
  BY <1>1, <1>2, <1>6, Names DEF OneStack, OffResumes, FreshIsNone, NoneIsOff
<1>14. PicksToSwitch'
  BY <1>1, <1>2, <1>3 DEF PicksToSwitch, Kinds
<1>15. RunningUntilSaved' /\ EndingStops' /\ EndingStays' /\ RunnersRunable'
  BY <1>1, <1>2, <1>6, Names DEF RunningUntilSaved, EndingStops, EndingStays, RunnersRunable
<1>16. FromKnown' /\ ReapsEnded' /\ RequeuesRunable'
  BY <1>1, <1>2, <1>3 DEF FromKnown, ReapsEnded, RequeuesRunable, Kinds
<1>17. OneHandoff'
  BY <1>1, <1>2, <1>6, <1>7, Names DEF OneHandoff
<1>18. PlacedOnce'
  BY <1>1, <1>5 DEF PlacedOnce
<1>19. AnsweredStopped'
  BY <1>1, <1>4, <1>6, <1>9, Names DEF AnsweredStopped
<1>20. AnswerNotPending'
  BY <1>1, <1>6, <1>10, Names DEF AnswerNotPending
<1>21. RunnerAnswered'
  BY <1>1, <1>2, <1>4, <1>6, <1>7, <1>8, <1>9, Names DEF RunnerAnswered
<1>22. WaiterStopped'
  BY <1>1, <1>9, Names DEF WaiterStopped, Kinds
<1>23. JoinerStopped' /\ JoinersWait'
  BY <1>1, <1>2, <1>9, Names DEF JoinerStopped, JoinersWait
<1>24. EndSeen'
  BY <1>1, <1>2, <1>6, <1>10, Names DEF EndSeen, GoesOn
<1> QED BY <1>11, <1>12, <1>13, <1>14, <1>15, <1>16, <1>17, <1>18, <1>19, <1>20, <1>21, <1>22, <1>23, <1>24

(* The first of a wait queue, or whoever its waker likes, gets ready. *)
LEMMA WakeInv ==
  ASSUME SchedInv, Separate, UNCHANGED program, NEW p \in Processors, Wake(p)
  PROVE  SchedInv'
<1> USE DEF SchedInv
<1>1. PICK u \in waiters : waiters' = waiters \ {u} /\ ReadyEnqueue(u)
  BY DEF Wake, LeaveQueue
<1>2. UNCHANGED <<state, joiner, arg, pc, stopAs, retTo, from, cur, to, spinning>>
  BY DEF Wake
<1>4. /\ u \in Threads /\ u \in TCBs /\ Stopped(u) /\ Live(u) /\ ~Runner(u) /\ retTo[u] = "run"
      /\ ~Answered(u) /\ \A x \in TCBs : ~AwaitsEnd(u, x)
  BY <1>1, Names DEF WaiterStopped, AnswerNotPending, Kinds
<1>5. /\ ready' \in Seq(Threads) /\ IsInjective(ready') /\ Range(ready') = Range(ready) \cup {u}
      /\ u \notin Range(ready) /\ \A q \in Processors : to[q] # u
  <2>1. u \notin Range(ready) /\ \A q \in Processors : to[q] # u
    BY <1>4 DEF Answered
  <2> QED BY <1>1, <1>4, <2>1, Enqueues DEF PlacedOnce
<1>6. /\ \A q \in Processors, v \in TCBs : OnStack(q, v)' <=> OnStack(q, v)
      /\ \A v \in TCBs : Off(v)' <=> Off(v)
      /\ \A v \in TCBs : Stopped(v)' <=> Stopped(v)
      /\ \A v \in TCBs : Answered(v)' <=> Answered(v) \/ v = u
      /\ \A q \in Processors, v \in TCBs : Handoff(q, v)' <=> Handoff(q, v)
  BY <1>2, <1>5 DEF OnStack, Off, Stopped, Answered, Handoff
<1> USE DEF Runner, Live, AwaitsEnd
<1>11. Kinds'
  BY <1>1, <1>2, <1>5 DEF Kinds
<1>12. BasesAtHome' /\ OneStack' /\ OffResumes' /\ FreshIsNone' /\ NoneIsOff' /\ PicksToSwitch'
  BY <1>2, <1>6, Names DEF BasesAtHome, OneStack, OffResumes, FreshIsNone, NoneIsOff, PicksToSwitch
<1>15. RunningUntilSaved' /\ EndingStops' /\ EndingStays' /\ RunnersRunable'
  BY <1>2, <1>6, Names DEF RunningUntilSaved, EndingStops, EndingStays, RunnersRunable
<1>16. FromKnown' /\ ReapsEnded' /\ RequeuesRunable'
  BY <1>2 DEF FromKnown, ReapsEnded, RequeuesRunable
<1>17. OneHandoff'
  BY <1>2, <1>6, Names DEF OneHandoff
<1>18. PlacedOnce'
  BY <1>2, <1>5 DEF PlacedOnce
<1>19. AnsweredStopped'
  BY <1>2, <1>4, <1>6, Names DEF AnsweredStopped
<1>20. AnswerNotPending'
  BY <1>1, <1>2, <1>4, <1>6, Names DEF AnswerNotPending
<1>21. RunnerAnswered'
  BY <1>2, <1>4, <1>6, Names DEF RunnerAnswered
<1>22. WaiterStopped'
  BY <1>1, <1>2, <1>6, Names DEF WaiterStopped, Kinds
<1>23. JoinerStopped' /\ JoinersWait'
  BY <1>2, <1>6, Names DEF JoinerStopped, JoinersWait
<1>24. EndSeen'
  BY <1>2, <1>4, <1>6, Names DEF EndSeen, GoesOn
<1> QED BY <1>11, <1>12, <1>15, <1>16, <1>17, <1>18, <1>19, <1>20, <1>21, <1>22, <1>23, <1>24

(* A new thread is ready before anybody knows it. *)
LEMMA CreateInv ==
  ASSUME SchedInv, Separate, UNCHANGED program, NEW p \in Processors, Create(p)
  PROVE  SchedInv'
<1> USE DEF SchedInv
<1>1. PICK c \in Threads : /\ state[c] = "NONE" /\ state' = [state EXCEPT ![c] = "NASCENT"]
                           /\ pc' = [pc EXCEPT ![c] = "resume"] /\ ReadyEnqueue(c)
  BY DEF Create, NewThread, Goto
<1>2. UNCHANGED <<joiner, arg, stopAs, retTo, from, cur, to, spinning, waiters>>
  BY DEF Create
<1>3. \A u \in TCBs : /\ pc'[u] = IF u = c THEN "resume" ELSE pc[u]
                      /\ state'[u] = IF u = c THEN "NASCENT" ELSE state[u]
  BY <1>1 DEF Kinds
<1>4. /\ c \in TCBs /\ pc[c] = "none" /\ retTo[c] = "run" /\ Off(c) /\ ~Stopped(c) /\ Live(c)
      /\ ~Answered(c) /\ c \notin waiters /\ (\A x \in TCBs : ~AwaitsEnd(c, x))
      /\ \A q \in Processors : Runner(c) => ~Handoff(q, c)
  <2>1. c \in TCBs /\ pc[c] = "none" /\ retTo[c] = "run" /\ Off(c) /\ ~Stopped(c) /\ Live(c)
    BY <1>1, Names DEF FreshIsNone, NoneIsOff, Stopped, Live
  <2> QED BY <2>1 DEF AnsweredStopped, WaiterStopped, JoinerStopped, OneHandoff
<1>5. /\ ready' \in Seq(Threads) /\ IsInjective(ready') /\ Range(ready') = Range(ready) \cup {c}
      /\ c \notin Range(ready) /\ \A q \in Processors : to[q] # c
  <2>1. c \notin Range(ready) /\ \A q \in Processors : to[q] # c
    BY <1>4 DEF Answered
  <2> QED BY <1>1, <2>1, Enqueues DEF PlacedOnce
<1>6. /\ \A q \in Processors, u \in TCBs : OnStack(q, u)' <=> OnStack(q, u)
      /\ \A u \in TCBs : Off(u)' <=> Off(u)
      /\ \A u \in TCBs : Answered(u)' <=> Answered(u) \/ u = c
  BY <1>2, <1>5 DEF OnStack, Off, Answered
<1>7. /\ \A q \in Processors : q \notin spinning => cur[q] # c /\ pc'[cur[q]] = pc[cur[q]]
      /\ \A q \in Processors, u \in TCBs : Handoff(q, u)' <=> Handoff(q, u)
  <2>1. \A q \in Processors : q \notin spinning => cur[q] # c /\ pc'[cur[q]] = pc[cur[q]]
    BY <1>3, <1>4 DEF Off, OnStack, Kinds
  <2> QED BY <1>2, <2>1 DEF Handoff
<1>8. /\ \A u \in TCBs : Live(u)' <=> Live(u)
      /\ \A u, x \in TCBs : AwaitsEnd(u, x)' <=> AwaitsEnd(u, x)
  BY <1>2, <1>3, <1>4 DEF AwaitsEnd, Live
<1>9. /\ \A u \in TCBs : u # c => (Stopped(u)' <=> Stopped(u))
      /\ Stopped(c)'
  BY <1>3, <1>4, <1>6 DEF Stopped
<1>10. \A q \in Processors : q \notin spinning /\ pc[cur[q]] = "requeue" => from[cur[q]] # c
  BY <1>1, RequeuedOff
<1> USE DEF Runner
<1>11. Kinds'
  BY <1>1, <1>2, <1>5 DEF Kinds, Places, States
<1>12. BasesAtHome'
  BY <1>2, <1>3, <1>6, Names DEF BasesAtHome
<1>13. OneStack' /\ OffResumes' /\ FreshIsNone' /\ NoneIsOff'
  BY <1>2, <1>3, <1>4, <1>6, Names DEF OneStack, OffResumes, FreshIsNone, NoneIsOff
<1>14. PicksToSwitch'
  BY <1>2, <1>7 DEF PicksToSwitch
<1>15. RunningUntilSaved' /\ EndingStops' /\ EndingStays' /\ RunnersRunable'
  BY <1>2, <1>3, <1>4, <1>6, <1>8, Names DEF RunningUntilSaved, EndingStops, EndingStays, RunnersRunable
<1>16. FromKnown' /\ ReapsEnded' /\ RequeuesRunable'
  BY <1>2, <1>3, <1>7, <1>8, <1>10 DEF FromKnown, ReapsEnded, RequeuesRunable, Kinds
<1>17. OneHandoff'
  BY <1>2, <1>3, <1>4, <1>6, <1>7, Names DEF OneHandoff
<1>18. PlacedOnce'
  BY <1>2, <1>5 DEF PlacedOnce
<1>19. AnsweredStopped'
  BY <1>4, <1>6, <1>8, <1>9, Names DEF AnsweredStopped
<1>20. AnswerNotPending'
  BY <1>2, <1>4, <1>6, <1>8, Names DEF AnswerNotPending
<1>21. RunnerAnswered'
  BY <1>2, <1>3, <1>4, <1>6, <1>7, Names DEF RunnerAnswered
<1>22. WaiterStopped'
  BY <1>2, <1>4, <1>8, <1>9, Names DEF WaiterStopped, Kinds
<1>23. JoinerStopped' /\ JoinersWait'
  BY <1>2, <1>3, <1>8, <1>9, Names DEF JoinerStopped, JoinersWait
<1>24. EndSeen'
  BY <1>2, <1>3, <1>4, <1>6, <1>8, Names DEF EndSeen, GoesOn, Kinds
<1> QED BY <1>11, <1>12, <1>13, <1>14, <1>15, <1>16, <1>17, <1>18, <1>19, <1>20, <1>21, <1>22, <1>23, <1>24

(* A thread ends, and whoever waits for its end gets ready. *)
LEMMA ExitInv ==
  ASSUME SchedInv, Separate, UNCHANGED program, NEW p \in Processors, Exit(p)
  PROVE  SchedInv'
<1> USE DEF SchedInv
<1> DEFINE t == cur[p]
           j == joiner[t]
<1>1. /\ p \notin spinning /\ t \in Threads /\ pc[t] = "run" /\ pc' = [pc EXCEPT ![t] = "stop"]
      /\ stopAs' = [stopAs EXCEPT ![t] = "DYING"] /\ retTo' = [retTo EXCEPT ![t] = "run"]
      /\ state' = [state EXCEPT ![t] = "DYING"]
      /\ OnStack(p, t) /\ ~Off(t) /\ t \in TCBs
      /\ UNCHANGED <<joiner, arg, from, cur, to, spinning, waiters>>
  BY Names DEF Exit, Runs, Stop, Goto, OnStack, Off, prog
<1>2. \A u \in TCBs : /\ pc'[u] = IF u = t THEN "stop" ELSE pc[u]
                      /\ stopAs'[u] = IF u = t THEN "DYING" ELSE stopAs[u]
                      /\ retTo'[u] = IF u = t THEN "run" ELSE retTo[u]
                      /\ state'[u] = IF u = t THEN "DYING" ELSE state[u]
  BY <1>1 DEF Kinds
<1>3. \A q \in Processors : q \notin spinning /\ cur[q] = t => q = p
  BY <1>1, Executes
<1>4. /\ ~Stopped(t) /\ ~Answered(t) /\ t \notin waiters /\ Live(t)
      /\ \A x \in TCBs : ~AwaitsEnd(t, x)
  BY <1>1, Executes
<1>5. /\ ready' \in Seq(Threads) /\ IsInjective(ready')
      /\ \A u \in TCBs : u \in Range(ready') <=> u \in Range(ready) \/ (u = j /\ j \in Threads)
      /\ j \in Threads => /\ AwaitsEnd(j, t) /\ j # t /\ Stopped(j) /\ Live(j) /\ ~Runner(j)
                          /\ arg[j] = t /\ j \notin waiters /\ ~Answered(j)
      /\ \A q \in Processors : to[q] \notin Range(ready')
  <2>1. CASE j \in Threads
    <3>1. AwaitsEnd(j, t)
      BY <1>4 DEF AwaitsEnd
    <3>2. /\ Stopped(j) /\ Live(j) /\ ~Runner(j) /\ arg[j] = t /\ j # t
          /\ j \notin waiters /\ ~Answered(j)
      BY <1>1, <1>4, <2>1, <3>1 DEF JoinerStopped, WaiterStopped, AnswerNotPending
    <3>3. j \notin Range(ready) /\ \A q \in Processors : to[q] # j
      BY <2>1, <3>2 DEF Answered
    <3>4. ReadyEnqueue(j)
      BY <2>1, Names, NullAssumption DEF Exit, Runs
    <3> QED BY <2>1, <3>1, <3>2, <3>3, <3>4, Enqueues DEF PlacedOnce
  <2>2. CASE j \notin Threads
    <3>1. ready' = ready
      BY <1>1, <2>2 DEF Exit, Runs, NoEnqueue, Kinds
    <3> QED BY <2>2, <3>1 DEF PlacedOnce, Kinds
  <2> QED BY <2>1, <2>2
<1>6. /\ \A q \in Processors, u \in TCBs : OnStack(q, u)' <=> OnStack(q, u)
      /\ \A u \in TCBs : Off(u)' <=> Off(u)
      /\ \A u \in TCBs : Answered(u)' <=> Answered(u) \/ (u = j /\ j \in Threads)
  BY <1>1, <1>5 DEF OnStack, Off, Answered
<1>7. \A q \in Processors, u \in TCBs : Handoff(q, u)' <=> Handoff(q, u)
  BY <1>1, <1>2, <1>3 DEF Handoff, Kinds
<1>8. /\ \A u \in TCBs : Live(u)' <=> Live(u) /\ u # t
      /\ \A u, x \in TCBs : AwaitsEnd(u, x)' <=> AwaitsEnd(u, x) /\ x # t
  BY <1>1, <1>2 DEF AwaitsEnd, Live
<1>9. /\ \A u \in TCBs : u # t => (Stopped(u)' <=> Stopped(u))
      /\ Stopped(t)'
  BY <1>2, <1>6, <1>1 DEF Stopped
<1>10. \A q \in Processors : q \notin spinning /\ pc[cur[q]] = "requeue" => from[cur[q]] # t
  BY <1>1, RequeuedOff
<1> USE DEF Runner
<1>11. Kinds'
  BY <1>1, <1>5 DEF Kinds, Places, States
<1>12. BasesAtHome'
  BY <1>1, <1>2, <1>6, Names DEF BasesAtHome
<1>13. OneStack' /\ OffResumes' /\ FreshIsNone' /\ NoneIsOff'
  BY <1>1, <1>2, <1>6, Names DEF OneStack, OffResumes, FreshIsNone, NoneIsOff
<1>14. PicksToSwitch'
  BY <1>1, <1>2, <1>3 DEF PicksToSwitch, Kinds
<1>15. RunningUntilSaved' /\ EndingStops' /\ EndingStays' /\ RunnersRunable'
  BY <1>1, <1>2, <1>6, <1>8, Names DEF RunningUntilSaved, EndingStops, EndingStays, RunnersRunable
<1>16. FromKnown' /\ ReapsEnded' /\ RequeuesRunable'
  BY <1>1, <1>2, <1>3, <1>8, <1>10 DEF FromKnown, ReapsEnded, RequeuesRunable, Kinds
<1>17. OneHandoff'
  BY <1>1, <1>2, <1>6, <1>7, Names DEF OneHandoff
<1>18. PlacedOnce'
  BY <1>1, <1>5 DEF PlacedOnce
<1>19. AnsweredStopped'
  BY <1>4, <1>5, <1>6, <1>8, <1>9, Names DEF AnsweredStopped
<1>20. AnswerNotPending'
  <2>1. j \in Threads => \A x \in TCBs : ~AwaitsEnd(j, x)'
    BY <1>1, <1>5, <1>8, Names DEF JoinerStopped
  <2> QED BY <1>1, <1>5, <1>6, <1>8, <2>1, Names DEF AnswerNotPending
<1>21. RunnerAnswered'
  BY <1>1, <1>2, <1>4, <1>5, <1>6, <1>7, Names DEF RunnerAnswered
<1>22. WaiterStopped'
  BY <1>1, <1>2, <1>4, <1>8, <1>9, Names DEF WaiterStopped, Kinds
<1>23. JoinerStopped' /\ JoinersWait'
  BY <1>1, <1>2, <1>4, <1>8, <1>9, Names DEF JoinerStopped, JoinersWait
<1>24. EndSeen'
  BY <1>1, <1>2, <1>5, <1>6, <1>8, Names DEF EndSeen, GoesOn, Kinds
<1> QED BY <1>11, <1>12, <1>13, <1>14, <1>15, <1>16, <1>17, <1>18, <1>19, <1>20, <1>21, <1>22, <1>23, <1>24

(* Who runs at first: main, and the pthread_base threads of the other processors. *)
LEMMA Starts ==
  ASSUME Init, IdleSleep
  PROVE  LET Others == program.processors \ {Boot} IN
         \A t \in TCBs : /\ state[t] = "RUNNING" <=> t = Main \/ t \in Others
                         /\ state[t] = "NASCENT" <=> t = Boot
                         /\ state[t] \in {"RUNNING", "NASCENT", "NONE"}
                         /\ pc[t] = "run" <=> t = Main
                         /\ pc[t] = "stop" <=> t \in Others
                         /\ pc[t] = "resume" <=> t = Boot
                         /\ pc[t] \in {"run", "stop", "resume", "none"}
<1> DEFINE Others == program.processors \ {Boot}
<1>0. Main \in Threads /\ Boot \in Processors /\ Main # Boot /\ Main \notin Others
  BY ThreadsAssumption, BootAssumption, ProgramsAssumption DEF Init
<1> SUFFICES ASSUME NEW t \in TCBs
             PROVE  /\ state[t] = "RUNNING" <=> t = Main \/ t \in Others
                    /\ state[t] = "NASCENT" <=> t = Boot
                    /\ state[t] \in {"RUNNING", "NASCENT", "NONE"}
                    /\ pc[t] = "run" <=> t = Main
                    /\ pc[t] = "stop" <=> t \in Others
                    /\ pc[t] = "resume" <=> t = Boot
                    /\ pc[t] \in {"run", "stop", "resume", "none"}
  OBVIOUS
<1>1. /\ state[t] = CASE t = Main \/ t \in program.processors \ {Boot} -> "RUNNING"
                      [] t = Boot -> "NASCENT"
                      [] OTHER -> "NONE"
      /\ pc[t] = CASE t = Main -> "run"
                   [] t \in program.processors \ {Boot} -> BaseCode
                   [] t = Boot -> "resume"
                   [] OTHER -> "none"
  BY Zenon DEF Init
<1>2. BaseCode = "stop"
  BY DEF BaseCode
<1>3. CASE t = Main
  <2>1. state[t] = "RUNNING" /\ pc[t] = "run"
    BY <1>0, <1>1, <1>3, Zenon
  <2> QED BY <1>0, <1>3, <2>1
<1>4. CASE t \in Others
  <2>1. state[t] = "RUNNING" /\ pc[t] = "stop"
    BY <1>0, <1>1, <1>2, <1>4, Zenon
  <2> QED BY <1>0, <1>4, <2>1
<1>5. CASE t = Boot
  <2>1. state[t] = "NASCENT" /\ pc[t] = "resume"
    BY <1>0, <1>1, <1>5, Zenon
  <2> QED BY <1>0, <1>5, <2>1
<1>6. CASE t # Main /\ t \notin Others /\ t # Boot
  <2>1. state[t] = "NONE" /\ pc[t] = "none"
    BY <1>1, <1>6, Zenon
  <2> QED BY <1>6, <2>1
<1> QED BY <1>3, <1>4, <1>5, <1>6

(* The program starts in order. *)
LEMMA SchedInit == Init /\ Separate => SchedInv
<1> SUFFICES ASSUME Init, Separate PROVE SchedInv
  OBVIOUS
<1> DEFINE Others == program.processors \ {Boot}
<1>1. /\ joiner = [t \in TCBs |-> NoThread] /\ ready = <<>>
      /\ stopAs = [t \in TCBs |-> "BLOCKED"]
      /\ retTo = [t \in TCBs |-> IF t \in Processors THEN "stop" ELSE "run"]
      /\ arg = [t \in TCBs |-> NoThread] /\ from = [t \in TCBs |-> NoThread]
      /\ cur = [p \in Processors |-> IF p = Boot THEN Main ELSE p]
      /\ to = [p \in Processors |-> NoThread] /\ spinning = {} /\ waiters = {}
  BY DEF Init, Separate, InitialReady, BaseCode
<1>2. Main \in Threads /\ Boot \in Processors /\ Main # Boot /\ Main \notin Others
  BY ThreadsAssumption, BootAssumption, ProgramsAssumption DEF Init
<1>3. \A t \in TCBs : /\ state[t] = "RUNNING" <=> t = Main \/ t \in Others
                      /\ state[t] = "NASCENT" <=> t = Boot
                      /\ state[t] \in {"RUNNING", "NASCENT", "NONE"}
                      /\ pc[t] = "run" <=> t = Main
                      /\ pc[t] = "stop" <=> t \in Others
                      /\ pc[t] = "resume" <=> t = Boot
                      /\ pc[t] \in {"run", "stop", "resume", "none"}
  BY Starts DEF Separate
<1>4. /\ state \in [TCBs -> States] /\ pc \in [TCBs -> Places]
      /\ Others \subseteq Processors /\ <<>> \in Seq(Threads)
  BY <1>3, ProgramsAssumption DEF Init, States, Places
<1>5. /\ \A p \in Processors, t \in TCBs : OnStack(p, t) <=> t = IF p = Boot THEN Main ELSE p
      /\ \A t \in TCBs : Off(t) <=> t \notin Processors \ {Boot} /\ t # Main
      /\ \A t \in TCBs : ~Answered(t) /\ Live(t)
      /\ \A t \in Threads, x \in TCBs : ~AwaitsEnd(t, x)
      /\ \A p \in Processors, t \in Threads : ~Handoff(p, t)
  <2>1. \A p \in Processors, t \in TCBs : OnStack(p, t) <=> t = IF p = Boot THEN Main ELSE p
    BY <1>1 DEF OnStack
  <2>2. \A t \in TCBs : Off(t) <=> t \notin Processors \ {Boot} /\ t # Main
    BY <1>2, <2>1 DEF Off
  <2>3. \A t \in TCBs : ~Answered(t) /\ Live(t)
    <3>1. Range(ready) = {}
      BY <1>1, <1>4, EmptyRange
    <3>2. \A t \in TCBs : Live(t)
      BY <1>3 DEF Live
    <3>3. \A t \in TCBs : ~Answered(t)
      BY <1>1, <3>1, Names DEF Answered
    <3> QED BY <3>2, <3>3
  <2>4. \A t \in Threads, x \in TCBs : ~AwaitsEnd(t, x)
    BY <1>1, Names DEF AwaitsEnd
  <2>5. \A p \in Processors, t \in Threads : ~Handoff(p, t)
    BY <1>1, <1>2, <1>3, Names DEF Handoff
  <2> QED BY <2>1, <2>2, <2>3, <2>4, <2>5
<1> HIDE DEF Others
<1>11. Kinds
  BY <1>1, <1>2, <1>4, Names DEF Kinds
<1>12. BasesAtHome
  BY <1>1, <1>2, <1>3, <1>5, Names DEF BasesAtHome
<1>13. OneStack /\ OffResumes /\ FreshIsNone /\ NoneIsOff
  BY <1>1, <1>2, <1>3, <1>4, <1>5, Names DEF OneStack, OffResumes, FreshIsNone, NoneIsOff
<1>14. PicksToSwitch
  BY <1>1, <1>2, <1>3, <1>4, Names DEF PicksToSwitch
<1>15. RunningUntilSaved /\ EndingStops /\ EndingStays /\ RunnersRunable
  BY <1>1, <1>3, <1>4, <1>5, Names DEF RunningUntilSaved, EndingStops, EndingStays, RunnersRunable
<1>16. FromKnown /\ ReapsEnded /\ RequeuesRunable
  BY <1>1, <1>2, <1>3, Names DEF FromKnown, ReapsEnded, RequeuesRunable
<1>17. OneHandoff
  BY <1>5 DEF OneHandoff
<1>18. PlacedOnce
  <2>1. ready \in Seq(Threads) /\ Len(ready) = 0 /\ Range(ready) = {}
    BY <1>1, <1>4, EmptyRange
  <2>2. DOMAIN ready = 1 .. 0
    BY <2>1
  <2>3. IsInjective(ready)
    BY <2>2 DEF IsInjective
  <2> QED BY <1>1, <2>1, <2>3 DEF PlacedOnce
<1>19. AnsweredStopped /\ AnswerNotPending /\ RunnerAnswered
  BY <1>5, Names DEF AnsweredStopped, AnswerNotPending, RunnerAnswered
<1>20. WaiterStopped /\ JoinerStopped /\ JoinersWait
  BY <1>1, <1>3, <1>5, Names DEF WaiterStopped, JoinerStopped, JoinersWait
<1>21. EndSeen
  BY <1>1, <1>3, Names DEF EndSeen
<1> QED BY <1>11, <1>12, <1>13, <1>14, <1>15, <1>16, <1>17, <1>18, <1>19, <1>20, <1>21 DEF SchedInv

(* What the scheduler keeps is untouched. *)
LEMMA SchedStays ==
  ASSUME SchedInv,
         UNCHANGED <<program, state, joiner, ready, pc, stopAs, retTo, arg, from, cur, to, spinning, waiters>>
  PROVE  SchedInv'
<1> USE DEF Runner, Live, OnStack, Off, Answered, AwaitsEnd, Handoff, Stopped, GoesOn, SchedInv
<1>1. Kinds' /\ BasesAtHome' /\ OneStack' /\ OffResumes' /\ FreshIsNone' /\ NoneIsOff' /\ PicksToSwitch'
  BY DEF Kinds, BasesAtHome, OneStack, OffResumes, FreshIsNone, NoneIsOff, PicksToSwitch
<1>2. RunningUntilSaved' /\ EndingStops' /\ EndingStays' /\ RunnersRunable'
  BY DEF RunningUntilSaved, EndingStops, EndingStays, RunnersRunable
<1>3. FromKnown' /\ ReapsEnded' /\ RequeuesRunable' /\ OneHandoff'
  BY DEF FromKnown, ReapsEnded, RequeuesRunable, OneHandoff
<1>4. PlacedOnce' /\ AnsweredStopped' /\ AnswerNotPending' /\ RunnerAnswered'
  BY DEF PlacedOnce, AnsweredStopped, AnswerNotPending, RunnerAnswered
<1>5. WaiterStopped' /\ JoinerStopped' /\ JoinersWait' /\ EndSeen'
  BY DEF WaiterStopped, JoinerStopped, JoinersWait, EndSeen
<1> QED BY <1>1, <1>2, <1>3, <1>4, <1>5

(* A uthread_join or uthread_detach comes to its end, under the spinlock. *)
LEMMA JoinEndInv ==
  ASSUME SchedInv, Separate, UNCHANGED program, NEW p \in Processors, NEW t \in Threads,
         NEW l \in {"join", "joined", "detach"}, Runs(p, t, l), JoinEnd(t),
         UNCHANGED <<state, ready, stopAs, retTo, from, cur, to, spinning, waiters>>
  PROVE  SchedInv'
<1>1. Kinds /\ t \in TCBs
  BY Names DEF SchedInv
<1>2. arg' = [arg EXCEPT ![t] = NoThread] /\ Goto(t, "run")
  BY DEF JoinEnd
<1>3. joiner' = joiner \/ joiner' = [joiner EXCEPT ![arg[t]] = Detached]
  BY DEF JoinEnd, ClaimedJoiner
<1>4. arg' \in [TCBs -> Threads \cup {NoThread}] /\ \A u \in TCBs : u # t => arg'[u] = arg[u]
  BY <1>1, <1>2 DEF Kinds
<1>5. /\ joiner' \in [TCBs -> Threads \cup {NoThread, Detached}]
      /\ \A x \in TCBs : joiner'[x] = joiner[x] \/ joiner'[x] = Detached
  BY <1>1, <1>3 DEF Kinds
<1>6. Claiming(t, l, "run")
  BY DEF Claiming
<1> QED BY <1>1, <1>2, <1>4, <1>5, <1>6, MoveInv

(* The first test of uthread_join and uthread_detach, without the lock. *)
LEMMA ClaimInv ==
  ASSUME SchedInv, Separate, UNCHANGED program, NEW p \in Processors, JoinCheck(p) \/ DetachCheck(p)
  PROVE  SchedInv'
<1>1. PICK t, u \in Threads, l \in {"join", "detach"} :
        /\ Claims(p, t, u, l)
        /\ IF joiner[u] = NoThread THEN Goto(t, l) /\ arg' = [arg EXCEPT ![t] = u]
                                   ELSE UNCHANGED <<pc, arg>>
        /\ UNCHANGED <<state, joiner, freed, stopAs, retTo, from, cur, to, spinning, waiters, owed>>
        /\ NoEnqueue
  BY DEF JoinCheck, DetachCheck
<1>2. Kinds /\ t \in TCBs /\ ready' = ready
  BY <1>1, Names DEF SchedInv, NoEnqueue
<1>3. Runs(p, t, "run") /\ (l = "join" => ~Runner(t))
  BY <1>1 DEF Claims, Calls, Runner
<1>4. CASE joiner[u] = NoThread
  <2>1. Claiming(t, "run", l)
    BY <1>3 DEF Claiming
  <2>2. arg' \in [TCBs -> Threads \cup {NoThread}] /\ \A x \in TCBs : x # t => arg'[x] = arg[x]
    BY <1>1, <1>2, <1>4 DEF Kinds
  <2> QED BY <1>1, <1>2, <1>3, <1>4, <2>1, <2>2, MoveInv DEF Kinds
<1>5. CASE joiner[u] # NoThread
  BY <1>1, <1>2, <1>5, SchedStays
<1> QED BY <1>4, <1>5

(* The steps of a resumed thread before it acts, and of a pthread_base around its sleep. *)
LEMMA LookInv ==
  ASSUME SchedInv, Separate, UNCHANGED program, NEW p \in Processors,
         CheckDying(p) \/ CheckRunable(p) \/ PreSleep(p) \/ Sleep(p) \/ Awake(p)
  PROVE  SchedInv'
<1> USE DEF SchedInv, prog
<1>1. UNCHANGED <<state, ready, stopAs, retTo, from, cur, to, spinning, waiters, arg, joiner>>
  BY DEF CheckDying, CheckRunable, PreSleep, Sleep, Awake, idle
<1>2. PICK t \in TCBs, l, m \in Places :
        Runs(p, t, l) /\ Goto(t, m) /\ (Resuming(t, l, m) \/ Dozing(t, l, m))
  <2>1. CASE CheckDying(p)
    <3>1. PICK t \in TCBs : /\ Runs(p, t, "resume")
                            /\ Goto(t, IF state[from[t]] = "DYING" THEN "reap" ELSE NotDying)
      BY <2>1 DEF CheckDying
    <3>2. NotDying = "recheck" /\ (state[from[t]] = "DYING" => ~Live(from[t]))
      BY DEF NotDying, Separate, Live
    <3> QED BY <3>1, <3>2 DEF Resuming, Places
  <2>2. CASE CheckRunable(p)
    <3>1. PICK t \in TCBs : /\ Runs(p, t, "recheck")
                            /\ Goto(t, IF MustRequeue(from[t]) THEN "requeue" ELSE "enter")
      BY <2>2 DEF CheckRunable
    <3> QED BY <3>1 DEF Resuming, Places, MustRequeue
  <2>3. CASE PreSleep(p)
    <3>1. Runs(p, p, "stop") /\ Goto(p, "presleep") /\ Dozing(p, "stop", "presleep")
      BY <2>3 DEF PreSleep, Dozing
    <3> QED BY <3>1, Names DEF Places
  <2>4. CASE Sleep(p)
    <3>1. Runs(p, p, "presleep") /\ Goto(p, "asleep") /\ Dozing(p, "presleep", "asleep")
      BY <2>4 DEF Sleep, Dozing
    <3> QED BY <3>1, Names DEF Places
  <2>5. CASE Awake(p)
    <3>1. Runs(p, p, "asleep") /\ Goto(p, "stop") /\ Dozing(p, "asleep", "stop")
      BY <2>5 DEF Awake, Dozing
    <3> QED BY <3>1, Names DEF Places
  <2> QED BY <2>1, <2>2, <2>3, <2>4, <2>5
<1>3. Kinds
  OBVIOUS
<1> HIDE DEF SchedInv
<1> QED BY <1>1, <1>2, <1>3, MoveInv DEF Kinds

(* The ways a thread stops, other than at its end. *)
LEMMA CallsStopInv ==
  ASSUME SchedInv, Separate, UNCHANGED program, NEW p \in Processors,
         Yield(p) \/ Block(p) \/ Wait(p) \/ Park(p) \/ JoinLocked(p)
  PROVE  SchedInv'
<1>1. CASE Yield(p)
  <2>1. PICK t \in Threads : /\ Calls(p, t, "yield") /\ YieldFirst(t) /\ Stop(t, "RUNABLE", "run")
                             /\ UNCHANGED <<state, joiner, arg, freed, from, cur, to, spinning, waiters>>
    BY <1>1 DEF Yield
  <2>2. Runner(t) /\ Runs(p, t, "run") /\ ready' = ready
    BY <2>1 DEF Calls, Runner, YieldFirst, Separate, NoEnqueue
  <2> QED BY <2>1, <2>2, StopInv
<1>2. CASE Block(p)
  <2>1. PICK t \in Threads : /\ Calls(p, t, "block") /\ Stop(t, "BLOCKED", "run") /\ NoEnqueue
                             /\ UNCHANGED <<state, joiner, arg, freed, from, cur, to, spinning, waiters>>
    BY <1>2 DEF Block
  <2>2. Runs(p, t, "run") /\ ready' = ready
    BY <2>1 DEF Calls, NoEnqueue
  <2> QED BY <2>1, <2>2, StopInv
<1>3. CASE Wait(p)
  <2>1. PICK t \in Threads : /\ Calls(p, t, "wait") /\ Stop(t, "BLOCKED", "run") /\ NoEnqueue
                             /\ waiters' = waiters \cup {t}
                             /\ UNCHANGED <<state, joiner, arg, freed, from, cur, to, spinning>>
    BY <1>3 DEF Wait
  <2>2. Runs(p, t, "run") /\ ready' = ready /\ ~Runner(t)
    BY <2>1 DEF Calls, NoEnqueue, Runner
  <2> QED BY <2>1, <2>2, StopInv
<1>4. CASE Park(p)
  <2>1. PICK t \in Threads : /\ Runs(p, t, "run") /\ Stop(t, "BLOCKED", "run") /\ NoEnqueue
                             /\ UNCHANGED <<state, joiner, arg, freed, from, cur, to, spinning, waiters>>
    BY <1>4 DEF Park, prog
  <2>2. ready' = ready
    BY <2>1 DEF NoEnqueue
  <2> QED BY <2>1, <2>2, StopInv
<1>5. CASE JoinLocked(p)
  <2>1. PICK t \in Threads :
          /\ Runs(p, t, "join") /\ NoEnqueue
          /\ IF state[arg[t]] \notin {"DYING", "DEAD"}
               THEN joiner' = [joiner EXCEPT ![arg[t]] = t] /\ Stop(t, "BLOCKED", "joined") /\ UNCHANGED arg
               ELSE JoinEnd(t) /\ UNCHANGED <<stopAs, retTo>>
          /\ UNCHANGED <<state, from, cur, to, spinning, waiters>>
    BY <1>5 DEF JoinLocked, prog
  <2>2. ready' = ready
    BY <2>1 DEF NoEnqueue
  <2>3. CASE state[arg[t]] \notin {"DYING", "DEAD"}
    <3>1. ~Runner(t)
      BY <2>1 DEF SchedInv, JoinersWait, Runs
    <3> QED BY <2>1, <2>2, <2>3, <3>1, StopInv
  <2>4. CASE state[arg[t]] \in {"DYING", "DEAD"}
    BY <2>1, <2>2, <2>4, JoinEndInv
  <2> QED BY <2>3, <2>4
<1> QED BY <1>1, <1>2, <1>3, <1>4, <1>5

(* Every step keeps the invariant. *)
LEMMA SchedStep == SchedInv /\ Separate /\ [Next]_vars => SchedInv'
<1> SUFFICES ASSUME SchedInv, Separate, [Next]_vars PROVE SchedInv'
  OBVIOUS
<1>1. CASE UNCHANGED vars
  BY <1>1, SchedStays DEF vars, sched, prog
<1>2. ASSUME NEW p \in Processors, SpuriousWakeup(p), UNCHANGED program PROVE SchedInv'
  BY <1>2, SchedStays DEF SpuriousWakeup, sched, prog
<1>3. ASSUME NEW p \in Processors, Call(p), UNCHANGED program PROVE SchedInv'
  <2>1. ~Unblock(p)
    BY DEF Separate, Unblock, Calls
  <2> QED BY <1>3, <2>1, CreateInv, WakeInv, ClaimInv, CallsStopInv DEF Call
<1>4. ASSUME NEW p \in Processors, Kernel(p), UNCHANGED program PROVE SchedInv'
  <2>1. ~BaseYields(p)
    BY DEF SchedInv, BasesAtHome, BaseYields, Runs
  <2>2. CASE Joined(p)
    <3>1. PICK t \in Threads : /\ Runs(p, t, "joined") /\ JoinEnd(t) /\ NoEnqueue
                               /\ UNCHANGED <<state, stopAs, retTo, from, cur, to, spinning, waiters>>
      BY <2>2 DEF Joined, prog
    <3> QED BY <1>4, <3>1, JoinEndInv DEF NoEnqueue
  <2>3. CASE DetachLocked(p)
    <3>1. PICK t \in Threads : /\ Runs(p, t, "detach") /\ JoinEnd(t) /\ NoEnqueue
                               /\ UNCHANGED <<state, stopAs, retTo, from, cur, to, spinning, waiters>>
      BY <2>3 DEF DetachLocked, prog
    <3> QED BY <1>4, <3>1, JoinEndInv DEF NoEnqueue
  <2>4. CASE Exit(p) \/ Requeue(p) \/ Enter(p) \/ Reap(p) \/ SaveState(p) \/ LoadStack(p) \/ Dequeue(p)
    BY <1>4, <2>4, ExitInv, RequeueInv, EnterInv, ReapInv, SaveStateInv, LoadStackInv, DequeueInv
  <2> QED BY <1>4, <2>1, <2>2, <2>3, <2>4, LookInv, CallsStopInv DEF Kernel
<1> QED BY <1>1, <1>2, <1>3, <1>4 DEF Next, Step

(* The idle processors: those in the loop of pthread_base, and those of them that are
   awake and on their way to the ready queue. *)
Dozy(q) == OnStack(q, q) /\ pc[q] \in {"presleep", "asleep", "stop"}
Woken == { p \in Processors : p \notin condwait /\ OnStack(p, p) /\ pc[p] \in {"asleep", "stop"} }

(* A step that leaves every idle processor where it is. *)
Undisturbed == \A q \in Processors :
  /\ Dozy(q) => Dozy(q)' /\ pc'[q] = pc[q]
  /\ pc'[q] \in {"presleep", "asleep"} => pc'[q] = pc[q]

LEMMA FiniteProcessors ==
  /\ IsFiniteSet(Processors) /\ IsFiniteSet(Woken) /\ IsFiniteSet(Asleep)
  /\ Cardinality(Woken) \in Nat /\ Cardinality(Asleep) \in Nat
<1>1. Woken \subseteq Processors /\ Asleep \subseteq Processors
  BY DEF Woken, Asleep
<1> QED BY <1>1, BootAssumption, FS_Subset, FS_CardinalityType

LEMMA SleepStays ==
  ASSUME Seats, SleepInv, Undisturbed, UNCHANGED <<ready, pmutex, numSleeping>>,
         condwait' \subseteq condwait
  PROVE  SleepInv'
<1>1. \A q \in Processors : pc[q] \in {"presleep", "asleep"} <=> pc'[q] \in {"presleep", "asleep"}
  BY DEF SleepInv, Undisturbed, Dozy
<1>2. \A q \in Processors : pc[q] \in {"presleep", "asleep"} => pc'[q] = pc[q] /\ OnStack(q, q)'
  BY DEF SleepInv, Undisturbed, Dozy
<1>3. Asleep' = Asleep
  BY <1>1, <1>2 DEF Asleep
<1>4. Woken \subseteq Woken'
  BY DEF Woken, Undisturbed, Dozy
<1>5. NoLostWakeup'
  <2>1. IsFiniteSet(Woken') /\ Cardinality(Woken) <= Cardinality(Woken')
    <3>1. Woken' \subseteq Processors
      BY DEF Woken
    <3>2. IsFiniteSet(Woken')
      BY <3>1, FS_Subset, BootAssumption
    <3> QED BY <1>4, <3>2, FS_Subset
  <2>2. Cardinality(Woken) \in Nat /\ Cardinality(Woken') \in Nat
    BY <2>1, FiniteProcessors, FS_CardinalityType
  <2>3. ready \in Seq(Threads)
    BY DEF Seats, Kinds
  <2>4. condwait # {} => Len(ready) <= Cardinality(Woken)
    BY DEF SleepInv, NoLostWakeup, Woken
  <2>5. condwait' # {} => Len(ready') <= Cardinality(Woken')
    BY <2>1, <2>2, <2>3, <2>4
  <2> QED BY <2>5 DEF NoLostWakeup, Woken
<1> QED BY <1>1, <1>2, <1>3, <1>5 DEF SleepInv

(* A thread that gets ready takes an idle processor with it, if one sleeps. *)
LEMMA SleepEnqueues ==
  ASSUME Seats, SleepInv, Undisturbed, NEW x \in Threads, x \notin Range(ready), ReadyEnqueue(x)
  PROVE  SleepInv'
<1>1. \A q \in Processors : pc[q] \in {"presleep", "asleep"} <=> pc'[q] \in {"presleep", "asleep"}
  BY DEF SleepInv, Undisturbed, Dozy
<1>2. \A q \in Processors : pc[q] \in {"presleep", "asleep"} => pc'[q] = pc[q] /\ OnStack(q, q)'
  BY DEF SleepInv, Undisturbed, Dozy
<1>3. Asleep' = Asleep
  BY <1>1, <1>2 DEF Asleep
<1>4. /\ pmutex = NoThread /\ pmutex' = NoThread /\ numSleeping' = numSleeping
      /\ condwait' \subseteq condwait /\ Len(ready) \in Nat /\ Len(ready') = Len(ready) + 1
  BY Enqueues, EmptyRange DEF ReadyEnqueue, Seats, PlacedOnce, Kinds
<1>5. NoLostWakeup'
  <2>1. CASE condwait' = {}
    BY <2>1 DEF NoLostWakeup
  <2>2. CASE condwait' # {}
    <3>1. numSleeping > 0
      <4>1. Asleep # {}
        BY <1>4, <2>2 DEF SleepInv
      <4> QED BY <4>1, FiniteProcessors, FS_EmptySet DEF SleepInv
    <3>2. PICK q \in condwait : condwait' = condwait \ {q}
      BY <1>4, <2>2, <3>1 DEF ReadyEnqueue
    <3>3. q \in Processors /\ pc[q] = "asleep" /\ OnStack(q, q) /\ q \notin Woken
      BY DEF SleepInv, Asleep, Woken
    <3>4. Woken \cup {q} \subseteq Woken'
      BY <3>2, <3>3 DEF Woken, Undisturbed, Dozy
    <3>5. IsFiniteSet(Woken') /\ Woken' \subseteq Processors
      <4>1. Woken' \subseteq Processors
        BY DEF Woken
      <4> QED BY <4>1, FS_Subset, BootAssumption
    <3>6. Cardinality(Woken \cup {q}) = Cardinality(Woken) + 1
      BY <3>3, FiniteProcessors, FS_AddElement
    <3>7. Cardinality(Woken \cup {q}) <= Cardinality(Woken')
      BY <3>4, <3>5, FS_Subset
    <3>8. Len(ready) <= Cardinality(Woken)
      BY <2>2, <3>2 DEF SleepInv, NoLostWakeup, Woken
    <3>9. Len(ready') <= Cardinality(Woken')
      BY <1>4, <3>5, <3>6, <3>7, <3>8, FiniteProcessors, FS_CardinalityType
    <3> QED BY <3>9 DEF NoLostWakeup, Woken
  <2> QED BY <2>1, <2>2
<1> QED BY <1>1, <1>2, <1>3, <1>4, <1>5 DEF SleepInv

(* A processor that finds a thread does not look for another one. *)
LEMMA SleepDequeue ==
  ASSUME Seats, SleepInv, NEW p \in Processors, Dequeue(p)
  PROVE  SleepInv'
<1>1. PICK t \in TCBs : /\ Runs(p, t, "stop") /\ Goto(t, "switch")
                        /\ (ready' = Tail(ready) /\ ready # <<>>) \/ (ready' = ready /\ ready = <<>>)
                        /\ UNCHANGED <<cur, spinning, pmutex, numSleeping, condwait>>
  BY DEF Dequeue, TakeHead, idle
<1>2. /\ \A q \in Processors : pc'[q] = IF q = t THEN "switch" ELSE pc[q]
      /\ pc[t] = "stop" /\ cur[p] = t
  BY <1>1, Names DEF Goto, Runs, Seats, Kinds
<1>3. \A q \in Processors : q # p => q # t
  BY <1>2 DEF Seats, BasesAtHome
<1>4. /\ \A q \in Processors : pc[q] \in {"presleep", "asleep"} <=> pc'[q] \in {"presleep", "asleep"}
      /\ \A q \in Processors : pc[q] \in {"presleep", "asleep"} => pc'[q] = pc[q]
      /\ \A q \in Processors : OnStack(q, q)' <=> OnStack(q, q)
  BY <1>1, <1>2 DEF OnStack
<1>5. Asleep' = Asleep
  BY <1>4 DEF Asleep
<1>6. Woken \ {p} \subseteq Woken'
  BY <1>1, <1>2, <1>3, <1>4 DEF Woken
<1>7. Len(ready) \in Nat /\ (ready' = <<>> \/ Len(ready') = Len(ready) - 1) /\ Len(<<>>) = 0
  BY <1>1, TakesHead, EmptyRange DEF Seats, PlacedOnce, Kinds
<1>8. NoLostWakeup'
  <2>1. IsFiniteSet(Woken')
    <3>1. Woken' \subseteq Processors
      BY DEF Woken
    <3> QED BY <3>1, FS_Subset, BootAssumption
  <2>2. Cardinality(Woken \ {p}) <= Cardinality(Woken')
    BY <1>6, <2>1, FS_Subset
  <2>3. Cardinality(Woken) - 1 <= Cardinality(Woken \ {p})
    <3>1. Cardinality(Woken \ {p}) = IF p \in Woken THEN Cardinality(Woken) - 1 ELSE Cardinality(Woken)
      BY FiniteProcessors, FS_RemoveElement
    <3> QED BY <3>1, FiniteProcessors
  <2>4. Cardinality(Woken') \in Nat /\ Cardinality(Woken \ {p}) \in Nat
    BY <2>1, FiniteProcessors, FS_RemoveElement, FS_CardinalityType
  <2>5. condwait # {} => Len(ready) <= Cardinality(Woken)
    BY DEF SleepInv, NoLostWakeup, Woken
  <2>6. condwait' # {} => Len(ready') <= Cardinality(Woken')
    BY <1>1, <1>7, <2>2, <2>3, <2>4, <2>5, FiniteProcessors
  <2> QED BY <2>6 DEF NoLostWakeup, Woken
<1>9. pmutex' # NoThread => ready' = <<>>
  BY <1>1 DEF SleepInv
<1> QED BY <1>1, <1>4, <1>5, <1>8, <1>9 DEF SleepInv

LEMMA SleepInit == Init /\ IdleSleep => SleepInv
<1> SUFFICES ASSUME Init, IdleSleep PROVE SleepInv
  OBVIOUS
<1>1. \A p \in Processors : pc[p] \notin {"presleep", "asleep"}
  BY Starts, Names
<1>2. Asleep = {} /\ Cardinality({}) = 0
  BY <1>1, FS_EmptySet DEF Asleep
<1>3. condwait = {} /\ numSleeping = 0 /\ pmutex = NoThread
  BY DEF Init
<1> QED BY <1>1, <1>2, <1>3 DEF SleepInv, NoLostWakeup

(* A processor falls asleep only when the queue is empty, and wakes into another look. *)
LEMMA SleepDozes ==
  ASSUME Seats, SleepInv, NEW p \in Processors, PreSleep(p) \/ Sleep(p) \/ Awake(p)
  PROVE  SleepInv'
<1>1. /\ cur' = cur /\ spinning' = spinning /\ ready' = ready
      /\ \A q \in Processors : OnStack(q, q)' <=> OnStack(q, q)
      /\ OnStack(p, p)
  BY DEF PreSleep, Sleep, Awake, OnStack, Runs
<1>2. ASSUME NEW m \in Places, Goto(p, m)
      PROVE  \A q \in Processors : pc'[q] = IF q = p THEN m ELSE pc[q]
  BY <1>2, Names DEF Goto, Seats, Kinds
<1>3. ready = <<>> => NoLostWakeup'
  <2>1. Cardinality(Woken') \in Nat /\ Len(<<>>) = 0
    <3>1. Woken' \subseteq Processors
      BY DEF Woken
    <3> QED BY <3>1, FS_Subset, FS_CardinalityType, BootAssumption
  <2> QED BY <1>1, <2>1 DEF NoLostWakeup, Woken
<1>4. CASE PreSleep(p)
  <2>1. /\ ready = <<>> /\ pmutex = NoThread /\ pmutex' = p /\ pc[p] = "stop"
        /\ condwait' = condwait /\ numSleeping' = numSleeping
        /\ \A q \in Processors : pc'[q] = IF q = p THEN "presleep" ELSE pc[q]
    BY <1>2, <1>4 DEF PreSleep, PreSleepHolder, Runs, Places
  <2>2. Asleep' = Asleep
    BY <2>1 DEF Asleep
  <2>3. \A q \in Processors : pc[q] # "presleep"
    BY <2>1, Names DEF SleepInv
  <2> QED BY <1>1, <1>3, <2>1, <2>2, <2>3 DEF SleepInv
<1>5. CASE Sleep(p)
  <2>1. /\ pc[p] = "presleep" /\ pmutex' = NoThread
        /\ condwait' = condwait \cup {p} /\ numSleeping' = numSleeping + 1
        /\ \A q \in Processors : pc'[q] = IF q = p THEN "asleep" ELSE pc[q]
    BY <1>2, <1>5 DEF Sleep, Runs, Places
  <2>2. ready = <<>> /\ \A q \in Processors : pc[q] = "presleep" => q = p
    BY <2>1, Names DEF SleepInv
  <2>3. Asleep' = Asleep \cup {p} /\ p \notin Asleep
    BY <2>1 DEF Asleep
  <2>4. Cardinality(Asleep') = Cardinality(Asleep) + 1
    BY <2>3, FiniteProcessors, FS_AddElement
  <2> QED BY <1>1, <1>3, <2>1, <2>2, <2>3, <2>4 DEF SleepInv
<1>6. CASE Awake(p)
  <2>1. /\ pc[p] = "asleep" /\ p \notin condwait /\ pmutex = NoThread /\ pmutex' = pmutex
        /\ condwait' = condwait /\ numSleeping' = numSleeping - 1
        /\ \A q \in Processors : pc'[q] = IF q = p THEN "stop" ELSE pc[q]
    BY <1>2, <1>6 DEF Awake, AwakeCount, Runs, Places
  <2>2. Asleep' = Asleep \ {p} /\ p \in Asleep
    BY <2>1 DEF Asleep
  <2>3. Cardinality(Asleep') = Cardinality(Asleep) - 1
    BY <2>2, FiniteProcessors, FS_RemoveElement
  <2>4. Woken' = Woken
    BY <1>1, <2>1 DEF Woken
  <2>5. NoLostWakeup'
    BY <1>1, <2>1, <2>4 DEF SleepInv, NoLostWakeup, Woken
  <2>6. condwait' \subseteq Asleep'
    BY <2>1, <2>2 DEF SleepInv
  <2>7. \A q \in Processors : pc'[q] \in {"presleep", "asleep"} => OnStack(q, q)'
    BY <1>1, <2>1 DEF SleepInv
  <2>8. \A q \in Processors : pc'[q] = "presleep" => pmutex' = q
    BY <2>1 DEF SleepInv
  <2> QED BY <1>1, <2>1, <2>3, <2>5, <2>6, <2>7, <2>8 DEF SleepInv
<1> QED BY <1>4, <1>5, <1>6

(* Whatever a thread does on its own stack leaves the idle processors alone. *)
LEMMA Elsewhere ==
  ASSUME Seats, NEW t \in TCBs, NEW m \in Places \ {"presleep", "asleep"}, Goto(t, m),
         t \in Threads \/ pc[t] \notin {"presleep", "asleep", "stop"}, cur' = cur,
         spinning' = spinning \/ \E p \in Processors : spinning' = spinning \cup {p} /\ cur[p] = t
  PROVE  Undisturbed
<1>1. \A q \in Processors : pc'[q] = IF q = t THEN m ELSE pc[q]
  BY Names DEF Goto, Seats, Kinds
<1>2. \A q \in Processors : Dozy(q) => q # t
  BY Names DEF Dozy
<1>3. \A q \in Processors : Dozy(q) => OnStack(q, q)'
  BY <1>2 DEF Dozy, OnStack
<1> QED BY <1>1, <1>2, <1>3 DEF Undisturbed, Dozy

(* The steps that make a thread ready. *)
LEMMA SleepReadies ==
  ASSUME SchedInv, SleepInv, NEW p \in Processors,
         Requeue(p) \/ Wake(p) \/ Create(p) \/ Exit(p)
  PROVE  SleepInv'
<1>0. Seats
  BY DEF SchedInv, Seats
<1>1. CASE Requeue(p)
  <2> DEFINE f == from[cur[p]]
  <2>1. /\ p \notin spinning /\ cur[p] \in TCBs /\ pc[cur[p]] = "requeue" /\ Goto(cur[p], "enter")
        /\ cur' = cur /\ spinning' = spinning /\ ReadyEnqueue(f)
    BY <1>1 DEF Requeue, Runs
  <2>2. f \in Threads /\ f \notin Range(ready)
    BY <2>1, RequeuedOff DEF Answered
  <2>3. Undisturbed
    BY <1>0, <2>1, Elsewhere DEF Places
  <2> QED BY <1>0, <2>1, <2>2, <2>3, SleepEnqueues
<1>2. CASE Wake(p)
  <2>1. PICK u \in waiters : ReadyEnqueue(u) /\ UNCHANGED <<pc, cur, spinning>>
    BY <1>2 DEF Wake
  <2>2. u \in Threads /\ u \notin Range(ready)
    BY <2>1 DEF SchedInv, Kinds, AnswerNotPending, Answered
  <2>3. Undisturbed
    BY <2>1 DEF Undisturbed, Dozy, OnStack
  <2> QED BY <1>0, <2>1, <2>2, <2>3, SleepEnqueues
<1>3. CASE Create(p)
  <2>1. PICK c \in Threads : /\ state[c] = "NONE" /\ Goto(c, "resume") /\ ReadyEnqueue(c)
                             /\ UNCHANGED <<cur, spinning>>
    BY <1>3 DEF Create, NewThread
  <2>2. c \notin Range(ready)
    BY <2>1 DEF SchedInv, FreshIsNone, AnsweredStopped, Stopped, Answered
  <2>3. Undisturbed
    BY <1>0, <2>1, Elsewhere, Names DEF Places
  <2> QED BY <1>0, <2>1, <2>2, <2>3, SleepEnqueues
<1>4. CASE Exit(p)
  <2> DEFINE t == cur[p]
             j == joiner[t]
  <2>1. /\ p \notin spinning /\ t \in Threads /\ t \in TCBs /\ pc[t] = "run" /\ Goto(t, "stop")
        /\ UNCHANGED <<cur, spinning>> /\ OnStack(p, t)
        /\ IF j \notin {NoThread, Detached} THEN ReadyEnqueue(j) ELSE NoEnqueue
    BY <1>4, Names DEF Exit, Runs, Stop, OnStack
  <2>2. Undisturbed
    BY <1>0, <2>1, Elsewhere DEF Places
  <2>3. CASE j \in Threads
    <3>1. AwaitsEnd(j, t)
      BY <2>1, Executes DEF AwaitsEnd
    <3>2. j \notin Range(ready)
      BY <2>1, <2>3, <3>1 DEF SchedInv, AnswerNotPending, Answered
    <3>3. ReadyEnqueue(j)
      BY <2>1, <2>3, Names, NullAssumption
    <3> QED BY <1>0, <2>2, <2>3, <3>2, <3>3, SleepEnqueues
  <2>4. CASE j \notin Threads
    <3>1. j \in {NoThread, Detached}
      BY <2>1, <2>4 DEF SchedInv, Kinds
    <3>2. NoEnqueue
      BY <2>1, <3>1
    <3> QED BY <1>0, <2>2, <3>2, SleepStays DEF NoEnqueue, idle
  <2> QED BY <2>3, <2>4
<1> QED BY <1>1, <1>2, <1>3, <1>4

(* The other steps of a processor: they neither make threads ready nor take them. *)
LEMMA SleepElsewhere ==
  ASSUME Seats, SleepInv, IdleSleep, NEW p \in Processors,
         \/ SaveState(p) \/ LoadStack(p) \/ CheckDying(p) \/ Reap(p) \/ CheckRunable(p) \/ Enter(p)
         \/ Yield(p) \/ Block(p) \/ Wait(p) \/ Park(p)
         \/ JoinCheck(p) \/ DetachCheck(p) \/ JoinLocked(p) \/ Joined(p) \/ DetachLocked(p)
  PROVE  SleepInv'
<1>1. UNCHANGED <<ready, idle>> /\ (cur' = cur \/ LoadStack(p))
  BY DEF SaveState, LoadStack, CheckDying, Reap, CheckRunable, Enter, Yield, YieldFirst,
         Block, Wait, Park, JoinCheck, DetachCheck, JoinLocked, Joined, DetachLocked, NoEnqueue, idle
<1>2. Undisturbed
  <2>1. CASE LoadStack(p)
    BY <2>1 DEF LoadStack, Undisturbed, Dozy, OnStack, Seats, Kinds
  <2>2. CASE SaveState(p)
    <3>1. PICK t \in TCBs : /\ cur[p] = t /\ pc[t] = "switch" /\ Goto(t, "resume")
                            /\ cur' = cur /\ spinning' = spinning \cup {p}
      BY <2>2 DEF SaveState, Runs
    <3> QED BY <3>1, Elsewhere DEF Places
  <2>3. CASE CheckDying(p) \/ Reap(p) \/ CheckRunable(p) \/ Enter(p)
    <3>1. PICK t \in TCBs, m \in Places \ {"presleep", "asleep"} :
             /\ pc[t] \in {"resume", "reap", "recheck", "enter"} /\ Goto(t, m)
             /\ cur' = cur /\ spinning' = spinning
      <4>1. CASE CheckDying(p) \/ Reap(p) \/ CheckRunable(p)
        BY <4>1 DEF CheckDying, Reap, CheckRunable, Runs, NotDying, Places
      <4>2. CASE Enter(p)
        <5>1. \A t \in TCBs : retTo[t] \in {"run", "stop", "joined"}
          BY DEF Seats, Kinds
        <5> QED BY <4>2, <5>1 DEF Enter, Runs, BaseCode, Places
      <4> QED BY <2>3, <4>1, <4>2
    <3> QED BY <3>1, Elsewhere
  <2>4. CASE Yield(p) \/ Block(p) \/ Wait(p) \/ Park(p) \/ JoinLocked(p) \/ Joined(p) \/ DetachLocked(p)
    <3>1. PICK t \in Threads, m \in {"stop", "run"} : Goto(t, m) /\ cur' = cur /\ spinning' = spinning
      BY <2>4 DEF Yield, Block, Wait, Park, JoinLocked, Joined, DetachLocked, Stop, JoinEnd
    <3> QED BY <3>1, Elsewhere, Names DEF Places
  <2>5. CASE JoinCheck(p) \/ DetachCheck(p)
    <3>1. PICK t \in Threads, m \in {"join", "detach"} :
             (Goto(t, m) \/ pc' = pc) /\ cur' = cur /\ spinning' = spinning
      BY <2>5 DEF JoinCheck, DetachCheck
    <3>2. CASE pc' = pc
      BY <3>1, <3>2 DEF Undisturbed, Dozy, OnStack
    <3>3. CASE Goto(t, m)
      BY <3>1, <3>3, Elsewhere, Names DEF Places
    <3> QED BY <3>1, <3>2, <3>3
  <2> QED BY <2>1, <2>2, <2>3, <2>4, <2>5
<1> QED BY <1>1, <1>2, SleepStays DEF idle

LEMMA SleepStep == SchedInv /\ SleepInv /\ Separate /\ [Next]_vars => SleepInv'
<1> SUFFICES ASSUME SchedInv, SleepInv, Separate, [Next]_vars PROVE SleepInv'
  OBVIOUS
<1>0. Seats /\ IdleSleep
  BY DEF SchedInv, Seats, Separate
<1>1. CASE UNCHANGED vars
  <2>1. Undisturbed
    BY <1>1 DEF vars, sched, Undisturbed, Dozy, OnStack
  <2> QED BY <1>0, <1>1, <2>1, SleepStays DEF vars, sched, idle
<1>2. ASSUME NEW p \in Processors, SpuriousWakeup(p) PROVE SleepInv'
  <2>1. Undisturbed
    BY <1>2 DEF SpuriousWakeup, sched, Undisturbed, Dozy, OnStack
  <2> QED BY <1>0, <1>2, <2>1, SleepStays DEF SpuriousWakeup, sched
<1>3. ASSUME NEW p \in Processors, Call(p) PROVE SleepInv'
  <2>1. ~Unblock(p)
    BY DEF Separate, Unblock, Calls
  <2> QED BY <1>0, <1>3, <2>1, SleepReadies, SleepElsewhere DEF Call
<1>4. ASSUME NEW p \in Processors, Kernel(p) PROVE SleepInv'
  <2>1. ~BaseYields(p)
    BY DEF SchedInv, BasesAtHome, BaseYields, Runs
  <2> QED BY <1>0, <1>4, <2>1, SleepReadies, SleepElsewhere, SleepDozes, SleepDequeue DEF Kernel
<1> QED BY <1>1, <1>2, <1>3, <1>4 DEF Next, Step

(* The invariants of the runs follow. *)
LEMMA SchedProtects ==
  ASSUME SchedInv, SleepInv
  PROVE  OneProcessor /\ NoStrayReady /\ NoLostWakeup /\ JoinAfterExit
<1> USE DEF SchedInv
<1>1. OneProcessor
  BY DEF OneProcessor, OneStack, PlacedOnce
<1>2. NoStrayReady
  <2> SUFFICES ASSUME NEW t \in Range(ready)
               PROVE  /\ pc[t] \in {"stop", "switch", "resume"}
                      /\ \A p \in Processors : to[p] # t /\ (OnStack(p, t) => pc[t] # "resume")
    BY DEF NoStrayReady
  <2>1. t \in Threads
    BY EmptyRange DEF Kinds
  <2>2. Stopped(t)
    BY <2>1 DEF AnsweredStopped, Answered
  <2> QED BY <2>2 DEF Stopped, Off, PlacedOnce
<1>3. NoLostWakeup
  BY DEF SleepInv
<1>4. JoinAfterExit
  <2> SUFFICES ASSUME NEW t \in Threads, pc[t] = "joined" PROVE state[arg[t]] \in {"DYING", "DEAD"}
    BY DEF JoinAfterExit
  <2> QED BY DEF EndSeen, Live
<1> QED BY <1>1, <1>2, <1>3, <1>4

(* A disciplined program stays one, and the scheduler keeps order under it. *)
LEMMA DisciplinedAlways == Spec /\ Separate => [](Separate /\ SchedInv /\ SleepInv)
<1>1. Init /\ Separate => Separate /\ SchedInv /\ SleepInv
  BY SchedInit, SleepInit DEF Separate
<1>2. Separate /\ SchedInv /\ SleepInv /\ [Next]_vars => Separate' /\ SchedInv' /\ SleepInv'
  <2> SUFFICES ASSUME Separate, SchedInv, SleepInv, [Next]_vars
               PROVE  Separate' /\ SchedInv' /\ SleepInv'
    OBVIOUS
  <2>1. program' = program
    BY DEF Next, Step, vars
  <2>2. Separate'
    BY <2>1 DEF Separate, IdleSleep, Runner
  <2> QED BY <2>2, SchedStep, SleepStep
<1> QED BY <1>1, <1>2, PTL DEF Spec

-----------------------------------------------------------------------------
(* The discipline of uthread_unblock: the program only blocks its threads and unblocks them,
   each once for a block that may not have come yet. *)
Unblocking == /\ IdleSleep /\ ~AnyUnblock
              /\ \A t \in Threads : program.calls[t] \subseteq {"create", "block", "unblock"}

(* A thread on the way from having been picked to the return of its uthread_block. *)
Entering(t) == ~Off(t) /\ pc[t] \in {"resume", "recheck", "enter"}

OnlyBlocks ==
  /\ owed \subseteq Threads
  /\ \A t \in TCBs : /\ state[t] \in {"NONE", "NASCENT", "RUNNING", "BLOCKED"} /\ stopAs[t] = "BLOCKED"
                     /\ pc[t] \notin {"reap", "requeue", "join", "joined", "detach"}
  /\ \A t \in Threads : /\ retTo[t] = "run"
                        /\ pc[t] = "none" <=> state[t] = "NONE"
                        /\ pc[t] \in {"run", "stop", "switch"} => state[t] = "RUNNING"

(* One answer for a block, on the ready queue, picked, or being executed, and never lost. *)
OneAnswer == \A t \in Threads :
  /\ Entering(t) => ~Answered(t)
  /\ Entering(t) \/ Answered(t) => t \in owed \/ state[t] = "NASCENT"
  /\ t \in owed => (Entering(t) \/ Answered(t)) /\ state[t] # "NONE"

UnblockInv == /\ Kinds /\ BasesAtHome /\ OneStack /\ OffResumes /\ NoneIsOff /\ PicksToSwitch /\ FromKnown
              /\ PlacedOnce /\ OnlyBlocks /\ OneAnswer

LEMMA UnblockInit == Init /\ Unblocking => UnblockInv
<1> SUFFICES ASSUME Init, Unblocking PROVE UnblockInv
  OBVIOUS
<1> DEFINE Others == program.processors \ {Boot}
<1>1. /\ joiner = [t \in TCBs |-> NoThread] /\ ready = <<>> /\ owed = {}
      /\ stopAs = [t \in TCBs |-> "BLOCKED"]
      /\ retTo = [t \in TCBs |-> IF t \in Processors THEN "stop" ELSE "run"]
      /\ arg = [t \in TCBs |-> NoThread] /\ from = [t \in TCBs |-> NoThread]
      /\ cur = [p \in Processors |-> IF p = Boot THEN Main ELSE p]
      /\ to = [p \in Processors |-> NoThread] /\ spinning = {} /\ waiters = {}
  BY DEF Init, Unblocking, InitialReady, BaseCode
<1>2. Main \in Threads /\ Boot \in Processors /\ Main # Boot /\ Main \notin Others
  BY ThreadsAssumption, BootAssumption, ProgramsAssumption DEF Init
<1>3. \A t \in TCBs : /\ state[t] = "RUNNING" <=> t = Main \/ t \in Others
                      /\ state[t] = "NASCENT" <=> t = Boot
                      /\ state[t] \in {"RUNNING", "NASCENT", "NONE"}
                      /\ pc[t] = "run" <=> t = Main
                      /\ pc[t] = "stop" <=> t \in Others
                      /\ pc[t] = "resume" <=> t = Boot
                      /\ pc[t] \in {"run", "stop", "resume", "none"}
  BY Starts DEF Unblocking
<1>4. /\ state \in [TCBs -> States] /\ pc \in [TCBs -> Places]
      /\ Others \subseteq Processors /\ <<>> \in Seq(Threads)
  BY <1>3, ProgramsAssumption DEF Init, States, Places
<1>5. /\ \A p \in Processors, t \in TCBs : OnStack(p, t) <=> t = IF p = Boot THEN Main ELSE p
      /\ \A t \in TCBs : Off(t) <=> t \notin Processors \ {Boot} /\ t # Main
      /\ \A t \in TCBs : ~Answered(t)
  <2>1. \A p \in Processors, t \in TCBs : OnStack(p, t) <=> t = IF p = Boot THEN Main ELSE p
    BY <1>1 DEF OnStack
  <2>2. \A t \in TCBs : Off(t) <=> t \notin Processors \ {Boot} /\ t # Main
    BY <1>2, <2>1 DEF Off
  <2>3. Range(ready) = {}
    BY <1>1, <1>4, EmptyRange
  <2>4. \A t \in TCBs : ~Answered(t)
    BY <1>1, <2>3, Names DEF Answered
  <2> QED BY <2>1, <2>2, <2>4
<1> HIDE DEF Others
<1>11. Kinds
  BY <1>1, <1>2, <1>4, Names DEF Kinds
<1>12. BasesAtHome
  BY <1>1, <1>2, <1>3, <1>5, Names DEF BasesAtHome
<1>13. OneStack /\ OffResumes /\ NoneIsOff
  BY <1>1, <1>2, <1>3, <1>4, <1>5, Names DEF OneStack, OffResumes, NoneIsOff
<1>14. PicksToSwitch /\ FromKnown
  BY <1>1, <1>2, <1>3, <1>4, Names DEF PicksToSwitch, FromKnown
<1>15. PlacedOnce
  <2>1. ready \in Seq(Threads) /\ Len(ready) = 0 /\ Range(ready) = {}
    BY <1>1, <1>4, EmptyRange
  <2>2. DOMAIN ready = 1 .. 0
    BY <2>1
  <2>3. IsInjective(ready)
    BY <2>2 DEF IsInjective
  <2> QED BY <1>1, <2>1, <2>3 DEF PlacedOnce
<1>16. OnlyBlocks
  BY <1>1, <1>2, <1>3, <1>4, Names DEF OnlyBlocks
<1>17. OneAnswer
  BY <1>1, <1>2, <1>3, <1>4, <1>5, Names DEF OneAnswer, Entering
<1> QED BY <1>11, <1>12, <1>13, <1>14, <1>15, <1>16, <1>17 DEF UnblockInv

LEMMA UnblockStays ==
  ASSUME UnblockInv,
         UNCHANGED <<state, joiner, ready, pc, stopAs, retTo, arg, from, cur, to, spinning, waiters, owed>>
  PROVE  UnblockInv'
<1> USE DEF OnStack, Off, Answered, Entering, UnblockInv
<1>1. Kinds' /\ BasesAtHome' /\ OneStack' /\ OffResumes' /\ NoneIsOff' /\ PicksToSwitch' /\ FromKnown'
  BY DEF Kinds, BasesAtHome, OneStack, OffResumes, NoneIsOff, PicksToSwitch, FromKnown
<1>2. PlacedOnce' /\ OnlyBlocks' /\ OneAnswer'
  BY DEF PlacedOnce, OnlyBlocks, OneAnswer
<1> QED BY <1>1, <1>2

(* Who executes a stack is alone with it. *)
LEMMA Alone ==
  ASSUME OneStack, NEW p \in Processors, NEW t \in TCBs, OnStack(p, t)
  PROVE  ~Off(t) /\ \A q \in Processors : q \notin spinning /\ cur[q] = t => q = p
BY DEF OneStack, OnStack, Off

(* A thread goes on in its code: to its stop, or into the uthread_block it comes back from. *)
LEMMA UnblockMoves ==
  ASSUME UnblockInv, NEW p \in Processors, NEW t \in TCBs, NEW l \in Places, NEW m \in Places,
         Runs(p, t, l), Goto(t, m),
         \/ t \in Threads /\ l = "run" /\ m = "stop"
         \/ l = "resume" /\ m = "recheck"
         \/ l = "recheck" /\ m = "enter"
         \/ Dozing(t, l, m),
         UNCHANGED <<state, joiner, ready, stopAs, retTo, arg, from, cur, to, spinning, waiters, owed>>
  PROVE  UnblockInv'
<1> USE DEF UnblockInv
<1>1. /\ p \notin spinning /\ cur[p] = t /\ pc[t] = l /\ pc' = [pc EXCEPT ![t] = m] /\ OnStack(p, t)
  BY DEF Runs, Goto, OnStack
<1>2. \A u \in TCBs : pc'[u] = IF u = t THEN m ELSE pc[u]
  BY <1>1 DEF Kinds
<1>3. ~Off(t) /\ \A q \in Processors : q \notin spinning /\ cur[q] = t => q = p
  BY <1>1, Alone
<1>4. /\ \A q \in Processors, u \in TCBs : OnStack(q, u)' <=> OnStack(q, u)
      /\ \A u \in TCBs : Off(u)' <=> Off(u)
      /\ \A u \in TCBs : Answered(u)' <=> Answered(u)
  BY DEF OnStack, Off, Answered
<1>5. /\ m \notin {"none", "run", "switch", "resume", "reap", "requeue", "join", "joined", "detach"}
      /\ l \notin {"none", "switch"}
      /\ m = "stop" \/ m \in {"presleep", "asleep"} => t \in Processors \/ l = "run"
      /\ m \in {"presleep", "asleep"} => t \in Processors
      /\ m \in {"recheck", "enter"} <=> l \in {"resume", "recheck"}
  BY Names DEF Dozing
<1>6. \A u \in Threads : Entering(u)' <=> Entering(u)
  BY <1>1, <1>2, <1>4, <1>5, Names DEF Entering, Dozing
<1>11. Kinds'
  BY <1>1 DEF Kinds
<1>12. BasesAtHome'
  BY <1>2, <1>4, <1>5, Names DEF BasesAtHome
<1>13. OneStack' /\ OffResumes' /\ NoneIsOff'
  BY <1>2, <1>3, <1>4, <1>5, Names DEF OneStack, OffResumes, NoneIsOff
<1>14. PicksToSwitch' /\ FromKnown'
  BY <1>1, <1>2, <1>3, <1>5 DEF PicksToSwitch, FromKnown, Kinds
<1>15. PlacedOnce'
  BY DEF PlacedOnce
<1>16. OnlyBlocks'
  BY <1>1, <1>2, <1>5, Names DEF OnlyBlocks, Dozing
<1>17. OneAnswer'
  BY <1>4, <1>6, Names DEF OneAnswer
<1> QED BY <1>11, <1>12, <1>13, <1>14, <1>15, <1>16, <1>17

LEMMA UnblockSaves ==
  ASSUME UnblockInv, NEW p \in Processors, SaveState(p)
  PROVE  UnblockInv'
<1> USE DEF UnblockInv
<1> DEFINE t == cur[p]
<1>1. /\ p \notin spinning /\ pc[t] = "switch" /\ pc' = [pc EXCEPT ![t] = "resume"]
      /\ state' = [state EXCEPT ![t] = stopAs[t]] /\ spinning' = spinning \cup {p}
      /\ OnStack(p, t) /\ t \in TCBs /\ stopAs[t] = "BLOCKED"
      /\ UNCHANGED <<joiner, arg, ready, stopAs, retTo, from, cur, to, waiters, owed>>
  BY DEF SaveState, StoredState, Runs, Goto, OnStack, prog, OnlyBlocks
<1>2. \A u \in TCBs : /\ pc'[u] = IF u = t THEN "resume" ELSE pc[u]
                      /\ state'[u] = IF u = t THEN "BLOCKED" ELSE state[u]
  BY <1>1 DEF Kinds
<1>3. ~Off(t) /\ \A q \in Processors : q \notin spinning /\ cur[q] = t => q = p
  BY <1>1, Alone
<1>4. /\ \A q \in Processors, u \in TCBs : OnStack(q, u)' <=> OnStack(q, u) /\ q # p
      /\ \A u \in TCBs : Off(u)' <=> Off(u) \/ u = t
      /\ \A u \in TCBs : Answered(u)' <=> Answered(u)
  BY <1>1, <1>3 DEF OnStack, Off, Answered
<1>6. \A u \in Threads : Entering(u)' <=> Entering(u)
  BY <1>1, <1>2, <1>4, Names DEF Entering
<1>7. t \in Threads => state[t] = "RUNNING"
  BY <1>1 DEF OnlyBlocks
<1>11. Kinds'
  BY <1>1 DEF Kinds, Places, States
<1>12. BasesAtHome'
  BY <1>1, <1>2, <1>4, Names DEF BasesAtHome
<1>13. OneStack' /\ OffResumes' /\ NoneIsOff'
  BY <1>1, <1>2, <1>4, Names DEF OneStack, OffResumes, NoneIsOff
<1>14. PicksToSwitch' /\ FromKnown'
  BY <1>1, <1>2, <1>3 DEF PicksToSwitch, FromKnown, Kinds
<1>15. PlacedOnce'
  BY <1>1 DEF PlacedOnce
<1>16. OnlyBlocks'
  BY <1>1, <1>2, Names DEF OnlyBlocks
<1>17. OneAnswer'
  BY <1>1, <1>2, <1>4, <1>6, <1>7, Names DEF OneAnswer
<1> QED BY <1>11, <1>12, <1>13, <1>14, <1>15, <1>16, <1>17

(* The thread picked has left the stack it was on, and is entered by the one that picked it. *)
LEMMA UnblockLoads ==
  ASSUME UnblockInv, NEW p \in Processors, LoadStack(p)
  PROVE  UnblockInv'
<1> USE DEF UnblockInv
<1> DEFINE u == to[p]
           c == cur[p]
<1>1. /\ p \in spinning /\ u \in TCBs /\ c \in TCBs /\ state[u] # "RUNNING"
      /\ from' = [from EXCEPT ![u] = c] /\ cur' = [cur EXCEPT ![p] = u]
      /\ to' = [to EXCEPT ![p] = NoThread] /\ spinning' = spinning \ {p}
      /\ UNCHANGED <<state, joiner, arg, ready, pc, stopAs, retTo, waiters, owed>>
  BY DEF Kinds, PicksToSwitch, LoadStack, MayLoad, prog
<1>2. u \in Threads => Answered(u) /\ ~Entering(u) /\ state[u] # "NONE" /\ (u \in owed \/ state[u] = "NASCENT")
  BY <1>1 DEF Answered, OneAnswer
<1>3. Off(u) /\ pc[u] \in {"none", "resume"} /\ (u \in Threads => pc[u] = "resume")
  <2>1. CASE u \in Threads
    <3>1. Off(u)
      <4>1. ~Off(u) => pc[u] \in Places \ {"none", "run", "stop", "switch", "presleep", "asleep",
                                            "reap", "requeue", "join", "joined", "detach"}
        BY <1>1, <2>1 DEF OnlyBlocks, NoneIsOff, BasesAtHome, Kinds
      <4> QED BY <1>2, <2>1, <4>1 DEF Entering, Places
    <3> QED BY <1>1, <1>2, <2>1, <3>1 DEF OffResumes, OnlyBlocks
  <2>2. CASE u \in Processors
    <3>1. u = p /\ ~OnStack(p, p)
      BY <2>2 DEF BasesAtHome
    <3>2. Off(u)
      BY <3>1 DEF BasesAtHome, Off, OnStack
    <3> QED BY <1>1, <2>2, <3>2, Names DEF OffResumes
  <2> QED BY <1>1, <2>1, <2>2 DEF TCBs
<1>4. /\ \A q \in Processors, t \in TCBs : OnStack(q, t)' <=> OnStack(q, t) \/ (q = p /\ t = u)
      /\ \A t \in TCBs : Off(t)' <=> Off(t) /\ t # u
  BY <1>1 DEF OnStack, Off, Kinds
<1>5. /\ \A t \in Threads : Answered(t)' <=> Answered(t) /\ t # u
      /\ \A q \in Processors : to'[q] = IF q = p THEN NoThread ELSE to[q]
  <2>1. u \notin Range(ready) /\ \A q \in Processors : q # p => to[q] # u
    BY <1>1, Names DEF PlacedOnce
  <2> QED BY <1>1, <2>1, Names DEF Answered, Kinds
<1>6. \A t \in Threads : Entering(t)' <=> Entering(t) \/ t = u
  BY <1>1, <1>3, <1>4, Names DEF Entering
<1>11. Kinds'
  BY <1>1 DEF Kinds
<1>12. BasesAtHome'
  BY <1>1, <1>4, Names DEF BasesAtHome, Kinds
<1>13. OneStack' /\ OffResumes' /\ NoneIsOff'
  BY <1>1, <1>3, <1>4, Names DEF OneStack, OffResumes, NoneIsOff, Off
<1>14. PicksToSwitch'
  BY <1>1, <1>3, <1>5, Names DEF PicksToSwitch, Kinds
<1>15. FromKnown'
  <2> SUFFICES ASSUME NEW q \in Processors, q \notin spinning',
                      pc'[cur'[q]] \in {"resume", "reap", "recheck", "requeue"}
               PROVE  from'[cur'[q]] \in TCBs
    BY DEF FromKnown
  <2>1. CASE q = p
    BY <1>1, <2>1 DEF Kinds
  <2>2. CASE q # p
    <3>1. q \notin spinning /\ cur'[q] = cur[q] /\ cur[q] # u /\ cur[q] \in TCBs
      BY <1>1, <1>3, <2>2 DEF Kinds, Off, OnStack
    <3> QED BY <1>1, <3>1 DEF FromKnown, Kinds
  <2> QED BY <2>1, <2>2
<1>16. PlacedOnce'
  <2>1. ready' = ready /\ \A q \in Processors : to'[q] = to[q] \/ to'[q] = NoThread
    BY <1>1, <1>5
  <2>2. NoThread \notin Range(ready)
    BY EmptyRange, Names DEF Kinds
  <2> QED BY <2>1, <2>2 DEF PlacedOnce
<1>17. OnlyBlocks'
  BY <1>1 DEF OnlyBlocks
<1>18. OneAnswer'
  BY <1>1, <1>2, <1>5, <1>6, Names DEF OneAnswer
<1> QED BY <1>11, <1>12, <1>13, <1>14, <1>15, <1>16, <1>17, <1>18

LEMMA UnblockTakes ==
  ASSUME UnblockInv, NEW p \in Processors, Dequeue(p)
  PROVE  UnblockInv'
<1> USE DEF UnblockInv
<1> DEFINE t == cur[p]
<1>1. /\ p \notin spinning /\ pc[t] = "stop" /\ pc' = [pc EXCEPT ![t] = "switch"]
      /\ OnStack(p, t) /\ t \in TCBs
      /\ TakeHead(p) \/ (t # p /\ to' = [to EXCEPT ![p] = p] /\ ready' = ready)
      /\ UNCHANGED <<state, joiner, arg, stopAs, retTo, from, cur, spinning, waiters, owed>>
  BY DEF Dequeue, Runs, Goto, OnStack, prog
<1>2. \A u \in TCBs : pc'[u] = IF u = t THEN "switch" ELSE pc[u]
  BY <1>1 DEF Kinds
<1>3. ~Off(t) /\ \A q \in Processors : q \notin spinning /\ cur[q] = t => q = p
  BY <1>1, Alone
<1>4. /\ \A q \in Processors, u \in TCBs : OnStack(q, u)' <=> OnStack(q, u)
      /\ \A u \in TCBs : Off(u)' <=> Off(u)
      /\ \A u \in TCBs : Entering(u)' <=> Entering(u)
  BY <1>1, <1>2 DEF OnStack, Off, Entering
<1>5. /\ ready' \in Seq(Threads) /\ IsInjective(ready')
      /\ \A q \in Processors : q # p => to'[q] = to[q] /\ (to[q] = NoThread \/ to'[p] # to[q])
      /\ to'[p] \in TCBs /\ to' \in [Processors -> TCBs \cup {NoThread}]
      /\ to'[p] \in Processors => to'[p] = p /\ t # p
      /\ \A u \in TCBs : u \in Range(ready') <=> u \in Range(ready) /\ u # to'[p]
      /\ \A u \in Threads : Answered(u)' <=> Answered(u)
  BY <1>1, Taken
<1>11. Kinds'
  BY <1>1, <1>5 DEF Kinds, Places
<1>12. BasesAtHome'
  BY <1>1, <1>2, <1>4, <1>5, Names DEF BasesAtHome, OnStack
<1>13. OneStack' /\ OffResumes' /\ NoneIsOff'
  BY <1>1, <1>2, <1>3, <1>4, Names DEF OneStack, OffResumes, NoneIsOff
<1>14. PicksToSwitch' /\ FromKnown'
  BY <1>1, <1>2, <1>3, <1>5, Names DEF PicksToSwitch, FromKnown, Kinds
<1>15. PlacedOnce'
  <2>1. \A q \in Processors : to'[q] \notin Range(ready')
    BY <1>5, EmptyRange, Names DEF PlacedOnce, Kinds
  <2>2. \A q, o \in Processors : to'[q] = to'[o] => q = o \/ to'[q] = NoThread
    BY <1>5, Names DEF PlacedOnce
  <2> QED BY <1>5, <2>1, <2>2 DEF PlacedOnce
<1>16. OnlyBlocks'
  BY <1>1, <1>2, Names DEF OnlyBlocks
<1>17. OneAnswer'
  BY <1>1, <1>4, <1>5, Names DEF OneAnswer
<1> QED BY <1>11, <1>12, <1>13, <1>14, <1>15, <1>16, <1>17

(* The uthread_block returns, and with it the answer is used up. *)
LEMMA UnblockEnters ==
  ASSUME UnblockInv, Unblocking, NEW p \in Processors, Enter(p)
  PROVE  UnblockInv'
<1> USE DEF UnblockInv
<1>1. PICK t \in TCBs, m \in {"run", "stop"} :
        /\ t = cur[p] /\ p \notin spinning /\ pc[t] = "enter" /\ pc' = [pc EXCEPT ![t] = m]
        /\ OnStack(p, t) /\ state' = [state EXCEPT ![t] = "RUNNING"] /\ owed' = owed \ {t}
        /\ t \in Processors <=> m = "stop"
        /\ UNCHANGED <<joiner, arg, ready, stopAs, retTo, from, cur, to, spinning, waiters>>
  <2>1. PICK t \in TCBs :
          /\ Runs(p, t, "enter") /\ state' = [state EXCEPT ![t] = "RUNNING"]
          /\ Goto(t, IF state[t] # "NASCENT" THEN retTo[t] ELSE IF t \in Processors THEN BaseCode ELSE "run")
          /\ owed' = IF stopAs[t] = "BLOCKED" THEN owed \ {t} ELSE owed
          /\ UNCHANGED <<joiner, arg, ready, stopAs, retTo, from, cur, to, spinning, waiters>>
    BY DEF Enter
  <2>2. Goto(t, IF t \in Processors THEN "stop" ELSE "run")
    BY <2>1, Names DEF BasesAtHome, OnlyBlocks, BaseCode, Unblocking, TCBs
  <2>3. owed' = owed \ {t}
    BY <2>1 DEF OnlyBlocks
  <2> QED BY <2>1, <2>2, <2>3 DEF Runs, Goto, OnStack
<1>2. \A u \in TCBs : /\ pc'[u] = IF u = t THEN m ELSE pc[u]
                      /\ state'[u] = IF u = t THEN "RUNNING" ELSE state[u]
  BY <1>1 DEF Kinds
<1>3. ~Off(t) /\ \A q \in Processors : q \notin spinning /\ cur[q] = t => q = p
  BY <1>1, Alone
<1>4. /\ \A q \in Processors, u \in TCBs : OnStack(q, u)' <=> OnStack(q, u)
      /\ \A u \in TCBs : Off(u)' <=> Off(u)
      /\ \A u \in TCBs : Answered(u)' <=> Answered(u)
  BY <1>1 DEF OnStack, Off, Answered
<1>5. t \in Threads => Entering(t) /\ ~Answered(t)
  BY <1>1, <1>3 DEF Entering, OneAnswer
<1>6. \A u \in Threads : Entering(u)' <=> Entering(u) /\ u # t
  BY <1>1, <1>2, <1>4, Names DEF Entering
<1>11. Kinds'
  BY <1>1 DEF Kinds, Places, States
<1>12. BasesAtHome'
  BY <1>1, <1>2, <1>4, Names DEF BasesAtHome
<1>13. OneStack' /\ OffResumes' /\ NoneIsOff'
  BY <1>1, <1>2, <1>3, <1>4, Names DEF OneStack, OffResumes, NoneIsOff
<1>14. PicksToSwitch' /\ FromKnown'
  BY <1>1, <1>2, <1>3, Names DEF PicksToSwitch, FromKnown, Kinds
<1>15. PlacedOnce'
  BY <1>1 DEF PlacedOnce
<1>16. OnlyBlocks'
  BY <1>1, <1>2, Names DEF OnlyBlocks, TCBs
<1>17. OneAnswer'
  BY <1>1, <1>2, <1>4, <1>5, <1>6, Names DEF OneAnswer
<1> QED BY <1>11, <1>12, <1>13, <1>14, <1>15, <1>16, <1>17

(* A thread that has no answer gets one: it is created, or unblocked, whether it has blocked
   already, is on its way there, or is still before it. *)
LEMMA UnblockReadies ==
  ASSUME UnblockInv, NEW u \in Threads, ReadyEnqueue(u), ~Answered(u),
         \/ /\ state[u] = "NONE" /\ state' = [state EXCEPT ![u] = "NASCENT"]
            /\ pc' = [pc EXCEPT ![u] = "resume"] /\ owed' = owed
         \/ /\ ~Entering(u) /\ state[u] # "NONE" /\ owed' = owed \cup {u}
            /\ UNCHANGED <<state, pc>>,
         UNCHANGED <<joiner, arg, stopAs, retTo, from, cur, to, spinning, waiters>>
  PROVE  UnblockInv'
<1> USE DEF UnblockInv
<1>1. /\ ready' \in Seq(Threads) /\ IsInjective(ready') /\ Range(ready') = Range(ready) \cup {u}
      /\ u \notin Range(ready) /\ \A q \in Processors : to[q] # u
  <2>1. u \notin Range(ready) /\ \A q \in Processors : to[q] # u
    BY DEF Answered
  <2> QED BY <2>1, Enqueues DEF PlacedOnce
<1>2. /\ \A q \in Processors, t \in TCBs : OnStack(q, t)' <=> OnStack(q, t)
      /\ \A t \in TCBs : Off(t)' <=> Off(t)
      /\ \A t \in TCBs : Answered(t)' <=> Answered(t) \/ t = u
  BY <1>1 DEF OnStack, Off, Answered
<1>3. PlacedOnce'
  BY <1>1 DEF PlacedOnce
<1>4. CASE /\ state[u] = "NONE" /\ state' = [state EXCEPT ![u] = "NASCENT"]
           /\ pc' = [pc EXCEPT ![u] = "resume"] /\ owed' = owed
  <2>1. \A t \in TCBs : /\ pc'[t] = IF t = u THEN "resume" ELSE pc[t]
                        /\ state'[t] = IF t = u THEN "NASCENT" ELSE state[t]
    BY <1>4 DEF Kinds
  <2>2. u \in TCBs /\ pc[u] = "none" /\ Off(u) /\ ~Entering(u)
    BY <1>4, Names DEF OnlyBlocks, NoneIsOff, Entering
  <2>3. \A q \in Processors : q \notin spinning => cur[q] # u /\ pc'[cur[q]] = pc[cur[q]]
    BY <2>1, <2>2 DEF Off, OnStack, Kinds
  <2>4. \A t \in Threads : Entering(t)' <=> Entering(t)
    BY <1>2, <2>1, <2>2, Names DEF Entering
  <2>5. Kinds'
    BY <1>1, <1>4 DEF Kinds, Places, States
  <2>6. BasesAtHome'
    BY <1>2, <2>1, Names DEF BasesAtHome
  <2>7. OneStack' /\ OffResumes' /\ NoneIsOff'
    BY <1>2, <2>1, Names DEF OneStack, OffResumes, NoneIsOff
  <2>8. PicksToSwitch' /\ FromKnown'
    BY <2>3 DEF PicksToSwitch, FromKnown
  <2>9. OnlyBlocks'
    BY <1>4, <2>1, <2>2, Names DEF OnlyBlocks
  <2>10. OneAnswer'
    BY <1>2, <1>4, <2>1, <2>2, <2>4, Names DEF OneAnswer
  <2> QED BY <1>3, <2>5, <2>6, <2>7, <2>8, <2>9, <2>10
<1>5. CASE /\ ~Entering(u) /\ state[u] # "NONE" /\ owed' = owed \cup {u}
           /\ UNCHANGED <<state, pc>>
  <2>1. Kinds'
    BY <1>1, <1>5 DEF Kinds
  <2>2. BasesAtHome' /\ OneStack' /\ OffResumes' /\ NoneIsOff' /\ PicksToSwitch' /\ FromKnown'
    BY <1>2, <1>5, Names DEF BasesAtHome, OneStack, OffResumes, NoneIsOff, PicksToSwitch, FromKnown
  <2>3. OnlyBlocks'
    BY <1>5 DEF OnlyBlocks
  <2>4. OneAnswer'
    BY <1>2, <1>5, Names DEF OneAnswer, Entering
  <2> QED BY <1>3, <2>1, <2>2, <2>3, <2>4
<1> QED BY <1>4, <1>5

LEMMA UnblockStep == UnblockInv /\ Unblocking /\ [Next]_vars => UnblockInv'
<1> SUFFICES ASSUME UnblockInv, Unblocking, [Next]_vars PROVE UnblockInv'
  OBVIOUS
<1>1. CASE UNCHANGED vars
  BY <1>1, UnblockStays DEF vars, sched, prog
<1>2. ASSUME NEW p \in Processors, SpuriousWakeup(p) PROVE UnblockInv'
  BY <1>2, UnblockStays DEF SpuriousWakeup, sched, prog
<1>3. ASSUME NEW p \in Processors, Create(p) PROVE UnblockInv'
  <2>1. PICK c \in Threads : NewThread(c) /\ ReadyEnqueue(c)
                            /\ UNCHANGED <<joiner, arg, stopAs, retTo, from, cur, to, spinning, waiters, owed>>
    BY <1>3 DEF Create
  <2>2. state[c] = "NONE" /\ ~Answered(c)
    BY <2>1 DEF NewThread, UnblockInv, OneAnswer
  <2> QED BY <2>1, <2>2, UnblockReadies DEF NewThread, Goto
<1>4. ASSUME NEW p \in Processors, Unblock(p) PROVE UnblockInv'
  <2>1. PICK u \in Threads : /\ MayUnblock(u) /\ ReadyEnqueue(u) /\ owed' = owed \cup {u}
                            /\ UNCHANGED <<state, joiner, arg, pc, stopAs, retTo, from, cur, to, spinning, waiters>>
    BY <1>4 DEF Unblock
  <2>2. u \notin owed /\ state[u] \in {"RUNNING", "BLOCKED"}
    BY <2>1 DEF MayUnblock, Unblocking
  <2>3. ~Answered(u) /\ ~Entering(u)
    BY <2>2 DEF UnblockInv, OneAnswer
  <2> QED BY <2>1, <2>2, <2>3, UnblockReadies
<1>5. ASSUME NEW p \in Processors, Block(p) \/ Park(p) PROVE UnblockInv'
  <2>1. PICK t \in Threads : /\ Runs(p, t, "run") /\ Stop(t, "BLOCKED", "run")
                            /\ UNCHANGED <<state, joiner, arg, ready, from, cur, to, spinning, waiters, owed>>
    BY <1>5 DEF Block, Park, Calls, NoEnqueue, prog
  <2>2. stopAs' = stopAs /\ retTo' = retTo /\ t \in TCBs /\ Goto(t, "stop")
    BY <2>1, Names DEF Stop, UnblockInv, OnlyBlocks, Kinds
  <2>3. {"run", "stop"} \subseteq Places
    BY DEF Places
  <2> QED BY <2>1, <2>2, <2>3, UnblockMoves
<1>6. ASSUME NEW p \in Processors, CheckDying(p) \/ CheckRunable(p) \/ PreSleep(p) \/ Sleep(p) \/ Awake(p)
      PROVE  UnblockInv'
  <2>1. UNCHANGED <<state, joiner, arg, ready, stopAs, retTo, from, cur, to, spinning, waiters, owed>>
    BY <1>6 DEF CheckDying, CheckRunable, PreSleep, Sleep, Awake, idle, prog
  <2>2. CASE CheckDying(p) \/ CheckRunable(p)
    <3>1. PICK t \in TCBs, l \in {"resume", "recheck"} :
            /\ Runs(p, t, l)
            /\ l = "resume" => Goto(t, IF state[from[t]] = "DYING" THEN "reap" ELSE NotDying)
            /\ l = "recheck" => Goto(t, IF MustRequeue(from[t]) THEN "requeue" ELSE "enter")
      BY <2>2 DEF CheckDying, CheckRunable
    <3>2. state[from[t]] \in {"NONE", "NASCENT", "RUNNING", "BLOCKED"}
      BY <3>1 DEF UnblockInv, FromKnown, OnlyBlocks, Runs
    <3>3. Goto(t, IF l = "resume" THEN "recheck" ELSE "enter")
      BY <3>1, <3>2 DEF NotDying, Unblocking, MustRequeue
    <3>4. {"resume", "recheck", "enter"} \subseteq Places
      BY DEF Places
    <3> QED BY <2>1, <3>1, <3>3, <3>4, UnblockMoves
  <2>3. CASE PreSleep(p) \/ Sleep(p) \/ Awake(p)
    <3>1. PICK l, m \in {"stop", "presleep", "asleep"} : Runs(p, p, l) /\ Goto(p, m)
      BY <2>3 DEF PreSleep, Sleep, Awake
    <3>2. p \in TCBs /\ Dozing(p, l, m) /\ l \in Places /\ m \in Places
      BY Names DEF Dozing, Places
    <3> QED BY <2>1, <3>1, <3>2, UnblockMoves
  <2> QED BY <1>6, <2>2, <2>3
<1>7. ASSUME NEW p \in Processors, Call(p) PROVE UnblockInv'
  <2>1. \A t \in Threads : program.calls[t] \cap {"yield", "wait", "wake", "join", "detach"} = {}
    BY DEF Unblocking
  <2>2. ~(Yield(p) \/ Wait(p) \/ Wake(p) \/ JoinCheck(p) \/ DetachCheck(p))
    BY <2>1 DEF Yield, Wait, Wake, JoinCheck, DetachCheck, Claims, Calls
  <2> QED BY <1>3, <1>4, <1>5, <1>7, <2>2 DEF Call
<1>8. ASSUME NEW p \in Processors, Kernel(p) PROVE UnblockInv'
  <2>1. ~(Reap(p) \/ Requeue(p) \/ JoinLocked(p) \/ Joined(p) \/ DetachLocked(p))
    BY Names DEF Reap, Requeue, JoinLocked, Joined, DetachLocked, Runs, UnblockInv, OnlyBlocks
  <2>2. ~(Exit(p) \/ BaseYields(p))
    BY DEF Exit, BaseYields, Runs, Unblocking, UnblockInv, BasesAtHome
  <2> QED BY <1>5, <1>6, <1>8, <2>1, <2>2, UnblockTakes, UnblockSaves, UnblockLoads, UnblockEnters DEF Kernel
<1> QED BY <1>1, <1>2, <1>7, <1>8 DEF Next, Step

(* The idle processors keep to their sleep as they do under the other discipline. *)
LEMMA UnblockSleeps == UnblockInv /\ SleepInv /\ Unblocking /\ [Next]_vars => SleepInv'
<1> SUFFICES ASSUME UnblockInv, SleepInv, Unblocking, [Next]_vars PROVE SleepInv'
  OBVIOUS
<1>0. Seats /\ IdleSleep
  BY DEF UnblockInv, Seats, Unblocking
<1>1. CASE UNCHANGED vars
  <2>1. Undisturbed
    BY <1>1 DEF vars, sched, Undisturbed, Dozy, OnStack
  <2> QED BY <1>0, <1>1, <2>1, SleepStays DEF vars, sched, idle
<1>2. ASSUME NEW p \in Processors, SpuriousWakeup(p) PROVE SleepInv'
  <2>1. Undisturbed
    BY <1>2 DEF SpuriousWakeup, sched, Undisturbed, Dozy, OnStack
  <2> QED BY <1>0, <1>2, <2>1, SleepStays DEF SpuriousWakeup, sched
<1>3. ASSUME NEW p \in Processors, Create(p) PROVE SleepInv'
  <2>1. PICK c \in Threads : state[c] = "NONE" /\ Goto(c, "resume") /\ ReadyEnqueue(c) /\ UNCHANGED <<cur, spinning>>
    BY <1>3 DEF Create, NewThread
  <2>2. c \notin Range(ready)
    BY <2>1 DEF UnblockInv, OneAnswer, Answered
  <2>3. Undisturbed
    BY <1>0, <2>1, Elsewhere, Names DEF Places
  <2> QED BY <1>0, <2>1, <2>2, <2>3, SleepEnqueues
<1>4. ASSUME NEW p \in Processors, Unblock(p) PROVE SleepInv'
  <2>1. PICK u \in Threads : MayUnblock(u) /\ ReadyEnqueue(u) /\ UNCHANGED <<pc, cur, spinning>>
    BY <1>4 DEF Unblock
  <2>2. u \notin Range(ready)
    BY <2>1 DEF MayUnblock, Unblocking, UnblockInv, OneAnswer, Answered
  <2>3. Undisturbed
    BY <2>1 DEF Undisturbed, Dozy, OnStack
  <2> QED BY <1>0, <2>1, <2>2, <2>3, SleepEnqueues
<1>5. ASSUME NEW p \in Processors, Call(p) PROVE SleepInv'
  <2>1. ~Wake(p)
    BY DEF Unblocking, Wake, Calls
  <2> QED BY <1>0, <1>3, <1>4, <1>5, <2>1, SleepElsewhere DEF Call
<1>6. ASSUME NEW p \in Processors, Kernel(p) PROVE SleepInv'
  <2>1. ~Requeue(p)
    BY DEF Requeue, Runs, UnblockInv, OnlyBlocks
  <2>2. ~(Exit(p) \/ BaseYields(p))
    BY DEF Exit, BaseYields, Runs, Unblocking, UnblockInv, BasesAtHome
  <2> QED BY <1>0, <1>6, <2>1, <2>2, SleepElsewhere, SleepDozes, SleepDequeue DEF Kernel
<1> QED BY <1>1, <1>2, <1>5, <1>6 DEF Next, Step

LEMMA UnblockProtects ==
  ASSUME UnblockInv, SleepInv
  PROVE  OneProcessor /\ NoStrayReady /\ NoLostWakeup /\ UnblockKept
<1> USE DEF UnblockInv
<1>1. OneProcessor
  BY DEF OneProcessor, OneStack, PlacedOnce
<1>2. NoStrayReady
  <2> SUFFICES ASSUME NEW t \in Range(ready) \ owed
               PROVE  /\ pc[t] \in {"stop", "switch", "resume"}
                      /\ \A p \in Processors : to[p] # t /\ (OnStack(p, t) => pc[t] # "resume")
    BY DEF NoStrayReady
  <2>1. t \in Threads /\ t \in TCBs
    BY EmptyRange, Names DEF Kinds
  <2>2. Answered(t) /\ ~Entering(t) /\ state[t] = "NASCENT"
    BY <2>1 DEF Answered, OneAnswer
  <2>3. pc[t] \in {"resume", "recheck", "enter"}
    <3>1. pc[t] \in Places \ {"none", "run", "stop", "switch", "presleep", "asleep",
                              "reap", "requeue", "join", "joined", "detach"}
      BY <2>1, <2>2 DEF OnlyBlocks, BasesAtHome, Kinds
    <3> QED BY <3>1 DEF Places
  <2>4. Off(t) /\ pc[t] = "resume"
    BY <2>1, <2>2, <2>3 DEF Entering, OffResumes
  <2> QED BY <2>4 DEF Off, PlacedOnce
<1>3. NoLostWakeup
  BY DEF SleepInv
<1>4. UnblockKept
  <2> SUFFICES ASSUME NEW t \in owed, pc[t] = "resume"
               PROVE  t \in Range(ready) \cup { to[p] : p \in Processors } \cup { cur[p] : p \in Processors }
    BY DEF UnblockKept
  <2>1. Answered(t) \/ Entering(t)
    BY DEF OnlyBlocks, OneAnswer
  <2> QED BY <2>1 DEF Answered, Entering, Off, OnStack
<1> QED BY <1>1, <1>2, <1>3, <1>4

LEMMA UnblockingAlways == Spec /\ Unblocking => [](UnblockInv /\ SleepInv)
<1>1. Init /\ Unblocking => UnblockInv /\ SleepInv
  BY UnblockInit, SleepInit DEF Unblocking
<1>2. Unblocking /\ UnblockInv /\ SleepInv /\ [Next]_vars => Unblocking' /\ UnblockInv' /\ SleepInv'
  <2> SUFFICES ASSUME Unblocking, UnblockInv, SleepInv, [Next]_vars
               PROVE  Unblocking' /\ UnblockInv' /\ SleepInv'
    OBVIOUS
  <2>1. program' = program
    BY DEF Next, Step, vars
  <2>2. Unblocking'
    BY <2>1 DEF Unblocking, IdleSleep
  <2> QED BY <2>2, UnblockStep, UnblockSleeps
<1> QED BY <1>1, <1>2, PTL DEF Spec

-----------------------------------------------------------------------------
(* uthread_switch: whatever the number of threads and processors and however they
   interleave, no stack is executed by two processors and no thread picked by two: not when
   a thread is unblocked while it runs either. *)
THEOREM OneProcessorCorrect == Spec /\ (Separate \/ Unblocking) => []OneProcessor
BY DisciplinedAlways, SchedProtects, UnblockingAlways, UnblockProtects, PTL

(* The ready queue holds threads that are stopping or stopped and not picked, or that have been
   unblocked, so a stop is answered by whoever it waits for and by nobody else. *)
THEOREM NoStrayReadyCorrect == Spec /\ (Separate \/ Unblocking) => []NoStrayReady
BY DisciplinedAlways, SchedProtects, UnblockingAlways, UnblockProtects, PTL

(* pthread_base and uthread_start: the signal under pthread_mutex is never lost, so idle
   processors do not sleep while threads wait for one. *)
THEOREM NoLostWakeupCorrect == Spec /\ (Separate \/ Unblocking) => []NoLostWakeup
BY DisciplinedAlways, SchedProtects, UnblockingAlways, UnblockProtects, PTL

(* uthread_unblock: a thread unblocked before its uthread_block, or on its way into it, comes
   back from it; the wakeup is on the queue, picked, or carried out, and never dropped. *)
THEOREM UnblockKeptCorrect == Spec /\ Unblocking => []UnblockKept
BY UnblockingAlways, UnblockProtects, PTL

(* uthread_join returns only after the thread it waits for has ended. *)
THEOREM JoinAfterExitCorrect == Spec /\ Separate => []JoinAfterExit
BY DisciplinedAlways, SchedProtects, PTL

-----------------------------------------------------------------------------
(* The further discipline under which nothing is used after it is freed: a thread that returns
   has never waited, and each is joined or detached once (README.md, findings). *)
Returners == \A t \in Threads : "exit" \in program.calls[t] => Runner(t)
ClaimOnce == MaxClaims <= 1

(* Whoever runs on p is about to free t, or to leave it DEAD. *)
Reaps(p, t) == p \notin spinning /\ pc[cur[p]] = "reap" /\ from[cur[p]] = t
Gone(t) == t \in freed \/ state[t] = "DEAD"

(* The end of a thread: one processor looks at it, once, after it has left its stack, and
   nobody from then on. *)
EndsWell(t) ==
  /\ Live(t) => t \notin freed
  /\ ~Live(t) => Runner(t)
  /\ \A p \in Processors : ~Live(t) /\ Reaps(p, t) =>
       /\ Off(t) /\ ~Gone(t)
       /\ \A q \in Processors : ~Handoff(q, t) /\ (Reaps(q, t) => q = p)
  /\ Gone(t) => Off(t) /\ \A p \in Processors : ~Handoff(p, t)

EndInv == \A t \in TCBs : EndsWell(t)

(* Who joins or detaches a thread is alone with it until it is freed or left to the reaper. *)
ClaimKinds == /\ freed \subseteq Threads
              /\ claims \in [Threads -> 0..1]
              /\ \A t \in Threads : pc[t] \in {"join", "detach"} => arg[t] \in Threads
Claimed == /\ \A t \in TCBs : arg[t] \in Threads =>
                claims[arg[t]] = 1 /\ joiner[arg[t]] # Detached /\ arg[t] \notin freed
           /\ \A t, u \in TCBs : arg[t] = arg[u] /\ arg[t] \in Threads => t = u
           /\ \A t \in Threads : joiner[t] # NoThread \/ t \in freed => claims[t] = 1
ClaimsInv == ClaimKinds /\ Claimed

(* What a processor has picked is not executed. *)
LEMMA PickedIsOff ==
  ASSUME SchedInv, NEW p \in Processors, p \in spinning, state[to[p]] # "RUNNING"
  PROVE  to[p] \in TCBs /\ Off(to[p]) /\ pc[to[p]] \in {"none", "resume"} /\ Live(to[p])
         /\ (to[p] \in Threads => pc[to[p]] = "resume")
<1> USE DEF SchedInv
<1> DEFINE u == to[p]
<1>1. u \in TCBs
  BY DEF Kinds, PicksToSwitch
<1>2. u \in Threads => Answered(u)
  BY <1>1 DEF Answered
<1>3. CASE u \in Threads
  BY <1>1, <1>2, <1>3 DEF AnsweredStopped, RunningUntilSaved, Stopped
<1>4. CASE u \in Processors
  <2>1. u = p /\ ~OnStack(p, p)
    BY <1>4 DEF BasesAtHome
  <2>2. Off(u)
    BY <2>1 DEF BasesAtHome, Off, OnStack
  <2> QED BY <1>1, <1>4, <2>2, Names DEF OffResumes, EndingStops
<1> QED BY <1>1, <1>3, <1>4 DEF TCBs

LEMMA EndedIsThread == ASSUME SchedInv, NEW t \in Threads, pc[t] = "joined" PROVE arg[t] \in Threads
BY DEF SchedInv, EndSeen

LEMMA InitLive == ASSUME Init PROVE \A t \in TCBs : Live(t)
BY Zenon DEF Init, Live

LEMMA EndStays ==
  ASSUME NEW t \in TCBs, EndsWell(t), UNCHANGED program,
         Live(t)' <=> Live(t), Gone(t)' => Gone(t),
         ~Live(t) /\ Off(t) => Off(t)',
         \A q \in Processors : ~Live(t) /\ Handoff(q, t)' => Handoff(q, t),
         \A q \in Processors : ~Live(t) /\ Reaps(q, t)' => Reaps(q, t)
  PROVE  EndsWell(t)'
<1>1. Runner(t)' <=> Runner(t)
  BY DEF Runner
<1>2. /\ t \in freed => Gone(t)
      /\ t \in freed' => Gone(t)'
      /\ Live(t)' /\ Gone(t)' => t \in freed'
      /\ Live(t) /\ Gone(t) => t \in freed
  BY DEF Gone, Live
<1>3. /\ Live(t) => t \notin freed
      /\ ~Live(t) => Runner(t)
      /\ \A p \in Processors : ~Live(t) /\ Reaps(p, t) =>
           /\ Off(t) /\ ~Gone(t)
           /\ \A q \in Processors : ~Handoff(q, t) /\ (Reaps(q, t) => q = p)
      /\ Gone(t) => Off(t) /\ \A p \in Processors : ~Handoff(p, t)
  BY DEF EndsWell
<1>4. (Live(t) => t \notin freed)' /\ (~Live(t) => Runner(t))'
  BY <1>1, <1>2, <1>3
<1>5. ASSUME NEW p \in Processors, ~Live(t)', Reaps(p, t)'
      PROVE  /\ Off(t)' /\ ~Gone(t)'
             /\ \A q \in Processors : ~Handoff(q, t)' /\ (Reaps(q, t)' => q = p)
  BY <1>3, <1>5
<1>6. ASSUME Gone(t)' PROVE Off(t)' /\ \A p \in Processors : ~Handoff(p, t)'
  BY <1>2, <1>3, <1>6
<1> QED BY <1>4, <1>5, <1>6 DEF EndsWell

(* One thread goes on in its code, and looks at no other thread than before. *)
LEMMA MovesOn ==
  ASSUME SchedInv, NEW p \in Processors, NEW t \in TCBs, NEW l, NEW m,
         Runs(p, t, l), Goto(t, m), UNCHANGED <<from, cur, spinning>>,
         m # "reap", m \in {"resume", "recheck", "requeue"} => l \in {"resume", "recheck"}
  PROVE  \A u \in TCBs :
        /\ Off(u)' <=> Off(u)
        /\ \A q \in Processors : Handoff(q, u)' => Handoff(q, u)
        /\ \A q \in Processors : Reaps(q, u)' => Reaps(q, u)
<1>1. p \notin spinning /\ cur[p] = t /\ pc[t] = l /\ OnStack(p, t)
  BY DEF Runs, OnStack
<1>2. \A u \in TCBs : pc'[u] = IF u = t THEN m ELSE pc[u]
  BY DEF SchedInv, Kinds, Goto
<1>3. \A q \in Processors : q \notin spinning /\ cur[q] = t => q = p
  BY <1>1, Executes
<1>4. cur \in [Processors -> TCBs]
  BY DEF SchedInv, Kinds
<1>5. \A u \in TCBs : Off(u)' <=> Off(u)
  BY DEF Off, OnStack
<1>6. \A q \in Processors, u \in TCBs : Handoff(q, u)' => Handoff(q, u)
  BY <1>1, <1>2, <1>3, <1>4 DEF Handoff
<1>7. \A q \in Processors, u \in TCBs : Reaps(q, u)' => Reaps(q, u)
  BY <1>1, <1>2, <1>3, <1>4 DEF Reaps
<1> QED BY <1>5, <1>6, <1>7

(* A step of one thread that ends none and frees only what is dead. *)
LEMMA MovesOnEnd ==
  ASSUME SchedInv, EndInv, UNCHANGED program,
         NEW p \in Processors, NEW t \in TCBs, NEW l, NEW m,
         Runs(p, t, l), Goto(t, m), UNCHANGED <<from, cur, spinning>>,
         m # "reap", m \in {"resume", "recheck", "requeue"} => l \in {"resume", "recheck"},
         \A u \in TCBs : (Live(u)' <=> Live(u)) /\ (Gone(u)' => Gone(u))
  PROVE  EndInv'
<1> SUFFICES ASSUME NEW u \in TCBs PROVE EndsWell(u)'
  BY DEF EndInv
<1>1. EndsWell(u)
  BY DEF EndInv
<1>2. /\ Off(u)' <=> Off(u)
      /\ \A q \in Processors : Handoff(q, u)' => Handoff(q, u)
      /\ \A q \in Processors : Reaps(q, u)' => Reaps(q, u)
  BY MovesOn
<1> QED BY <1>1, <1>2, EndStays

(* A step that ends nobody and leaves every thread where it is. *)
LEMMA AsideEnd ==
  ASSUME EndInv, UNCHANGED <<program, state, freed, pc, from, cur, spinning>>
  PROVE  EndInv'
BY DEF EndInv, EndsWell, Live, Gone, Off, OnStack, Handoff, Reaps, Runner

LEMMA SaveStateEnd ==
  ASSUME SchedInv, EndInv, UNCHANGED program, NEW p \in Processors, SaveState(p)
  PROVE  EndInv'
<1>1. PICK t \in TCBs : /\ Runs(p, t, "switch") /\ state' = [state EXCEPT ![t] = stopAs[t]]
                        /\ Goto(t, "resume") /\ spinning' = spinning \cup {p}
                        /\ UNCHANGED <<freed, from, cur>>
  BY DEF SaveState, StoredState
<1>2. /\ p \notin spinning /\ cur[p] = t /\ pc[t] = "switch" /\ OnStack(p, t) /\ ~Off(t)
      /\ \A u \in TCBs : pc'[u] = IF u = t THEN "resume" ELSE pc[u]
      /\ \A u \in TCBs : state'[u] = IF u = t THEN stopAs[t] ELSE state[u]
      /\ cur \in [Processors -> TCBs]
  BY <1>1 DEF Runs, OnStack, Off, SchedInv, Kinds, Goto
<1>3. \A q \in Processors : q \notin spinning /\ cur[q] = t => q = p
  BY <1>2, Executes
<1>4. /\ \A q \in Processors, u \in TCBs : OnStack(q, u)' <=> OnStack(q, u) /\ q # p
      /\ \A u \in TCBs : Off(u)' <=> Off(u) \/ u = t
  BY <1>1, <1>2, <1>3 DEF OnStack, Off
<1>5. \A q \in Processors, u \in TCBs : u # t =>
        /\ Handoff(q, u)' => Handoff(q, u)
        /\ Reaps(q, u)' => Reaps(q, u)
  BY <1>1, <1>2, <1>3 DEF Handoff, Reaps
<1>6. stopAs[t] \in {"RUNABLE", "BLOCKED", "DYING"} /\ (~Live(t) <=> stopAs[t] = "DYING")
  BY DEF SchedInv, Kinds, EndingStays
<1>7. \A u \in TCBs : (Live(u)' <=> Live(u))
  BY <1>2, <1>6 DEF Live
<1>8. ASSUME NEW u \in TCBs, u # t PROVE EndsWell(u)'
  <2>1. EndsWell(u)
    BY DEF EndInv
  <2>2. Gone(u)' => Gone(u)
    BY <1>1, <1>2, <1>8 DEF Gone
  <2>3. /\ Live(u)' <=> Live(u)
        /\ Off(u) => Off(u)'
        /\ \A q \in Processors : Handoff(q, u)' => Handoff(q, u)
        /\ \A q \in Processors : Reaps(q, u)' => Reaps(q, u)
    BY <1>4, <1>5, <1>7, <1>8
  <2> QED BY <2>1, <2>2, <2>3, EndStays
<1>9. EndsWell(t)'
  <2>1. EndsWell(t) /\ ~Gone(t)
    BY <1>2 DEF EndInv, EndsWell
  <2>2. ~Gone(t)'
    BY <1>1, <1>2, <1>6, <2>1 DEF Gone
  <2>3. \A q \in Processors : ~Live(t) => ~Reaps(q, t)
    BY <1>2, <2>1 DEF EndsWell
  <2>4. \A q \in Processors : ~Live(t) => ~Reaps(q, t)'
    BY <1>1, <1>2, <1>3, <2>3 DEF Reaps
  <2>5. (Live(t) => t \notin freed)' /\ (~Live(t) => Runner(t))'
    BY <1>1, <1>7, <2>1 DEF EndsWell, Runner
  <2>6. \A q \in Processors : ~Live(t)' => ~Reaps(q, t)'
    BY <1>7, <2>4
  <2> QED BY <2>2, <2>5, <2>6 DEF EndsWell
<1> QED BY <1>8, <1>9 DEF EndInv

LEMMA LoadStackEnd ==
  ASSUME SchedInv, EndInv, UNCHANGED program, NEW p \in Processors, LoadStack(p)
  PROVE  EndInv'
<1> DEFINE u == to[p]
           c == cur[p]
<1>1. /\ p \in spinning /\ u \in TCBs /\ c \in TCBs /\ state[u] # "RUNNING"
      /\ from' = [from EXCEPT ![u] = c] /\ cur' = [cur EXCEPT ![p] = u]
      /\ spinning' = spinning \ {p} /\ UNCHANGED <<state, freed, pc>>
      /\ from \in [TCBs -> TCBs \cup {NoThread}] /\ cur \in [Processors -> TCBs]
  BY DEF SchedInv, Kinds, PicksToSwitch, LoadStack, MayLoad
<1>2. Off(u) /\ pc[u] \in {"none", "resume"} /\ Live(u)
  BY <1>1, PickedIsOff
<1>3. \A t \in TCBs : t # u => (Off(t) => Off(t)')
  BY <1>1 DEF Off, OnStack
<1>4. \A q \in Processors, t \in TCBs : Handoff(q, t)' => Handoff(q, t)
  BY <1>1, <1>2 DEF Handoff, Off, OnStack
<1>5. \A q \in Processors, t \in TCBs : Reaps(q, t)' => Reaps(q, t)
  BY <1>1, <1>2 DEF Reaps, Off, OnStack
<1>6. \A t \in TCBs : (Live(t)' <=> Live(t)) /\ (Gone(t)' <=> Gone(t))
  BY <1>1 DEF Live, Gone
<1> SUFFICES ASSUME NEW t \in TCBs PROVE EndsWell(t)'
  BY DEF EndInv
<1>7. EndsWell(t)
  BY DEF EndInv
<1> QED BY <1>2, <1>3, <1>4, <1>5, <1>6, <1>7, EndStays

(* The thread before is seen to be DYING: its one reaper is found, and nobody else looks. *)
LEMMA CheckDyingEnd ==
  ASSUME SchedInv, EndInv, UNCHANGED program, NEW p \in Processors, CheckDying(p), Separate
  PROVE  EndInv'
<1>1. PICK t \in TCBs : /\ Runs(p, t, "resume")
                        /\ Goto(t, IF state[from[t]] = "DYING" THEN "reap" ELSE "recheck")
                        /\ UNCHANGED <<state, freed, from, cur, spinning>>
  BY DEF CheckDying, NotDying, Separate
<1>2. \A u \in TCBs : (Live(u)' <=> Live(u)) /\ (Gone(u)' <=> Gone(u))
  BY <1>1 DEF Live, Gone
<1>3. CASE state[from[t]] # "DYING"
  BY <1>1, <1>2, <1>3, MovesOnEnd
<1>4. CASE state[from[t]] = "DYING"
  <2>0. PICK f \in TCBs : f = from[t]
    BY <1>1 DEF Runs, SchedInv, FromKnown
  <2>1. /\ p \notin spinning /\ cur[p] = t /\ pc[t] = "resume" /\ OnStack(p, t)
        /\ \A u \in TCBs : pc'[u] = IF u = t THEN "reap" ELSE pc[u]
        /\ cur \in [Processors -> TCBs]
    BY <1>1, <1>4 DEF Runs, OnStack, SchedInv, Kinds, Goto
  <2>2. \A q \in Processors : q \notin spinning /\ cur[q] = t => q = p
    BY <2>1, Executes
  <2>3. ~Live(f) /\ Handoff(p, f)
    BY <1>4, <2>0, <2>1 DEF Live, Handoff
  <2>4. EndsWell(f)
    BY <2>3 DEF EndInv
  <2>5. Runner(f) /\ ~Gone(f) /\ \A q \in Processors : ~Reaps(q, f)
    BY <2>3, <2>4 DEF EndsWell
  <2>6. Off(f) /\ \A q \in Processors : Handoff(q, f) => q = p
    BY <2>3, <2>5 DEF SchedInv, OneHandoff, Runner
  <2>7. \A u \in TCBs : Off(u)' <=> Off(u)
    BY <1>1 DEF Off, OnStack
  <2>8. \A q \in Processors, u \in TCBs :
          /\ Handoff(q, u)' => Handoff(q, u) /\ (q = p => p \in spinning)
          /\ Reaps(q, u)' => Reaps(q, u) \/ (q = p /\ u = f)
    BY <1>1, <2>0, <2>1, <2>2 DEF Handoff, Reaps
  <2>9. ASSUME NEW u \in TCBs, u # f PROVE EndsWell(u)'
    <3>1. EndsWell(u) /\ UNCHANGED program
      BY DEF EndInv
    <3>2. /\ Live(u)' <=> Live(u)
          /\ Gone(u)' => Gone(u)
          /\ Off(u) => Off(u)'
          /\ \A q \in Processors : Handoff(q, u)' => Handoff(q, u)
          /\ \A q \in Processors : Reaps(q, u)' => Reaps(q, u)
      BY <1>2, <2>7, <2>8, <2>9
    <3> QED BY <3>1, <3>2, EndStays
  <2>10. EndsWell(f)'
    <3>1. ~Live(f)' /\ ~Gone(f)' /\ Off(f)' /\ Runner(f)'
      BY <1>2, <2>3, <2>5, <2>6, <2>7 DEF Runner
    <3>2. \A q \in Processors : ~Handoff(q, f)' /\ (Reaps(q, f)' => q = p)
      BY <2>1, <2>3, <2>5, <2>6, <2>8
    <3> QED BY <3>1, <3>2 DEF EndsWell
  <2> QED BY <2>9, <2>10 DEF EndInv
<1> QED BY <1>3, <1>4

LEMMA ReapEnd ==
  ASSUME SchedInv, EndInv, UNCHANGED program, NEW p \in Processors, Reap(p)
  PROVE  EndInv'
<1>0. PICK t \in TCBs :
        /\ Runs(p, t, "reap") /\ Goto(t, "enter") /\ UNCHANGED <<from, cur, spinning>>
        /\ \/ freed' = freed \cup {from[t]} /\ state' = state
           \/ state' = [state EXCEPT ![from[t]] = "DEAD"] /\ freed' = freed
  BY DEF Reap, ReaperFrees
<1>1. PICK f \in TCBs :
        /\ f = from[t]
        /\ \/ freed' = freed \cup {f} /\ state' = state
           \/ state' = [state EXCEPT ![f] = "DEAD"] /\ freed' = freed
  BY <1>0 DEF Runs, SchedInv, FromKnown
<1>2. ~Live(f) /\ Reaps(p, f)
  BY <1>0, <1>1 DEF SchedInv, ReapsEnded, Runs, Reaps
<1>3. /\ Off(f) /\ ~Gone(f) /\ Runner(f)
      /\ \A q \in Processors : ~Handoff(q, f) /\ (Reaps(q, f) => q = p)
  BY <1>2 DEF EndInv, EndsWell
<1>4. \A u \in TCBs : (Live(u)' <=> Live(u)) /\ (u # f => (Gone(u)' <=> Gone(u)))
  BY <1>1, <1>2 DEF Live, Gone, SchedInv, Kinds
<1>5. \A u \in TCBs :
        /\ Off(u)' <=> Off(u)
        /\ \A q \in Processors : Handoff(q, u)' => Handoff(q, u)
        /\ \A q \in Processors : Reaps(q, u)' => Reaps(q, u)
  BY <1>0, MovesOn
<1>6. ~Reaps(p, f)'
  BY <1>0 DEF Reaps, Runs, Goto, SchedInv, Kinds
<1>7. ASSUME NEW u \in TCBs, u # f PROVE EndsWell(u)'
  <2>1. EndsWell(u)
    BY DEF EndInv
  <2>2. /\ Live(u)' <=> Live(u)
        /\ Gone(u)' => Gone(u)
        /\ Off(u) => Off(u)'
        /\ \A q \in Processors : Handoff(q, u)' => Handoff(q, u)
        /\ \A q \in Processors : Reaps(q, u)' => Reaps(q, u)
    BY <1>4, <1>5, <1>7
  <2> QED BY <2>1, <2>2, EndStays
<1>8. EndsWell(f)'
  <2>1. ~Live(f)' /\ Off(f)' /\ Runner(f)'
    BY <1>2, <1>3, <1>4, <1>5 DEF Runner
  <2>2. \A q \in Processors : ~Handoff(q, f)' /\ ~Reaps(q, f)'
    BY <1>2, <1>3, <1>5, <1>6
  <2> QED BY <2>1, <2>2 DEF EndsWell
<1> QED BY <1>7, <1>8 DEF EndInv

(* A thread that returns has a whole life before it: nobody looks at it yet. *)
LEMMA ExitEnd ==
  ASSUME SchedInv, EndInv, UNCHANGED program, Returners, NEW p \in Processors, Exit(p)
  PROVE  EndInv'
<1>1. PICK t \in Threads : /\ Runs(p, t, "run") /\ "exit" \in program.calls[t]
                           /\ state' = [state EXCEPT ![t] = "DYING"] /\ Goto(t, "stop")
                           /\ UNCHANGED <<freed, from, cur, spinning>>
  BY DEF Exit, Stop
<1>2. t \in TCBs /\ OnStack(p, t) /\ pc[t] = "run"
  BY <1>1, Names DEF Runs, OnStack
<1>3. Runner(t) /\ Live(t) /\ ~Off(t) /\ \A q \in Processors : ~Handoff(q, t)
  BY <1>1, <1>2, Executes DEF Returners
<1>4. \A q \in Processors : ~Reaps(q, t)
  BY <1>3 DEF SchedInv, ReapsEnded, Reaps
<1>5. ~Gone(t)
  BY <1>2, <1>3 DEF EndInv, EndsWell
<1>6. \A u \in TCBs : (u # t => (Live(u)' <=> Live(u))) /\ (Gone(u)' => Gone(u))
  BY <1>1, <1>2 DEF Live, Gone, SchedInv, Kinds
<1>7. \A u \in TCBs :
        /\ Off(u)' <=> Off(u)
        /\ \A q \in Processors : Handoff(q, u)' => Handoff(q, u)
        /\ \A q \in Processors : Reaps(q, u)' => Reaps(q, u)
  BY <1>1, <1>2, MovesOn
<1>8. ASSUME NEW u \in TCBs, u # t PROVE EndsWell(u)'
  <2>1. EndsWell(u)
    BY DEF EndInv
  <2>2. /\ Live(u)' <=> Live(u)
        /\ Gone(u)' => Gone(u)
        /\ Off(u) => Off(u)'
        /\ \A q \in Processors : Handoff(q, u)' => Handoff(q, u)
        /\ \A q \in Processors : Reaps(q, u)' => Reaps(q, u)
    BY <1>6, <1>7, <1>8
  <2> QED BY <2>1, <2>2, EndStays
<1>9. EndsWell(t)'
  <2>1. ~Gone(t)' /\ Runner(t)' /\ ~Live(t)'
    BY <1>1, <1>2, <1>3, <1>5, <1>6 DEF Runner, Live, SchedInv, Kinds
  <2>2. \A q \in Processors : ~Handoff(q, t)' /\ ~Reaps(q, t)'
    BY <1>2, <1>3, <1>4, <1>7
  <2> QED BY <2>1, <2>2 DEF EndsWell
<1> QED BY <1>8, <1>9 DEF EndInv

(* A new thread is executed nowhere. *)
LEMMA CreateEnd ==
  ASSUME SchedInv, EndInv, UNCHANGED program, NEW p \in Processors, Create(p)
  PROVE  EndInv'
<1>1. PICK c \in Threads : /\ state[c] = "NONE" /\ state' = [state EXCEPT ![c] = "NASCENT"]
                           /\ Goto(c, "resume") /\ UNCHANGED <<freed, from, cur, spinning>>
  BY DEF Create, NewThread
<1>2. c \in TCBs /\ Off(c) /\ cur \in [Processors -> TCBs]
      /\ \A u \in TCBs : pc'[u] = IF u = c THEN "resume" ELSE pc[u]
  BY <1>1, Names DEF SchedInv, FreshIsNone, NoneIsOff, Kinds, Goto
<1>3. \A u \in TCBs : (Live(u)' <=> Live(u)) /\ (Gone(u)' => Gone(u)) /\ (Off(u)' <=> Off(u))
  BY <1>1, <1>2 DEF Live, Gone, SchedInv, Kinds, Off, OnStack
<1>4. \A q \in Processors : q \notin spinning => cur[q] # c
  BY <1>2 DEF Off, OnStack
<1>5. \A q \in Processors, u \in TCBs : (Handoff(q, u)' => Handoff(q, u)) /\ (Reaps(q, u)' => Reaps(q, u))
  BY <1>1, <1>2, <1>4 DEF Handoff, Reaps
<1> SUFFICES ASSUME NEW u \in TCBs PROVE EndsWell(u)'
  BY DEF EndInv
<1>6. EndsWell(u)
  BY DEF EndInv
<1> QED BY <1>3, <1>5, <1>6, EndStays

(* The other steps end nobody, and free only what was left DEAD. *)
LEMMA ElsewhereEnd ==
  ASSUME SchedInv, EndInv, Separate, UNCHANGED program, NEW p \in Processors,
         \/ Dequeue(p) \/ PreSleep(p) \/ Sleep(p) \/ Awake(p) \/ CheckRunable(p) \/ Requeue(p) \/ Enter(p)
         \/ Yield(p) \/ Block(p) \/ Wait(p) \/ Wake(p) \/ Park(p)
         \/ JoinCheck(p) \/ DetachCheck(p) \/ JoinLocked(p) \/ Joined(p) \/ DetachLocked(p)
  PROVE  EndInv'
<1> DEFINE Moves(t, l, m) == /\ Runs(p, t, l) /\ Goto(t, m) /\ UNCHANGED <<from, cur, spinning>>
                             /\ m \notin {"reap", "resume", "recheck"} /\ (m = "requeue" => l = "recheck")
<1>1. CASE Dequeue(p) \/ PreSleep(p) \/ Sleep(p) \/ Awake(p) \/ CheckRunable(p) \/ Requeue(p)
  <2>1. PICK t \in TCBs, l, m \in Places : Moves(t, l, m) /\ UNCHANGED <<state, freed>>
    BY <1>1, Names DEF Dequeue, PreSleep, Sleep, Awake, CheckRunable, Requeue, Places
  <2>2. \A u \in TCBs : (Live(u)' <=> Live(u)) /\ (Gone(u)' => Gone(u))
    BY <2>1 DEF Live, Gone
  <2> QED BY <2>1, <2>2, MovesOnEnd
<1>2. CASE Enter(p)
  <2>1. PICK t \in TCBs : /\ Runs(p, t, "enter") /\ UNCHANGED <<freed, from, cur, spinning>>
                          /\ state' = [state EXCEPT ![t] = "RUNNING"]
                          /\ \/ Goto(t, retTo[t])
                             \/ Goto(t, "stop") \/ Goto(t, "run")
    BY <1>2 DEF Enter, BaseCode
  <2>2. retTo[t] \in {"run", "stop", "joined"} /\ Live(t)
    BY <2>1 DEF SchedInv, Kinds, EndingStops, Runs
  <2>3. PICK m \in {"run", "stop", "joined"} : Goto(t, m)
    BY <2>1, <2>2
  <2>4. \A u \in TCBs : (Live(u)' <=> Live(u)) /\ (Gone(u)' => Gone(u))
    BY <2>1, <2>2 DEF Live, Gone, SchedInv, Kinds
  <2> QED BY <2>1, <2>3, <2>4, MovesOnEnd
<1>3. CASE Yield(p) \/ Block(p) \/ Wait(p) \/ Park(p)
  <2>1. PICK t \in Threads : /\ Runs(p, t, "run") /\ Goto(t, "stop")
                             /\ UNCHANGED <<state, freed, from, cur, spinning>>
    BY <1>3 DEF Yield, Block, Wait, Park, Calls, Stop
  <2>2. \A u \in TCBs : (Live(u)' <=> Live(u)) /\ (Gone(u)' => Gone(u))
    BY <2>1 DEF Live, Gone
  <2> QED BY <2>1, <2>2, Names, MovesOnEnd
<1>4. CASE Wake(p)
  BY <1>4, AsideEnd DEF Wake
<1>5. CASE JoinCheck(p) \/ DetachCheck(p)
  <2>1. PICK t \in Threads, m \in {"join", "detach"} :
           /\ Runs(p, t, "run") /\ (Goto(t, m) \/ pc' = pc)
           /\ UNCHANGED <<state, freed, from, cur, spinning>>
    BY <1>5 DEF JoinCheck, DetachCheck, Claims, Calls
  <2>2. \A u \in TCBs : (Live(u)' <=> Live(u)) /\ (Gone(u)' => Gone(u))
    BY <2>1 DEF Live, Gone
  <2>3. CASE pc' = pc
    BY <2>1, <2>3, AsideEnd
  <2>4. CASE Goto(t, m)
    BY <2>1, <2>2, <2>4, Names, MovesOnEnd
  <2> QED BY <2>1, <2>3, <2>4
<1>6. CASE JoinLocked(p) \/ Joined(p) \/ DetachLocked(p)
  <2>1. PICK t \in Threads, l \in {"join", "joined", "detach"}, m \in {"stop", "run"} :
           /\ Runs(p, t, l) /\ Goto(t, m) /\ UNCHANGED <<state, from, cur, spinning>>
           /\ freed' = freed \/ (state[arg[t]] = "DEAD" /\ freed' = freed \cup {arg[t]})
    BY <1>6 DEF JoinLocked, Joined, DetachLocked, JoinEnd, Stop
  <2>2. \A u \in TCBs : (Live(u)' <=> Live(u)) /\ (Gone(u)' => Gone(u))
    BY <2>1 DEF Live, Gone
  <2> QED BY <2>1, <2>2, Names, MovesOnEnd
<1> QED BY <1>1, <1>2, <1>3, <1>4, <1>5, <1>6

LEMMA EndStep ==
  ASSUME SchedInv, EndInv, Separate, Returners, [Next]_vars
  PROVE  EndInv'
<1>1. CASE UNCHANGED vars
  BY <1>1, AsideEnd DEF vars, sched
<1>2. ASSUME NEW p \in Processors, SpuriousWakeup(p), UNCHANGED program PROVE EndInv'
  BY <1>2, AsideEnd DEF SpuriousWakeup, sched
<1>3. ASSUME NEW p \in Processors, Call(p), UNCHANGED program PROVE EndInv'
  <2>1. ~Unblock(p)
    BY DEF Separate, Unblock, Calls
  <2> QED BY <1>3, <2>1, CreateEnd, ElsewhereEnd DEF Call
<1>4. ASSUME NEW p \in Processors, Kernel(p), UNCHANGED program PROVE EndInv'
  <2>1. ~BaseYields(p)
    BY DEF SchedInv, BasesAtHome, BaseYields, Runs
  <2> QED BY <1>4, <2>1, SaveStateEnd, LoadStackEnd, CheckDyingEnd, ReapEnd, ExitEnd, ElsewhereEnd DEF Kernel
<1> QED BY <1>1, <1>2, <1>3, <1>4 DEF Next, Step

-----------------------------------------------------------------------------
LEMMA ClaimsStay ==
  ASSUME ClaimsInv, UNCHANGED <<freed, joiner, arg, claims>>,
         \A t \in Threads : pc'[t] \in {"join", "detach"} => pc'[t] = pc[t]
  PROVE  ClaimsInv'
BY DEF ClaimsInv, ClaimKinds, Claimed

(* The claimant is done: the dead thread is freed, or left to its reaper. *)
LEMMA JoinEndClaims ==
  ASSUME SchedInv, ClaimsInv, NEW t \in Threads, arg[t] \in Threads, JoinEnd(t), UNCHANGED claims
  PROVE  ClaimsInv'
<1> DEFINE a == arg[t]
<1>1. PICK x \in Threads : x = arg[t]
  OBVIOUS
<1>2. /\ t \in TCBs /\ claims[x] = 1 /\ arg' = [arg EXCEPT ![t] = NoThread]
      /\ \/ freed' = freed \cup {x} /\ joiner' = joiner
         \/ freed' = freed /\ joiner' = [joiner EXCEPT ![x] = Detached]
      /\ \A u \in Threads : pc'[u] = IF u = t THEN "run" ELSE pc[u]
      /\ arg \in [TCBs -> Threads \cup {NoThread}] /\ NoThread \notin Threads
  BY <1>1, Names DEF SchedInv, Kinds, ClaimsInv, Claimed, JoinEnd, ClaimedJoiner, Goto
<1>3. \A u \in TCBs : arg'[u] \in Threads => u # t /\ arg'[u] = arg[u] /\ arg[u] # x
  BY <1>1, <1>2 DEF ClaimsInv, Claimed
<1>4. ClaimKinds'
  BY <1>2, <1>3, Names DEF ClaimsInv, ClaimKinds
<1>5. \A u \in Threads : u # x => joiner'[u] = joiner[u] /\ (u \in freed' <=> u \in freed)
  BY <1>2, Names DEF SchedInv, Kinds
<1>6. Claimed'
  BY <1>1, <1>2, <1>3, <1>5 DEF ClaimsInv, Claimed
<1> QED BY <1>4, <1>6 DEF ClaimsInv

LEMMA ClaimClaims ==
  ASSUME SchedInv, ClaimsInv, ClaimOnce, NEW p \in Processors, JoinCheck(p) \/ DetachCheck(p)
  PROVE  ClaimsInv'
<1>1. PICK t, u \in Threads, m \in {"join", "detach"} :
         /\ claims[u] < MaxClaims /\ claims' = [claims EXCEPT ![u] = @ + 1]
         /\ UNCHANGED <<freed, joiner>>
         /\ \/ joiner[u] = NoThread /\ Goto(t, m) /\ arg' = [arg EXCEPT ![t] = u]
            \/ UNCHANGED <<pc, arg>>
  <2>1. CASE JoinCheck(p)
    BY <2>1 DEF JoinCheck, Claims
  <2>2. CASE DetachCheck(p)
    BY <2>2 DEF DetachCheck, Claims
  <2> QED BY <2>1, <2>2
<1>2. claims[u] = 0 /\ claims'[u] = 1 /\ \A x \in Threads : x # u => claims'[x] = claims[x]
  BY <1>1, BoundsAssumption DEF ClaimOnce, ClaimsInv, ClaimKinds
<1>3. (\A x \in TCBs : arg[x] \in Threads => arg[x] # u) /\ joiner[u] = NoThread /\ u \notin freed
  BY <1>2 DEF ClaimsInv, Claimed
<1>4. /\ arg \in [TCBs -> Threads \cup {NoThread}] /\ pc \in [TCBs -> Places] /\ t \in TCBs
      /\ NoThread # Detached
  BY Names, NullAssumption DEF SchedInv, Kinds
<1>5. claims' \in [Threads -> 0..1]
  BY <1>1, <1>2 DEF ClaimsInv, ClaimKinds
<1>6. CASE Goto(t, m) /\ arg' = [arg EXCEPT ![t] = u]
  <2>1. \A x \in TCBs : /\ arg'[x] = (IF x = t THEN u ELSE arg[x])
                         /\ pc'[x] = (IF x = t THEN m ELSE pc[x])
    BY <1>4, <1>6 DEF Goto
  <2>2. ClaimKinds'
    BY <1>1, <1>5, <2>1, Names DEF ClaimsInv, ClaimKinds
  <2>3. Claimed'
    BY <1>1, <1>2, <1>3, <1>4, <2>1 DEF ClaimsInv, Claimed
  <2> QED BY <2>2, <2>3 DEF ClaimsInv
<1>7. CASE UNCHANGED <<pc, arg>>
  BY <1>1, <1>2, <1>3, <1>5, <1>7 DEF ClaimsInv, ClaimKinds, Claimed
<1> QED BY <1>1, <1>6, <1>7

LEMMA JoinClaims ==
  ASSUME SchedInv, ClaimsInv, NEW p \in Processors, JoinLocked(p) \/ Joined(p) \/ DetachLocked(p)
  PROVE  ClaimsInv'
<1>1. PICK t \in Threads, l \in {"join", "joined", "detach"} :
        /\ Runs(p, t, l) /\ UNCHANGED claims
        /\ \/ JoinEnd(t)
           \/ /\ joiner' = [joiner EXCEPT ![arg[t]] = t] /\ Goto(t, "stop")
              /\ UNCHANGED <<freed, arg>>
  BY DEF JoinLocked, Joined, DetachLocked, Stop, prog
<1>2. arg[t] \in Threads
  BY <1>1, EndedIsThread DEF SchedInv, EndSeen, ClaimsInv, ClaimKinds, Runs
<1>3. CASE JoinEnd(t)
  BY <1>1, <1>2, <1>3, JoinEndClaims
<1>4. CASE /\ joiner' = [joiner EXCEPT ![arg[t]] = t] /\ Goto(t, "stop")
           /\ UNCHANGED <<freed, arg>>
  <2>1. t \in TCBs /\ t # Detached /\ claims[arg[t]] = 1
    BY <1>2, Names, NullAssumption DEF ClaimsInv, Claimed
  <2>2. \A x \in Threads : joiner'[x] = (IF x = arg[t] THEN t ELSE joiner[x])
    BY <1>2, <1>4, Names DEF SchedInv, Kinds
  <2>3. \A x \in Threads : pc'[x] \in {"join", "detach"} => pc'[x] = pc[x]
    BY <1>4, Names DEF SchedInv, Kinds, Goto
  <2>4. ClaimKinds'
    BY <1>1, <1>4, <2>3 DEF ClaimsInv, ClaimKinds
  <2>5. Claimed'
    BY <1>1, <1>2, <1>4, <2>1, <2>2 DEF ClaimsInv, Claimed
  <2> QED BY <2>4, <2>5 DEF ClaimsInv
<1> QED BY <1>1, <1>3, <1>4

(* The reaper frees a thread that was detached, or joined and left to it: nobody else will. *)
LEMMA ReapClaims ==
  ASSUME SchedInv, ClaimsInv, NEW p \in Processors, Reap(p)
  PROVE  ClaimsInv'
<1>1. PICK t \in TCBs :
        /\ Runs(p, t, "reap") /\ Goto(t, "enter") /\ UNCHANGED <<joiner, arg, claims>>
        /\ freed' = freed \/ (joiner[from[t]] = Detached /\ freed' = freed \cup {from[t]})
  BY DEF Reap, ReaperFrees, prog
<1>2. from[t] \in Threads
  BY <1>1 DEF Runs, SchedInv, FromKnown, ReapsEnded, EndingStops
<1>3. \A x \in Threads : pc'[x] \in {"join", "detach"} => pc'[x] = pc[x]
  BY <1>1, Names DEF SchedInv, Kinds, Goto
<1>4. ClaimKinds'
  BY <1>1, <1>2, <1>3 DEF ClaimsInv, ClaimKinds
<1>5. Claimed'
  BY <1>1, <1>2, NullAssumption DEF ClaimsInv, Claimed
<1> QED BY <1>4, <1>5 DEF ClaimsInv

LEMMA ElsewhereClaims ==
  ASSUME SchedInv, ClaimsInv, NEW p \in Processors,
         \/ Dequeue(p) \/ PreSleep(p) \/ Sleep(p) \/ Awake(p) \/ CheckRunable(p) \/ Requeue(p) \/ Enter(p)
         \/ SaveState(p) \/ LoadStack(p) \/ CheckDying(p) \/ Exit(p) \/ Create(p)
         \/ Yield(p) \/ Block(p) \/ Wait(p) \/ Wake(p) \/ Park(p)
  PROVE  ClaimsInv'
<1>1. UNCHANGED <<freed, joiner, arg, claims>>
  BY DEF Dequeue, PreSleep, Sleep, Awake, CheckRunable, Requeue, Enter, SaveState, LoadStack, CheckDying,
         Exit, Create, Yield, Block, Wait, Wake, Park, prog
<1>2. CASE LoadStack(p) \/ Wake(p)
  BY <1>1, <1>2, ClaimsStay DEF LoadStack, Wake
<1>3. CASE ~(LoadStack(p) \/ Wake(p))
  <2>1. PICK t \in TCBs, m \in Places \ {"join", "detach"} : Goto(t, m)
    <3>1. CASE Enter(p)
      <4>1. \A t \in TCBs : retTo[t] \in {"run", "stop", "joined"}
        BY DEF SchedInv, Kinds
      <4>2. PICK t \in TCBs : Goto(t, "run") \/ Goto(t, "stop") \/ Goto(t, "joined")
        BY <3>1, <4>1 DEF Enter, BaseCode
      <4> QED BY <4>2 DEF Places
    <3>2. CASE Dequeue(p) \/ PreSleep(p) \/ Sleep(p) \/ Awake(p)
      <4>1. PICK t \in TCBs : Goto(t, "switch") \/ Goto(t, "presleep") \/ Goto(t, "asleep") \/ Goto(t, "stop")
        BY <3>2, Names DEF Dequeue, PreSleep, Sleep, Awake
      <4> QED BY <4>1 DEF Places
    <3>3. CASE CheckRunable(p) \/ Requeue(p) \/ SaveState(p) \/ CheckDying(p)
      <4>1. PICK t \in TCBs : Goto(t, "requeue") \/ Goto(t, "enter") \/ Goto(t, "resume") \/ Goto(t, "reap")
                                \/ Goto(t, "recheck")
        BY <3>3, Names DEF CheckRunable, Requeue, SaveState, CheckDying, NotDying
      <4> QED BY <4>1 DEF Places
    <3>4. CASE Exit(p) \/ Yield(p) \/ Block(p) \/ Wait(p) \/ Park(p)
      <4>1. PICK t \in Threads : Goto(t, "stop")
        BY <3>4 DEF Exit, Yield, Block, Wait, Park, Stop
      <4> QED BY <4>1, Names DEF Places
    <3>5. CASE Create(p)
      <4>1. PICK t \in Threads : Goto(t, "resume")
        BY <3>5 DEF Create, NewThread
      <4> QED BY <4>1, Names DEF Places
    <3> QED BY <1>3, <3>1, <3>2, <3>3, <3>4, <3>5
  <2>2. \A x \in Threads : pc'[x] \in {"join", "detach"} => pc'[x] = pc[x]
    BY <2>1, Names DEF SchedInv, Kinds, Goto
  <2> QED BY <1>1, <2>2, ClaimsStay
<1> QED BY <1>2, <1>3

LEMMA ClaimsStep ==
  ASSUME SchedInv, ClaimsInv, Separate, ClaimOnce, [Next]_vars
  PROVE  ClaimsInv'
<1>1. CASE UNCHANGED vars
  BY <1>1, ClaimsStay DEF vars, sched, prog
<1>2. ASSUME NEW p \in Processors, SpuriousWakeup(p) PROVE ClaimsInv'
  BY <1>2, ClaimsStay DEF SpuriousWakeup, sched, prog
<1>3. ASSUME NEW p \in Processors, Call(p) PROVE ClaimsInv'
  <2>1. ~Unblock(p)
    BY DEF Separate, Unblock, Calls
  <2> QED BY <1>3, <2>1, ClaimClaims, ElsewhereClaims DEF Call
<1>4. ASSUME NEW p \in Processors, Kernel(p) PROVE ClaimsInv'
  <2>1. ~BaseYields(p)
    BY DEF SchedInv, BasesAtHome, BaseYields, Runs
  <2> QED BY <1>4, <2>1, JoinClaims, ReapClaims, ElsewhereClaims DEF Kernel
<1> QED BY <1>1, <1>2, <1>3, <1>4 DEF Next, Step

-----------------------------------------------------------------------------
LEMMA FreeInit == Init /\ Separate => EndInv /\ ClaimsInv
<1> SUFFICES ASSUME Init, Separate PROVE EndInv /\ ClaimsInv
  OBVIOUS
<1>1. /\ freed = {} /\ claims = [t \in Threads |-> 0] /\ arg = [t \in TCBs |-> NoThread]
      /\ joiner = [t \in TCBs |-> NoThread]
  BY DEF Init
<1>2. \A t \in TCBs : Live(t)
  <2>1. SchedInv
    BY SchedInit
  <2> QED BY <2>1, InitLive
<1>3. EndInv
  BY <1>1, <1>2 DEF EndInv, EndsWell, Gone, Live
<1>4. \A t \in Threads : pc[t] \notin {"join", "detach"}
  BY Zenon, Names DEF Init, BaseCode, Separate
<1>5. ClaimsInv
  BY <1>1, <1>4, Names DEF ClaimsInv, ClaimKinds, Claimed
<1> QED BY <1>3, <1>5

(* What is freed is in nobody's hands. *)
LEMMA FreeProtects ==
  ASSUME SchedInv, EndInv, ClaimsInv
  PROVE  NoUseAfterFree
<1> SUFFICES ASSUME NEW f \in freed PROVE f \notin InUse
  BY DEF NoUseAfterFree
<1> USE DEF SchedInv
<1>1. f \in Threads /\ f \in TCBs /\ Gone(f) /\ EndsWell(f)
  BY Names DEF ClaimsInv, ClaimKinds, Gone, EndInv
<1>2. ~Live(f) /\ Off(f) /\ \A p \in Processors : ~Handoff(p, f) /\ ~Reaps(p, f)
  BY <1>1 DEF EndsWell
<1>3. f \notin Range(ready) /\ \A p \in Processors : to[p] # f
  BY <1>1, <1>2 DEF AnsweredStopped, Answered
<1>4. \A p \in Processors : cur[p] # f
  BY <1>2 DEF Off, OnStack, Handoff
<1>5. \A t \in TCBs, p \in Processors :
        OnStack(p, t) /\ pc[t] \in {"resume", "reap", "recheck", "requeue"} => from[t] # f
  BY <1>2 DEF OnStack, Handoff, Reaps
<1>6. \A t \in TCBs : arg[t] # f
  BY <1>1 DEF ClaimsInv, Claimed
<1> QED BY <1>3, <1>4, <1>5, <1>6 DEF InUse

(* uthread_free: no thread control block is used again once it was freed. *)
THEOREM NoUseAfterFreeCorrect == Spec /\ Separate /\ Returners /\ ClaimOnce => []NoUseAfterFree
<1>1. Init /\ Separate => EndInv /\ ClaimsInv
  BY FreeInit
<1>2. Separate /\ Returners /\ ClaimOnce /\ SchedInv /\ EndInv /\ ClaimsInv /\ [Next]_vars
        => Returners' /\ EndInv' /\ ClaimsInv'
  <2> SUFFICES ASSUME Separate, Returners, ClaimOnce, SchedInv, EndInv, ClaimsInv, [Next]_vars
               PROVE  Returners' /\ EndInv' /\ ClaimsInv'
    OBVIOUS
  <2>1. program' = program
    BY DEF Next, Step, vars
  <2>2. Returners'
    BY <2>1 DEF Returners, Runner
  <2> QED BY <2>2, EndStep, ClaimsStep
<1>3. SchedInv /\ EndInv /\ ClaimsInv => NoUseAfterFree
  BY FreeProtects
<1>4. ClaimOnce => ClaimOnce'
  BY DEF ClaimOnce
<1> QED BY <1>1, <1>2, <1>3, <1>4, DisciplinedAlways, PTL DEF Spec
====
