------------------------------- MODULE Smoke --------------------------------
(***************************************************************************)
(* a10/smoke.c: an agent makes two of three resources available and waits   *)
(* until a smoker has smoked; a handler per resource adds up what is        *)
(* available and wakes the one smoker who lacks the third.  One mutex,      *)
(* seven condition variables; handlers and smokers loop for ever.           *)
(***************************************************************************)
EXTENDS Naturals, FiniteSets

CONSTANTS NUM_ITERATIONS,  \* rounds of the agent (10000 in smoke.c)
          Scopes,          \* scope: the choices of readyFirst
          NoThread         \* holder of a mutex that nobody has locked

(* enum Resource { MATCH = 1, PAPER = 2, TOBACCO = 4 } *)
Resources == {1, 2, 4}
AllResources == 7

(* The handler of a resource, the smoker who has it, and the agent. *)
Handler(r) == <<"handler", r>>
Smoker(r)  == <<"smoker", r>>
agent      == <<"agent", 0>>
main       == <<"main", 0>>
Workers    == {"handler", "smoker"} \X Resources
Threads    == Workers \cup {agent}

(* agent->match and so on, the condition of the smoker who has r, and agent->smoke. *)
Available(r) == <<"available", r>>
Pair(r)      == <<"pair", r>>
smoke        == <<"smoke", 0>>
Conds        == ({"available", "pair"} \X Resources) \cup {smoke}

Everybody == Workers \cup {main}

ScopesAssumption == \A s \in Scopes : s \subseteq Everybody

VARIABLES holder, reader_count, waiter_queue, reader_waiter_queue, cond_queue, woken, at,
          materials,           \* the sum of the resources available and not smoked
          num_active_threads,
          signal_count, smoke_count,
          round,               \* i in agent
          second,              \* the resource the agent has chosen and not yet signalled
          pc,
          readyFirst           \* scope: whose start the agent's own comes after; never changes

monitor == <<holder, reader_count, waiter_queue, reader_waiter_queue, cond_queue, woken, at>>
counts == <<materials, num_active_threads, signal_count, smoke_count, round, second>>
vars == <<monitor, counts, pc, readyFirst>>

M == INSTANCE Monitor

(* pc: start; loop (at its top, or in the mutex_lock before it); waiting (in the
   uthread_cond_wait of the loop); the agent also second, third and returned. *)
Init ==
  /\ M!Init
  /\ materials = 0 /\ num_active_threads = 0 /\ round = 0 /\ second = 0
  /\ signal_count = [r \in Resources |-> 0]
  /\ smoke_count = [r \in Resources |-> 0]
  /\ pc = [t \in Threads |-> "start"]
  /\ readyFirst \in Scopes

Goto(t, l) == pc' = [pc EXCEPT ![t] = l]
Holds(t, l) == pc[t] = l /\ at[t] = "writing"

Signal(t, c) == IF cond_queue[c] = <<>> THEN UNCHANGED monitor ELSE M!CondSignal(t, c)

(* The condition a handler or a smoker waits for. *)
Awaits(t) == IF t[1] = "handler" THEN Available(t[2]) ELSE Pair(t[2])

(* A worker waits for its signal; main has counted the threads. *)
Ready(t) == IF t = main THEN num_active_threads = 3
                        ELSE at[t] = "wait_sleep" /\ cond_queue[Awaits(t)] = <<t>>

Start(t) ==
  /\ pc[t] = "start"
  /\ t = agent => \A u \in readyFirst : Ready(u)
  /\ M!Call(t) /\ at'[t] = "lock"
  /\ Goto(t, "loop")
  /\ UNCHANGED counts

(* main: num_active_threads += 3 after it has created all threads *)
CountThreads ==
  /\ num_active_threads = 0
  /\ num_active_threads' = num_active_threads + 3
  /\ UNCHANGED <<monitor, materials, signal_count, smoke_count, round, second, pc>>

(* The wait at the top of the loops of handlers and smokers. *)
WorkerWaits(t) ==
  /\ t \in Workers /\ Holds(t, "loop")
  /\ M!CondWait(t, Awaits(t)) /\ Goto(t, "waiting")
  /\ UNCHANGED counts

KeepMaterials(available) == available
UsedUp(available) == 0

OwnPair(available) == CHOOSE r \in Resources : r <= available
SmokersPair(available) == AllResources - available

(* materials += r; wake_smoker: with two of them the smoker who has the third. *)
Handle(r) == LET h == Handler(r) available == materials + r IN
  /\ Holds(h, "waiting")
  /\ IF SmokersPair(available) \in Resources
       THEN Signal(h, Pair(SmokersPair(available))) /\ materials' = UsedUp(available)
       ELSE UNCHANGED monitor /\ materials' = available
  /\ Goto(h, "loop")
  /\ UNCHANGED <<num_active_threads, signal_count, smoke_count, round, second>>

Smokes(r) == LET s == Smoker(r) IN
  /\ Holds(s, "waiting")
  /\ Signal(s, smoke)
  /\ smoke_count' = [smoke_count EXCEPT ![r] = @ + 1]
  /\ Goto(s, "loop")
  /\ UNCHANGED <<materials, num_active_threads, signal_count, round, second>>

(* while (num_active_threads < 3) uthread_cond_wait(a->smoke) *)
AgentAwaitsThreads ==
  /\ Holds(agent, "loop") /\ round = 0 /\ num_active_threads < 3
  /\ M!CondWait(agent, smoke)
  /\ UNCHANGED <<counts, pc>>

(* Choose two resources, in either order: signal the first ... *)
AgentFirst(r) ==
  /\ Holds(agent, "loop") /\ round < NUM_ITERATIONS
  /\ round > 0 \/ num_active_threads >= 3
  /\ \E s \in Resources \ {r} :
       /\ signal_count' = [signal_count EXCEPT ![AllResources - r - s] = @ + 1]
       /\ second' = s
  /\ Signal(agent, Available(r))
  /\ Goto(agent, "second")
  /\ UNCHANGED <<materials, num_active_threads, smoke_count, round>>

(* ... and then the second ... *)
AgentSecond ==
  /\ Holds(agent, "second")
  /\ Signal(agent, Available(second))
  /\ Goto(agent, "third")
  /\ UNCHANGED counts

AgentHurries ==
  /\ Holds(agent, "third")
  /\ Goto(agent, "waiting")
  /\ UNCHANGED <<monitor, counts>>

(* ... and wait for the smoke, still holding the mutex since the first. *)
AgentWaits ==
  /\ Holds(agent, "third")
  /\ M!CondWait(agent, smoke)
  /\ Goto(agent, "waiting")
  /\ UNCHANGED counts

AgentLoops ==
  /\ Holds(agent, "waiting")
  /\ round' = round + 1
  /\ Goto(agent, "loop")
  /\ UNCHANGED <<monitor, materials, num_active_threads, signal_count, smoke_count, second>>

AgentReturns ==
  /\ Holds(agent, "loop") /\ round = NUM_ITERATIONS
  /\ M!Unlock(agent)
  /\ Goto(agent, "returned")
  /\ UNCHANGED counts

Agent == AgentAwaitsThreads \/ AgentSecond \/ AgentWaits \/ AgentLoops \/ AgentReturns
         \/ \E r \in Resources : AgentFirst(r)

Worker(r) == WorkerWaits(Handler(r)) \/ WorkerWaits(Smoker(r)) \/ Handle(r) \/ Smokes(r)

MonitorStep(t) == (M!Lock(t) \/ M!Resume(t) \/ M!CondWaitUnlock(t)) /\ UNCHANGED <<counts, pc>>

Step == /\ \/ CountThreads \/ Agent \/ \E r \in Resources : Worker(r)
           \/ \E t \in Threads : Start(t) \/ MonitorStep(t)
        /\ UNCHANGED readyFirst

Finished == pc[agent] = "returned" /\ UNCHANGED vars

Next == Step \/ Finished

Spec == Init /\ [][Next]_vars /\ WF_vars(Step)

(* smoke.c:45: the agent signals only when all the others wait for a signal. *)
SignalsOnlyReady ==
  (Holds(agent, "loop") /\ num_active_threads = 3 /\ round < NUM_ITERATIONS) => \A t \in Workers : Ready(t)

(* Given that in the first round, it is so in each one after it: everybody has gone back
   to wait by the time the agent has the mutex again. *)
EachRoundReady == readyFirst = Everybody => SignalsOnlyReady

(* The asserts at the end of main: the smoker of every round was the right one. *)
CountsMatch == pc[agent] = "returned" =>
  /\ signal_count = smoke_count
  /\ smoke_count[1] + smoke_count[2] + smoke_count[4] = NUM_ITERATIONS

Returned == pc[agent] = "returned"
=============================================================================
