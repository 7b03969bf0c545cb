------------------------------ MODULE Programs ------------------------------
(***************************************************************************)
(* The programs a10/q2.c, q3.c, q4.c and smoke.c, each alone over the       *)
(* mutexes and condition variables of the library.  A behaviour is a run of *)
(* one of them; the variables of the others stay what they are at the start.*)
(***************************************************************************)
EXTENDS Naturals, Sequences, FiniteSets

CONSTANTS t1, t2, t3, BarrierCond, cond0, cond1, NoThread,
          N,                      \* iterations of q2 (100000 in q2.c)
          Party,                  \* threads of q3 (three in q3.c)
          NUM_ITERATIONS, Scopes  \* of smoke

VARIABLES holder, reader_count, waiter_queue, reader_waiter_queue, cond_queue, woken, at,
          program,         \* the program that is run
          cnt, loaded, i,  \* of q2
          count,           \* of q3
          done, printed,   \* of q4
          materials, num_active_threads, signal_count, smoke_count, round, second, readyFirst,
          pc               \* of q3, q4 and smoke

q2vars == <<cnt, loaded, i>>
q4vars == <<done, printed>>
smokevars == <<materials, num_active_threads, signal_count, smoke_count, round, second,
               readyFirst>>
vars == <<holder, reader_count, waiter_queue, reader_waiter_queue, cond_queue, woken, at,
          program, q2vars, count, q4vars, smokevars, pc>>

Q2 == INSTANCE Counter WITH Threads <- {t1, t2, t3}
Q3 == INSTANCE Barrier WITH Threads <- Party
Q4 == INSTANCE Order WITH p0 <- t1, p1 <- t2, p2 <- t3
Smoke == INSTANCE Smoke

ASSUME ScopesAssumption == Smoke!ScopesAssumption
ASSUME NoThreadAssumption == NoThread \notin Smoke!Threads
ASSUME NAssumption == N \in Nat
ASSUME NamesAssumption == /\ t1 \notin {t2, t3} /\ t2 # t3 /\ cond0 # cond1
                          /\ NoThread \notin {t1, t2, t3}
ASSUME PartyAssumption == IsFiniteSet(Party) /\ NoThread \notin Party

Threads == {t1, t2, t3} \cup Party

Idle2 == cnt = 0 /\ loaded = <<>> /\ i = <<>>
Idle4 == done = {} /\ printed = <<>>

IdleSmoke == /\ materials = 0 /\ num_active_threads = 0 /\ round = 0 /\ second = 0
             /\ signal_count = <<>> /\ smoke_count = <<>> /\ readyFirst = {}

Init == \/ program = "q2" /\ Q2!Init /\ Idle4 /\ IdleSmoke /\ count = 0 /\ pc = <<>>
        \/ program = "q3" /\ Q3!Init /\ Idle2 /\ Idle4 /\ IdleSmoke
        \/ program = "q4" /\ Q4!Init /\ Idle2 /\ IdleSmoke /\ count = 0
        \/ program = "smoke" /\ Smoke!Init /\ Idle2 /\ Idle4 /\ count = 0

Step(t) == /\ \/ program = "q2" /\ t \in {t1, t2, t3} /\ Q2!Step(t) /\ UNCHANGED <<count, q4vars, pc>>
              \/ program = "q3" /\ t \in Party /\ Q3!Step(t) /\ UNCHANGED <<q2vars, q4vars>>
              \/ program = "q4" /\ t \in {t1, t2, t3} /\ Q4!Step(t) /\ UNCHANGED <<q2vars, count>>
           /\ UNCHANGED <<program, smokevars>>

SmokeStep == /\ program = "smoke" /\ Smoke!Step
             /\ UNCHANGED <<program, q2vars, count, q4vars>>

Done == \/ program = "q2" /\ Q2!Done
        \/ program = "q3" /\ Q3!Done
        \/ program = "q4" /\ Q4!Done
        \/ program = "smoke" /\ Smoke!Returned

(* main has joined everybody, in smoke.c the agent *)
Finished == Done /\ UNCHANGED vars

Next == Finished \/ SmokeStep \/ \E t \in Threads : Step(t)

Spec == /\ Init /\ [][Next]_vars
        /\ WF_vars(SmokeStep) /\ \A t \in Threads : WF_vars(Step(t))

(* q2.c:46 prints XXX otherwise: whatever the interleaving of the loads and stores,
   every increment and every decrement counts. *)
CountsBack == (program = "q2" /\ Q2!Done) => cnt = 0

(* q3.c: no b is printed before every a. *)
NobodyAhead == program = "q3" => Q3!Together

(* q4.c: zero, one, two, whichever thread comes first. *)
PrintedInOrder == program = "q4" => Q4!InOrder

(* See Smoke. *)
EachRoundReady == program = "smoke" => Smoke!EachRoundReady

(* See Smoke. *)
CountsMatch == program = "smoke" => Smoke!CountsMatch

(* Everybody returns, so that main's joins do: nobody is left asleep at the mutex, at the
   barrier, or waiting for a signal that was given before; of smoke.c the agent, through
   its rounds, when everybody was ready for the first. *)
EverybodyReturns == (program = "smoke" => readyFirst = Smoke!Everybody) ~> Done
=============================================================================
