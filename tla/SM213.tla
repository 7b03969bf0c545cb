-------------------------------- MODULE SM213 -------------------------------
(***************************************************************************)
(* The four simulators of the SM213, side by side on one program: sm.c and  *)
(* sm-jt.c of a08/q8, the CPU of a06/q1 and the student's CPU of sm213, the  *)
(* Java ones within AbstractCPU.start(), which another thread interrupts.   *)
(***************************************************************************)
EXTENDS Integers, Sequences, SequencesExt

CONSTANTS MemSize,
          Scenarios,      \* scope: records of a command line, argv, and an image file
          Environments,   \* scope: what the system answers to sys instructions
          Interruptible,  \* scope: the scenarios with interrupts
          MaxInterrupts,  \* bound on the interrupts of a run
          MaxCycles       \* bound on the cycles of a run

C == INSTANCE SM213C
J == INSTANCE SM213Java

VARIABLES sw, tb, a06, student,  \* the machines of sm.c, sm-jt.c, a06/q1 and sm213
          scenario,
          phase,                 \* shell; idle; clearing, looping and fetched, in start(); over
          isInterrupt,
          interrupts, cycles,    \* counted for their bounds
          parted                 \* an instruction came up that C and Java differ on

machines == <<sw, tb, a06, student>>
counts == <<interrupts, cycles>>
vars == <<machines, scenario, phase, isInterrupt, counts, parted>>

Runs(c) == c.status = "running"
Live(j) == j.thrown = ""

Init ==
  /\ scenario \in Scenarios
  /\ sw = C!Machine /\ tb = C!Machine
  /\ a06 = J!Machine /\ student = J!Machine
  /\ phase = "shell"
  /\ isInterrupt = FALSE /\ parted = FALSE
  /\ interrupts = 0 /\ cycles = 0

(* The Java machines get the same image and start address, by the user's hands. *)
Prepared(image, pc) == LET edit(j, line) == J!Edit(j, line.addr, line.bytes)
                       IN J!Reset(FoldLeft(edit, J!Machine, image), pc)

Launch ==
  /\ phase = "shell"
  /\ LET c == C!Launch(scenario.argv, scenario.image) IN
       /\ sw' = c /\ tb' = c
       /\ IF Runs(c) THEN /\ a06' = Prepared(scenario.image, c.pc)
                          /\ student' = Prepared(scenario.image, c.pc)
                          /\ phase' = "idle"
                     ELSE phase' = "over" /\ UNCHANGED <<a06, student>>
  /\ UNCHANGED <<scenario, isInterrupt, counts, parted>>

triggerInterrupt ==
  /\ scenario \in Interruptible /\ interrupts < MaxInterrupts
  /\ phase \in {"idle", "clearing", "looping", "fetched"} /\ Live(a06)
  /\ isInterrupt' = TRUE
  /\ interrupts' = interrupts + 1
  /\ UNCHANGED <<machines, scenario, phase, cycles, parted>>

(* The user starts the machine, the first time or after an interrupt. *)
start ==
  /\ phase = "idle"
  /\ phase' = "clearing"
  /\ UNCHANGED <<machines, scenario, isInterrupt, counts, parted>>

(* isInterrupt = false: whatever came before this is forgotten. *)
ClearInterrupt ==
  /\ phase = "clearing"
  /\ isInterrupt' = FALSE
  /\ phase' = "looping"
  /\ UNCHANGED <<machines, scenario, counts, parted>>

ForgetInterrupt ==
  /\ phase = "looping" /\ isInterrupt /\ Live(a06)
  /\ isInterrupt' = FALSE
  /\ UNCHANGED <<machines, scenario, phase, counts, parted>>

(* if (isInterrupt): start() returns *)
ReturnInterrupted ==
  /\ phase = "looping" /\ isInterrupt /\ Live(a06)
  /\ isInterrupt' = FALSE
  /\ phase' = "idle"
  /\ UNCHANGED <<machines, scenario, counts, parted>>

(* The C machine m can fetch, and Java's would too. *)
OrdinaryFetch(m) ==
  /\ m.pc % 2 = 0 /\ J!Spans(m.pc, 2)
  /\ m.mem[m.pc] \div 16 \in {0, 11} => J!Spans(m.pc + 2, 4)

Fetch ==
  /\ phase = "looping" /\ (isInterrupt => ~Live(a06))
  /\ Runs(sw) /\ cycles < MaxCycles
  /\ sw' = C!FetchSwitch(sw)
  /\ tb' = C!FetchGoto(tb)
  /\ a06' = IF Live(a06) THEN J!FetchA06(a06) ELSE a06
  /\ student' = IF Live(student) THEN J!FetchStudent(student) ELSE student
  /\ parted' = (parted \/ ~OrdinaryFetch(sw))
  /\ cycles' = cycles + 1
  /\ phase' = "fetched"
  /\ UNCHANGED <<scenario, isInterrupt, interrupts>>

(* What the fetched instruction does is defined in C, and the same in Java: eight registers,
   aligned words inside the memory, shifts by less than a word, positive jump offsets, no
   sys and nothing illegal. *)
OrdinaryExec(m) == LET l == C!SwitchLabel(m) IN
  /\ l \notin {"DEFAULT", "ALU_DEFAULT"}
  /\ C!Names(m, l) \subseteq 0..7
  /\ l \in {"L1", "L2", "L3", "L4"} => J!Accessible(C!Addr(m, l), 4)
  /\ l = "L7" => m.insOpImm \in -31..31
  /\ l = "Lc" => m.insOpImm >= 0
  /\ l = "Lf" => m.insOp0 # 1

IsSys(m) == m.insOpCode = 15 /\ m.insOp0 = 1

Execute ==
  /\ phase = "fetched"
  /\ IF Runs(sw) THEN \E env \in (IF IsSys(sw) THEN Environments ELSE {<<>>}) :
                        sw' = C!ExecSwitch(sw, env) /\ tb' = C!ExecTable(tb, env)
                 ELSE UNCHANGED <<sw, tb>>
  /\ a06' = IF Live(a06) THEN J!ExecA06(a06) ELSE a06
  /\ student' = IF Live(student) THEN J!ExecStudent(student) ELSE student
  /\ parted' = (parted \/ ~OrdinaryExec(sw))
  /\ phase' = "looping"
  /\ UNCHANGED <<scenario, isInterrupt, counts>>

(* main of the C programs goes on to report. *)
Report ==
  /\ phase = "looping" /\ (~Runs(sw) \/ cycles = MaxCycles) /\ (isInterrupt => ~Live(a06))
  /\ sw' = (IF sw.status = "halted" THEN C!Report(sw) ELSE sw)
  /\ tb' = (IF tb.status = "halted" THEN C!Report(tb) ELSE tb)
  /\ phase' = "over"
  /\ UNCHANGED <<a06, student, scenario, isInterrupt, counts, parted>>

Over == phase = "over" /\ UNCHANGED vars

Next == Launch \/ triggerInterrupt \/ start \/ ClearInterrupt \/ ReturnInterrupted
        \/ Fetch \/ Execute \/ Report \/ Over

Spec == Init /\ [][Next]_vars /\ WF_vars(start) /\ WF_vars(ClearInterrupt \/ ReturnInterrupted \/ Fetch \/ Execute)

(* The Java machine j is where the C machine c is. *)
Same(j, c) ==
  /\ j.mem = c.mem /\ j.reg.out = c.reg /\ J!Get(j.ps, "pc") = c.pc
  /\ Runs(c) = Live(j) /\ (c.status = "halted") = (j.thrown = "halt")

(* What main prints is what the tables of the Java machine show. *)
ShowsWordsOf(c, j) == \A i \in DOMAIN c.showMemList : \A k \in 1..c.showMemList[i][2] :
  c.shown[i][k] = J!readIntegerUnaligned(j, c.showMemList[i][1] + 4 * (k - 1))

(* An instruction of the handout that the student's CPU does not have. *)
Missing(j) == J!Get(j.ps, "insOpCode") \in 8..12 \/ (J!Get(j.ps, "insOpCode") = 6 /\ J!Get(j.ps, "insOp0") = 15)

(* a08/q8, a06/q1, sm213: a switch, two jump tables and two Java classes implement one
   instruction set.  The C programs agree always, the Java CPU of a06 agrees with them up to
   the first instruction that only one side defines, interrupted or not, and so does the
   student's but for the instructions it lacks, which it refuses. *)
ImplementationsAgree ==
  /\ sw = tb
  /\ (~parted /\ phase \notin {"shell", "over"}) =>
       /\ Same(a06, sw)
       /\ Same(student, sw) \/ (student.thrown = "instruction" /\ Missing(student))
  /\ (~parted /\ phase = "over" /\ sw.status = "halted") => ShowsWordsOf(sw, a06)

(* AbstractSM213CPU.cycle clocks the registers even when an exception leaves a stage: none
   of them was half way.  An instruction that faults changes no register and no byte, and
   the address of the current instruction is its own. *)
FaultKeepsState ==
  [][(Live(a06) /\ a06'.thrown \in {"instruction", "address"}) =>
       /\ a06'.reg.out = a06.reg.out /\ a06'.mem = a06.mem
       /\ phase = "looping" => a06'.ps.out["cur"] = a06.ps.out["pc"]
       /\ phase = "fetched" => a06'.ps.out = a06.ps.out]_vars

(* AbstractCPU.triggerInterrupt: in its loop, start() returns, whatever the program does. *)
StopsWhenAsked == (isInterrupt /\ phase \in {"looping", "fetched"}) ~> (phase = "idle" \/ ~Live(a06))
=============================================================================
