------------------------------ MODULE MCSM213 -------------------------------
(***************************************************************************)
(* Scenarios for SM213: two programs of a08/q8/sm213-programs, moved to     *)
(* lower addresses, every kind of command line, and every instruction with  *)
(* many operands after four loads of interesting values.                    *)
(***************************************************************************)
EXTENDS SM213

Op(letter)   == [op |-> letter, number |-> 0, count |-> 0, colon |-> FALSE, opens |-> FALSE]
Number(n)    == [op |-> "", number |-> n, count |-> 0, colon |-> FALSE, opens |-> FALSE]
Words(n, k)  == [op |-> "", number |-> n, count |-> k, colon |-> TRUE, opens |-> FALSE]
File         == [op |-> "", number |-> 0, count |-> 0, colon |-> FALSE, opens |-> TRUE]
Line(a, b)   == [addr |-> a, bytes |-> b]
Run(argv, image) == [argv |-> argv, image |-> image]

(* max.s at 0, with the first five words of its array *)
MaxCode == Line(0,
  <<0, 0, 0, 0, 0, 0, 1, 0, 255, 255, 255, 251, 2, 0, 0, 0, 0, 64, 16, 35, 4, 0, 0, 0,
  0, 72, 96, 5, 97, 21, 149, 9, 36, 5, 96, 87, 103, 7, 99, 7, 97, 55, 167, 1, 96, 83,
  99, 0, 128, 244, 51, 2, 1, 0, 0, 0, 0, 68, 48, 1, 240, 0>>)
MaxData == Line(64,
  <<255, 255, 255, 255, 0, 0, 0, 0, 0, 0, 0, 2, 0, 0, 0, 40, 0, 0, 0, 6, 0, 0, 0, 80,
  0, 0, 0, 10>>)
MaxProgram == Run(<<Op("p"), Number(0), Op("m"), Words(64, 2), Op("r"), File>>, <<MaxCode, MaxData>>)

(* test.s, which has every instruction once *)
TestCode == Line(0,
  <<2, 0, 0, 0, 0, 48, 16, 1, 32, 1, 49, 0, 65, 0, 96, 1, 97, 1, 98, 1, 99, 1, 100, 1,
  101, 1, 102, 1, 103, 1, 111, 1, 113, 0, 128, 0, 144, 0, 160, 0, 176, 0, 0, 0, 0, 46,
  194, 0, 240, 0>>)
TestProgram == Run(<<File>>, <<TestCode>>)

Simple == <<Line(0, <<0, 0, 0, 0, 0, 100>>), Line(6, <<97, 0, 240, 0>>)>>

(* br to itself *)
Endless == Run(<<File>>, <<Line(0, <<128, 255>>)>>)

CommandLines == {Run(argv, Simple) : argv \in {
  <<>>, <<Op("r")>>, <<File, File>>, <<Op("x"), File>>, <<Op("p")>>, <<Op("m"), Number(0), File>>,
  <<Op("p"), Number(6), File>>, <<Op("m"), Words(0, 2), Op("m"), Words(8, 1), File>>,
  <<Op("m"), Words(92, 2), File>>, <<Op("p"), Number(7), File>>, <<Op("p"), Number(200), File>> }}
  \cup {Run(<<File>>, <<>>), Run(<<File>>, <<Line(94, <<1, 2, 3>>)>>)}

(* r1 = MinInt, r2 = 64, r3 = -1, r4 = 1; then the instruction, and halts all over *)
Preamble == <<1, 0, 128, 0, 0, 0>>
         \o <<2, 0, 0, 0, 0, 64>>
         \o <<3, 0, 255, 255, 255, 255>>
         \o <<4, 0, 0, 0, 0, 1>>
Extension(b0, b1) == CASE b0 \div 16 = 0 -> <<b1, 0, 0, b1>> [] b0 \div 16 = 11 -> <<0, 0, 0, b1>> [] OTHER -> <<>>
Filled(bytes) == bytes \o [i \in 1..(MemSize - Len(bytes)) |-> IF i % 2 = Len(bytes) % 2 THEN 0 ELSE 240]
Single(b0, b1) == Run(<<File>>, <<Line(0, Filled(Preamble \o <<b0, b1>> \o Extension(b0, b1)))>>)

Firsts == {16 * code + r : code \in 0..15, r \in {0, 1, 2, 3, 4, 5, 6, 7, 8, 15}}
Seconds == {0, 1, 2, 8, 16, 18, 20, 31, 32, 33, 36, 40, 50, 51, 64, 66, 112, 127, 128, 224, 225, 255}

AllScenarios == {MaxProgram, TestProgram, Endless} \cup CommandLines \cup {Single(b0, b1) : b0 \in Firsts, b1 \in Seconds}
InterruptedScenarios == {MaxProgram, Endless} \cup CommandLines
Answers == [result : {-1, 2}, byte : {65}, allowed : BOOLEAN]
=============================================================================
