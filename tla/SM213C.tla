------------------------------- MODULE SM213C -------------------------------
(***************************************************************************)
(* The simulators of the SM213 in C, a08/q8/sm.c with its switch and        *)
(* sm-jt.c with its jump tables: command line, image file, fetch, execute,  *)
(* report.  A machine is a record of the globals of the program.  What C    *)
(* leaves undefined, beyond the arithmetic that the compiler wraps, ends in *)
(* the status "undefined".                                                  *)
(***************************************************************************)
EXTENDS Word32, SequencesExt

CONSTANT MemSize  \* bytes of memory (40000 in sm.c)

Machine == [reg |-> [r \in 0..7 |-> 0], mem |-> [a \in 0..(MemSize - 1) |-> 0], pc |-> -1,
            insOpCode |-> 0, insOp0 |-> 0, insOp1 |-> 0, insOp2 |-> 0, insOpImm |-> 0, insOpExt |-> 0,
            showMemList |-> <<>>, showReg |-> FALSE, shown |-> <<>>, status |-> "running"]

Ends(m, how) == [m EXCEPT !.status = how]
Undefined(m) == Ends(m, "undefined")
Spans(a, n) == a >= 0 /\ a <= MemSize - n

(* An argument is a record: op is the letter after its dash, if it has one ("" if not);
   number and count what strtol makes of it before and after its colon, if it has one;
   opens says whether it is the name of a readable file. *)
RECURSIVE ParseFrom(_, _, _)
ParseFrom(m, argv, i) ==
  LET arg == argv[i] value == argv[i + 1] IN
  CASE i > Len(argv) -> m
    [] i < Len(argv) /\ arg.op = "p" -> ParseFrom([m EXCEPT !.pc = value.number], argv, i + 2)
    [] i < Len(argv) /\ arg.op = "m" /\ value.colon ->
         ParseFrom([m EXCEPT !.showMemList = Append(@, <<value.number, value.count>>)], argv, i + 2)
    [] i <= Len(argv) /\ arg.op = "r" -> ParseFrom([m EXCEPT !.showReg = TRUE], argv, i + 1)
    [] i = Len(argv) /\ arg.op = "" -> m
    [] i = Len(argv) /\ arg.op \in {"p", "m"} -> Undefined(m)
    [] i < Len(argv) /\ arg.op = "m" /\ ~value.colon -> Undefined(m)
    [] OTHER -> Ends(m, "usage")

parseArgs(m, argv) == IF argv = <<>> THEN Ends(m, "usage") ELSE ParseFrom(m, argv, 1)

(* line: what getline, strtol and the loop over the digits make of addr: bb bb ... *)
LoadLine(m, line) ==
  IF ~Spans(line.addr, Len(line.bytes)) THEN Undefined(m)
  ELSE [m EXCEPT !.pc = IF @ < 0 THEN line.addr ELSE @,
                 !.mem = [a \in DOMAIN @ |-> IF a - line.addr + 1 \in DOMAIN line.bytes
                                               THEN line.bytes[a - line.addr + 1] ELSE @[a]]]

loadFile(m, image) == FoldLeft(LoadLine, m, image)

(* main up to compute: image is the content of the last argument's file. *)
Launch(argv, image) ==
  LET m == parseArgs(Machine, argv) IN
  IF m.status # "running" THEN m
  ELSE IF ~argv[Len(argv)].opens THEN Ends(m, "error reading input file")
  ELSE loadFile(m, image)

WordAt(m, a) == bytesToInteger(m.mem[a], m.mem[a + 1], m.mem[a + 2], m.mem[a + 3])

(* The first two bytes of fetch. *)
FetchHead(m) == [m EXCEPT
  !.insOpCode = m.mem[m.pc] \div 16, !.insOp0 = m.mem[m.pc] % 16,
  !.insOp1 = m.mem[m.pc + 1] \div 16, !.insOp2 = m.mem[m.pc + 1] % 16,
  !.insOpImm = Signed8(m.mem[m.pc + 1]), !.pc = @ + 2]

FetchExt(m) == IF Spans(m.pc, 4) THEN [m EXCEPT !.insOpExt = WordAt(m, m.pc), !.pc = @ + 4]
                                 ELSE Undefined(m)

(* fetch of sm.c, and of sm-jt.c where a goto skips the extension *)
FetchSwitch(m) ==
  IF ~Spans(m.pc, 2) THEN Undefined(m)
  ELSE CASE FetchHead(m).insOpCode \in {0, 11} -> FetchExt(FetchHead(m))
         [] OTHER -> FetchHead(m)

FetchGoto(m) ==
  IF ~Spans(m.pc, 2) THEN Undefined(m)
  ELSE IF FetchHead(m).insOpCode # 0 /\ FetchHead(m).insOpCode # 11 THEN FetchHead(m)
  ELSE FetchExt(FetchHead(m))

(* The registers an instruction names: of reg[8] and above nothing is known. *)
Names(m, l) ==
  CASE l \in {"L0", "L7", "L9", "La", "Lc"} -> {m.insOp0}
    [] l \in {"L2", "L3", "L4"} -> (IF l = "L3" THEN {m.insOp0, m.insOp2} ELSE {m.insOp0, m.insOp1, m.insOp2})
    [] l \in {"L1", "L60", "L61", "L62"} -> {m.insOp1, m.insOp2}
    [] l \in {"L63", "L64", "L65", "L66", "L67", "L6f"} -> {m.insOp2}
    [] OTHER -> {}

Addr(m, l) ==
  CASE l = "L1" -> Plus(4 * m.insOp0, m.reg[m.insOp1])
    [] l = "L2" -> Plus(m.reg[m.insOp0], Shl(m.reg[m.insOp1], 2))
    [] l = "L3" -> Plus(4 * m.insOp1, m.reg[m.insOp2])
    [] l = "L4" -> Plus(m.reg[m.insOp1], Shl(m.reg[m.insOp2], 2))

Load(m, a) == IF Spans(a, 4) THEN [m EXCEPT !.reg[m.insOp2] = WordAt(m, a)] ELSE Undefined(m)

Store(m, a) == LET b == integerToBytes(m.reg[m.insOp0]) IN
  IF Spans(a, 4) THEN [m EXCEPT !.mem[a] = b[1], !.mem[a + 1] = b[2], !.mem[a + 2] = b[3], !.mem[a + 3] = b[4]]
                 ELSE Undefined(m)

Alu(m, l) == LET s == m.reg[m.insOp1] d == m.reg[m.insOp2] IN
  CASE l = "L60" -> s
    [] l = "L61" -> Plus(s, d)
    [] l = "L62" -> BitAnd(s, d)
    [] l = "L63" -> Plus(d, 1)
    [] l = "L64" -> Plus(d, 4)
    [] l = "L65" -> Plus(d, -1)
    [] l = "L66" -> Plus(d, -4)
    [] l = "L67" -> Complement(d)

Shift(m) == LET n == m.insOpImm v == m.reg[m.insOp0] IN
  IF n \notin -31..31 THEN Undefined(m)
  ELSE [m EXCEPT !.reg[m.insOp0] = IF n > 0 THEN Shl(v, n) ELSE Shr(v, -n)]

Branch(m, taken) == IF taken THEN [m EXCEPT !.pc = Plus(@, 2 * m.insOpImm)] ELSE m

(* sys read, write and exec: the system answers with a result, and read with that many
   bytes, all of the value byte; exec only asks it when the environment allows. *)
Sys(m, result, byte, allowed) ==
  LET buffer == m.reg[IF m.insOpImm = 2 THEN 0 ELSE 1]
      size   == m.reg[IF m.insOpImm = 2 THEN 1 ELSE 2]
      moved  == IF m.insOpImm = 2 THEN size ELSE IF result < size THEN result ELSE size
  IN CASE m.insOpImm \notin 0..2 -> m
       [] m.insOpImm \in 0..2 /\ moved > 0 /\ ~(moved <= MemSize /\ Spans(buffer, moved)) -> Undefined(m)
       [] m.insOpImm = 2 /\ ~allowed -> m
       [] m.insOpImm = 2 /\ allowed /\ size < 0 -> Undefined(m)
       [] OTHER -> [m EXCEPT !.reg[0] = IF m.insOpImm = 2 THEN result ELSE IF moved < 0 THEN -1 ELSE moved,
                             !.mem = [a \in DOMAIN @ |-> IF m.insOpImm = 0 /\ moved > 0 /\ a \in buffer..(buffer + moved - 1)
                                                           THEN byte ELSE @[a]]]

(* What follows the label l of sm-jt.c and, in the same words, the case of sm.c. *)
Do(m, l, env) ==
  IF ~(Names(m, l) \subseteq 0..7) THEN Undefined(m)
  ELSE CASE l = "L0" -> [m EXCEPT !.reg[m.insOp0] = m.insOpExt]
         [] l \in {"L1", "L2"} -> Load(m, Addr(m, l))
         [] l \in {"L3", "L4"} -> Store(m, Addr(m, l))
         [] l = "L6f" -> [m EXCEPT !.reg[m.insOp2] = m.pc + 2 * m.insOp1]
         [] l = "L7" -> Shift(m)
         [] l = "L8" -> Branch(m, TRUE)
         [] l = "L9" -> Branch(m, m.reg[m.insOp0] = 0)
         [] l = "La" -> Branch(m, m.reg[m.insOp0] > 0)
         [] l = "Lb" -> [m EXCEPT !.pc = m.insOpExt]
         [] l = "Lc" -> [m EXCEPT !.pc = Plus(2 * (m.insOpImm % 65536), m.reg[m.insOp0])]
         [] l = "Lf" -> IF m.insOp0 = 0 THEN Ends(m, "halted")
                        ELSE IF m.insOp0 = 1 THEN Sys(m, env.result, env.byte, env.allowed) ELSE m
         [] l \in {"ALU_DEFAULT", "DEFAULT"} -> m
         [] l = "0" -> Undefined(m)
         [] OTHER -> [m EXCEPT !.reg[m.insOp2] = Alu(m, l)]

(* exec of sm.c: the case of an opcode and, for 6, of its function ... *)
SwitchLabel(m) ==
  CASE m.insOpCode = 0 -> "L0"  [] m.insOpCode = 1 -> "L1"  [] m.insOpCode = 2 -> "L2"
    [] m.insOpCode = 3 -> "L3"  [] m.insOpCode = 4 -> "L4"  [] m.insOpCode = 7 -> "L7"
    [] m.insOpCode = 8 -> "L8"  [] m.insOpCode = 9 -> "L9"  [] m.insOpCode = 10 -> "La"
    [] m.insOpCode = 11 -> "Lb" [] m.insOpCode = 12 -> "Lc" [] m.insOpCode = 15 -> "Lf"
    [] m.insOpCode = 6 ->
         (CASE m.insOp0 = 0 -> "L60" [] m.insOp0 = 1 -> "L61" [] m.insOp0 = 2 -> "L62"
            [] m.insOp0 = 3 -> "L63" [] m.insOp0 = 4 -> "L64" [] m.insOp0 = 5 -> "L65"
            [] m.insOp0 = 6 -> "L66" [] m.insOp0 = 7 -> "L67" [] m.insOp0 = 15 -> "L6f"
            [] OTHER -> "ALU_DEFAULT")
    [] OTHER -> "DEFAULT"

(* ... and of sm-jt.c: the bounds that are tested, and the tables. *)
alu_jt == <<"L60", "L61", "L62", "L63", "L64", "L65", "L66", "L67">>
JtUnfilled == <<"L0", "L1", "L2", "L3", "L4", "L6", "L7", "L8", "L9", "La", "Lb", "Lc", "0", "0", "Lf", "0">>

jt == <<"L0", "L1", "L2", "L3", "L4", "0", "L6", "L7", "L8", "L9", "La", "Lb", "Lc", "0", "0", "Lf">>

AluLabel(m) ==
  IF m.insOp0 = 15 THEN "L6f"
  ELSE IF m.insOp0 < 0 \/ m.insOp0 > 7 THEN "ALU_DEFAULT"
  ELSE alu_jt[m.insOp0 + 1]

TableLabel(m) ==
  IF m.insOpCode < 0 \/ m.insOpCode > 15 \/ m.insOpCode \in {5, 13, 14} THEN "DEFAULT"
  ELSE IF jt[m.insOpCode + 1] = "L6" THEN AluLabel(m)
  ELSE jt[m.insOpCode + 1]

ExecSwitch(m, env) == Do(m, SwitchLabel(m), env)
ExecTable(m, env) == Do(m, TableLabel(m), env)

(* main after compute: the words of every -m, and with -r the registers. *)
ShowMem(m, start, count) == [i \in 1..count |-> WordAt(m, start + 4 * (i - 1))]

Report(m) ==
  IF \E l \in Range(m.showMemList) : l[2] > 0 /\ ~Spans(l[1], 4 * l[2]) THEN Undefined(m)
  ELSE [m EXCEPT !.shown = [i \in DOMAIN m.showMemList |-> ShowMem(m, m.showMemList[i][1], m.showMemList[i][2])]
                           \o (IF m.showReg THEN <<[r \in 1..8 |-> m.reg[r - 1]]>> ELSE <<>>)]
=============================================================================
