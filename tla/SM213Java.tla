----------------------------- MODULE SM213Java ------------------------------
(***************************************************************************)
(* The simulators of the SM213 in Java: the CPU of a06/q1 and the one of    *)
(* sm213's student package, over the registers and the memory of            *)
(* sm213/machine.  A machine is a record: reg and ps are its register sets, *)
(* mem its bytes, thrown the exception that ended its start().              *)
(***************************************************************************)
EXTENDS Word32, Sequences, TLC

CONSTANT MemSize  \* bytes of memory (byteCapacity)

(* A register set maps its registers to what is on their output and their input ports;
   stable: those whose input was set since the last tick of the clock. *)
NewSet(bubble) == [out |-> bubble, in |-> bubble, stable |-> {}]

(* The bits a register keeps of a value. *)
Masked(r, v) == IF r \in {"insOpCode", "insOp0", "insOp1", "insOp2"} THEN v % 16
                ELSE IF r = "insOpImm" THEN v % 256 ELSE v

(* A 32-bit register, and the registers of the processor state in DOMAIN v. *)
Set(rs, r, v) == [rs EXCEPT !.in[r] = v, !.stable = @ \cup {r}]
SetAll(rs, v) == [rs EXCEPT !.in = [r \in DOMAIN @ |-> IF r \in DOMAIN v THEN Masked(r, v[r]) ELSE @[r]],
                            !.stable = @ \cup DOMAIN v]

(* NonClockedPort: what was set in this cycle, or else the output. *)
GetUnsigned(rs, r) == IF r \in rs.stable THEN rs.in[r] ELSE rs.out[r]
Get(rs, r) == IF r = "insOpImm" THEN Signed8(GetUnsigned(rs, r)) ELSE GetUnsigned(rs, r)

TickNormal(rs) == [rs EXCEPT !.out = rs.in, !.stable = {}]

(* The constructor of AbstractSM213CPU; its registers start, and bubble, as 0 but for cur,
   the address of the current instruction. *)
Bubble == [r \in {"pc", "insOpCode", "insOp0", "insOp1", "insOp2", "insOpImm", "insOpExt"} |-> 0]
          @@ [cur |-> -1, instruction |-> <<0, 0, 0>>]

Machine == [reg |-> NewSet([r \in 0..7 |-> 0]), ps |-> NewSet(Bubble),
            mem |-> [a \in 0..(MemSize - 1) |-> 0], thrown |-> ""]

Throw(m, e) == [m EXCEPT !.thrown = e]

(* resetMachineToPC: a bubble through ps, then the pc is set and clocked *)
Reset(m, pc) == [m EXCEPT !.ps = NewSet([Bubble EXCEPT !.pc = pc])]

(* isAccessAligned and the bounds of arraycopy *)
Spans(a, n) == a >= 0 /\ a <= MemSize - n
Accessible(a, n) == a % n = 0 /\ Spans(a, n)

(* setValueAt of the memory's table: byte after byte, those before the first outside stay *)
Edit(m, a, bytes) ==
  LET n == [m EXCEPT !.mem = [b \in DOMAIN @ |-> IF b >= a /\ b - a + 1 \in DOMAIN bytes THEN bytes[b - a + 1] ELSE @[b]]]
  IN IF Spans(a, Len(bytes)) THEN n ELSE Throw(IF a >= 0 THEN n ELSE m, "index")

readIntegerUnaligned(m, a) == bytesToInteger(m.mem[a], m.mem[a + 1], m.mem[a + 2], m.mem[a + 3])

writeIntegerUnaligned(m, a, v) == LET b == integerToBytes(v) IN
  [m EXCEPT !.mem[a] = b[1], !.mem[a + 1] = b[2], !.mem[a + 2] = b[3], !.mem[a + 3] = b[4]]

Decoded(b0, b1) == [insOpCode |-> b0 \div 16, insOp0 |-> b0, insOp1 |-> b1 \div 16, insOp2 |-> b1, insOpImm |-> b1]

(* The instruction register as its two bytes and its extension: a06 masks the extension to
   32 bits before it is or-ed to them, the student's CPU lets its sign spill over them. *)
A06Whole(b0, b1, ext) == <<b0, b1, ext>>
StudentWhole(b0, b1, ext) == IF ext < 0 THEN <<255, 255, ext>> ELSE <<b0, b1, ext>>
Whole(cpu, b0, b1, ext) == IF cpu = "a06" THEN A06Whole(b0, b1, ext) ELSE StudentWhole(b0, b1, ext)

(* The first half of cycle: what was set before an exception is clocked all the same. *)
Fetch(m, cpu) ==
  LET a == Get(m.ps, "pc")
      at == [m EXCEPT !.ps = Set(@, "cur", a)]
      b0 == m.mem[a] b1 == m.mem[a + 1]
      decoded == [at EXCEPT !.ps = SetAll(@, Decoded(b0, b1))]
      whole(ext, pc) == [decoded EXCEPT !.ps =
        SetAll(@, [insOpExt |-> ext, pc |-> pc, instruction |-> Whole(cpu, b0, b1, ext)])]
      fetched == IF ~Accessible(a, 2) THEN Throw(at, "address")
                 ELSE IF b0 \div 16 \notin {0, 11} THEN whole(0, a + 2)
                 ELSE IF ~Spans(a + 2, 4) THEN Throw(decoded, "address")
                 ELSE whole(readIntegerUnaligned(m, a + 2), a + 6)
  IN [fetched EXCEPT !.ps = TickNormal(@), !.reg = TickNormal(@)]

FetchA06(m) == Fetch(m, "a06")
FetchStudent(m) == Fetch(m, "student")

(* A register number above 7 is no index of the set. *)
SetReg(m, r, v) == IF r \in 0..7 THEN [m EXCEPT !.reg = Set(@, r, v)] ELSE Throw(m, "instruction")
SetPC(m, v) == [m EXCEPT !.ps = Set(@, "pc", v)]

(* a load that sets its register before the access *)
LoadEarly(m, d, a) == IF Accessible(a, 4) THEN SetReg(m, d, readIntegerUnaligned(m, a))
                      ELSE Throw(SetReg(m, d, a), "address")

Load(m, d, a) == IF Accessible(a, 4) THEN SetReg(m, d, readIntegerUnaligned(m, a))
                 ELSE Throw(m, "address")
Store(m, a, v) == IF Accessible(a, 4) THEN writeIntegerUnaligned(m, a, v)
                  ELSE Throw(m, "address")

(* The registers a case reads. *)
Reads(c, o0, o1, o2) ==
  CASE c \in {"shift", "beq", "bgt", "jump o(r)"} -> {o0}
    [] c \in {"ld o(r)", "mov"} -> {o1}
    [] c \in {"inc", "inca", "dec", "deca", "not"} -> {o2}
    [] c = "ld (r,i)" -> {o0, o1}
    [] c = "st o(r)" -> {o0, o2}
    [] c \in {"add", "and"} -> {o1, o2}
    [] c = "st (r,i)" -> {o0, o1, o2}
    [] OTHER -> {}

(* A shift of a long by the lower six bits of n, cut to 32; shifts of ints by the lower five. *)
A06Shifted(v, n) == IF n > 0 THEN (IF n % 64 > 31 THEN 0 ELSE Shl(v, n % 64)) ELSE Shr(v, (-n) % 32)
StudentShifted(v, n) == IF n > 0 THEN Shl(v, n % 32) ELSE Shr(v, (-n) % 32)
Shifted(cpu, v, n) == IF cpu = "a06" THEN A06Shifted(v, n) ELSE StudentShifted(v, n)

(* What the case c of execute sets. *)
Do(m, c, cpu) ==
  LET o0 == Get(m.ps, "insOp0") o1 == Get(m.ps, "insOp1") o2 == Get(m.ps, "insOp2")
      imm == Get(m.ps, "insOpImm") ext == Get(m.ps, "insOpExt") pc == Get(m.ps, "pc")
      R == m.reg.out
      branch == SetPC(m, Plus(pc, 2 * imm))
  IN IF ~(Reads(c, o0, o1, o2) \subseteq 0..7) THEN Throw(m, "instruction")
     ELSE CASE c = "ld $i" -> SetReg(m, o0, ext)
            [] c = "ld o(r)" -> Load(m, o2, Plus(4 * o0, R[o1]))
            [] c = "ld (r,i)" -> Load(m, o2, Plus(R[o0], Shl(R[o1], 2)))
            [] c = "st o(r)" -> Store(m, Plus(4 * o1, R[o2]), R[o0])
            [] c = "st (r,i)" -> Store(m, Plus(R[o1], Shl(R[o2], 2)), R[o0])
            [] c = "mov" -> SetReg(m, o2, R[o1])
            [] c = "add" -> SetReg(m, o2, Plus(R[o1], R[o2]))
            [] c = "and" -> SetReg(m, o2, BitAnd(R[o1], R[o2]))
            [] c = "inc" -> SetReg(m, o2, Plus(R[o2], 1))
            [] c = "inca" -> SetReg(m, o2, Plus(R[o2], 4))
            [] c = "dec" -> SetReg(m, o2, Plus(R[o2], -1))
            [] c = "deca" -> SetReg(m, o2, Plus(R[o2], -4))
            [] c = "not" -> SetReg(m, o2, Complement(R[o2]))
            [] c = "gpc" -> SetReg(m, o2, pc + 2 * o1)
            [] c = "shift" -> SetReg(m, o0, Shifted(cpu, R[o0], imm))
            [] c = "br" \/ (c = "beq" /\ R[o0] = 0) \/ (c = "bgt" /\ R[o0] > 0) -> branch
            [] c = "jump" -> SetPC(m, ext)
            [] c = "jump o(r)" -> SetPC(m, Plus(R[o0], 2 * GetUnsigned(m.ps, "insOpImm")))
            [] c = "halt" -> Throw(m, "halt")
            [] c = "invalid" -> Throw(m, "instruction")
            [] OTHER -> m

ALU == <<"mov", "add", "and", "inc", "inca", "dec", "deca", "not">>

A06Case(code, op0) ==
  CASE code = 0 -> "ld $i"
    [] code = 1 -> "ld o(r)"
    [] code = 2 -> "ld (r,i)"
    [] code = 3 -> "st o(r)"
    [] code = 4 -> "st (r,i)"
    [] code = 6 -> (CASE op0 \in 0..7 -> ALU[op0 + 1] [] op0 = 15 -> "gpc" [] OTHER -> "invalid")
    [] code = 7 -> "shift"
    [] code = 8 -> "br"
    [] code = 9 -> "beq"
    [] code = 10 -> "bgt"
    [] code = 11 -> "jump"
    [] code = 12 -> "jump o(r)"
    [] code = 15 -> IF op0 = 0 THEN "halt" ELSE "nop"
    [] OTHER -> "invalid"

(* The student's CPU knows no gpc, no branch and no jump, and lets a shift by 0 be. *)
StudentCase(code, op0, imm) ==
  CASE code = 0 -> "ld $i"
    [] code = 1 -> "ld o(r)"
    [] code = 2 -> "ld (r,i)"
    [] code = 3 -> "st o(r)"
    [] code = 4 -> "st (r,i)"
    [] code = 6 -> (IF op0 \in 0..7 THEN ALU[op0 + 1] ELSE "invalid")
    [] code = 7 -> (IF imm = 0 THEN "nop" ELSE "shift")
    [] code = 15 -> IF op0 = 0 THEN "halt" ELSE "nop"
    [] OTHER -> "invalid"

(* The second half of cycle *)
Clocked(m) == [m EXCEPT !.ps = TickNormal(@), !.reg = TickNormal(@)]

ExecA06(m) == Clocked(Do(m, A06Case(Get(m.ps, "insOpCode"), Get(m.ps, "insOp0")), "a06"))

ExecStudent(m) ==
  LET c == StudentCase(Get(m.ps, "insOpCode"), Get(m.ps, "insOp0"), Get(m.ps, "insOpImm"))
  IN Clocked(Do(m, c, "student"))
=============================================================================
