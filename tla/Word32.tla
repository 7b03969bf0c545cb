------------------------------- MODULE Word32 -------------------------------
(***************************************************************************)
(* The 32-bit integers of C and Java, as the simulators of the SM213 use    *)
(* them: signed, wrapping, and big-endian in memory.                        *)
(***************************************************************************)
EXTENDS Integers, Bitwise

MinInt == -2147483647 - 1
MaxInt == 2147483647

(* a + b, written so that no sum of TLC's own 32-bit integers overflows *)
Plus(a, b) ==
  IF a >= 0 /\ b > MaxInt - a THEN (a + MinInt) + (b + MinInt)
  ELSE IF a < 0 /\ b < MinInt - a THEN (a - MinInt) + (b - MinInt)
  ELSE a + b

Complement(a) == -1 - a

(* The upper sixteen bits h and the lower ones l. *)
Halves(h, l) == (IF h < 32768 THEN h ELSE h - 65536) * 65536 + l

BitAnd(a, b) == Halves(((a \div 65536) % 65536) & ((b \div 65536) % 65536),
                    (a % 65536) & (b % 65536))

(* a << n and a >> n for n \in 0..31 *)
Shl(a, n) == LET sign == (a \div 2 ^ (31 - n)) % 2
                 rest == IF n = 31 THEN 0 ELSE (a % 2 ^ (31 - n)) * 2 ^ n
             IN IF n = 0 THEN a ELSE IF sign = 1 THEN MinInt + rest ELSE rest
Shr(a, n) == IF n = 31 THEN (IF a < 0 THEN -1 ELSE 0) ELSE a \div (2 ^ n)

Signed8(b) == IF b < 128 THEN b ELSE b - 256

bytesToInteger(b0, b1, b2, b3) == Halves(256 * b0 + b1, 256 * b2 + b3)

integerToBytes(a) == <<(a \div 16777216) % 256, (a \div 65536) % 256, (a \div 256) % 256, a % 256>>
=============================================================================
