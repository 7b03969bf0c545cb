----------------------------- MODULE HeapProofs -----------------------------
(***************************************************************************)
(* The allocator of a05, for a heap of any size, any requests and any       *)
(* client, its test program among them: the blocks tile the heap, nobody's  *)
(* data is written over, and the allocator is a first-fit allocator of      *)
(* holes (FirstFit).                                                        *)
(*                                                                          *)
(* The invariant is about a set B of blocks and not about the walk that     *)
(* finds them: B tiles the heap, with one header in the first and in the    *)
(* last word of a block.  A header that is written over some blocks makes   *)
(* one of them (OneBlock), and what lies outside stays; split, coalesce and *)
(* free are put together from that.  WalkRow says that the walk from header *)
(* to header meets B and nothing else.                                      *)
(***************************************************************************)
EXTENDS Structures, SharedTheorems

(* The blocks C tile the memory from lo to hi, each with one header in its first and in its
   last word. *)
Row(m, C, lo, hi) ==
  /\ C \subseteq Heap!Words /\ lo \in C
  /\ \A c \in C : /\ m[c].size \in Nat /\ 16 <= m[c].size
                  /\ lo <= c /\ c + m[c].size <= hi
                  /\ c + m[c].size \in C \cup {hi}
                  /\ c + m[c].size - 8 \in Heap!Words
                  /\ m[c + m[c].size - 8] = m[c]
  /\ \A c, d \in C : c < d => c + m[c].size <= d
  /\ \A d \in C \cup {hi} : d = lo \/ \E c \in C : c + m[c].size = d

(* The walk meets the blocks of a row, and nothing else. *)
LEMMA WalkRow ==
  ASSUME NEW m, NEW B, Row(m, B, 0, Size)
  PROVE  Heap!BlocksOf(m) = B
<1> DEFINE After(X) == X \cup {b + m[b].size : b \in X \ {Size}}
           V == SUBSET (B \cup {Size})
           walk == CHOOSE f : f = [k \in Nat |-> IF k = 0 THEN {0} ELSE After(f[k - 1])]
           stride == [k \in Nat |-> [X \in V |-> After(X)]]
<1>1. Size \in Nat /\ Size >= 16 /\ B \subseteq Nat /\ Size \notin B
  BY SizesAssumption DEF Heap!SizesAssumption, Heap!HEADER_SIZE, Heap!Words, Row
<1>2. {0} \in V /\ \A X \in V : After(X) \in V
  BY <1>1 DEF Row
<1>3. PICK F \in [Nat -> V] : Recurs(F, {0}, stride)
  <2>1. stride \in [Nat -> [V -> V]]
    BY <1>2
  <2> HIDE DEF V, stride
  <2> QED BY <1>2, <2>1, Recursion
<1>4. F[0] = {0} /\ \A k \in Nat : F[k + 1] = After(F[k])
  <2> HIDE DEF After, V
  <2> QED BY <1>3 DEF Recurs
<1>5. F = [k \in Nat |-> IF k = 0 THEN {0} ELSE After(F[k - 1])]
  <2> HIDE DEF After, V
  <2>1. \A k \in Nat : F[k] = IF k = 0 THEN {0} ELSE After(F[k - 1])
    BY <1>4
  <2> QED BY <1>3, <2>1
<1>6. walk = [k \in Nat |-> IF k = 0 THEN {0} ELSE After(walk[k - 1])]
  <2> HIDE DEF After
  <2> QED BY <1>5, Zenon
<1>7. walk[0] = {0} /\ \A k \in Nat : walk[k + 1] = After(walk[k])
  <2> HIDE DEF After, walk
  <2>1. \A k \in Nat : walk[k] = IF k = 0 THEN {0} ELSE After(walk[k - 1])
    BY <1>6
  <2>2. ASSUME NEW k \in Nat PROVE walk[k + 1] = After(walk[k])
    <3>1. k + 1 \in Nat /\ k + 1 # 0 /\ (k + 1) - 1 = k
      OBVIOUS
    <3> QED BY <2>1, <3>1
  <2> QED BY <2>1, <2>2
<1>8. Heap!BlocksOf(m) = walk[Size \div 16] \ {Size}
  <2>1. Heap!BlocksOf(m) = walk[Size \div (2 * 8)] \ {Size}
    BY Zenon DEF Heap!BlocksOf, Heap!get_next_block, Heap!HEADER_SIZE
  <2> HIDE DEF walk
  <2> QED BY <2>1
<1> HIDE DEF walk
<1>9. \A k \in Nat : walk[k] \subseteq B \cup {Size}
  <2> DEFINE S == {k \in Nat : walk[k] \subseteq B \cup {Size}}
  <2>1. 0 \in S
    BY <1>7 DEF Row
  <2>2. ASSUME NEW k \in Nat, k \in S PROVE k + 1 \in S
    <3>1. walk[k + 1] = After(walk[k]) /\ walk[k] \subseteq B \cup {Size}
      BY <1>7, <2>2
    <3> QED BY <3>1 DEF Row
  <2> HIDE DEF S
  <2>3. \A k \in Nat : k \in S
    BY <2>1, <2>2, Upward
  <2> QED BY <2>3 DEF S
<1>10. \A k \in Nat : \A b \in B : b <= 16 * k => b \in walk[k]
  <2> DEFINE S == {k \in Nat : \A b \in B : b <= 16 * k => b \in walk[k]}
  <2>1. 0 \in S
    BY <1>1, <1>7
  <2>2. ASSUME NEW k \in Nat, k \in S PROVE k + 1 \in S
    <3> SUFFICES ASSUME NEW b \in B, b <= 16 * (k + 1) PROVE b \in walk[k + 1]
      OBVIOUS
    <3>1. walk[k + 1] = After(walk[k])
      BY <1>7
    <3>2. CASE b = 0
      <4>1. 0 \in walk[k]
        BY <1>1, <2>2, <3>2
      <4> QED BY <3>1, <3>2, <4>1
    <3>3. CASE b # 0
      <4>1. PICK a \in B : a + m[a].size = b
        BY <3>3 DEF Row
      <4>2. a \in walk[k] /\ a # Size
        BY <1>1, <2>2, <4>1 DEF Row
      <4> QED BY <3>1, <4>1, <4>2
    <3> QED BY <3>2, <3>3
  <2> HIDE DEF S
  <2>3. \A k \in Nat : k \in S
    BY <2>1, <2>2, Upward
  <2> QED BY <2>3 DEF S
<1>11. Size \div 16 \in Nat /\ \A b \in B : b <= 16 * (Size \div 16)
  <2> SUFFICES ASSUME NEW b \in B PROVE Size \div 16 \in Nat /\ b <= 16 * (Size \div 16)
    BY <1>1
  <2>1. b \in Nat /\ b + 16 <= Size
    BY <1>1 DEF Row
  <2> QED BY <1>1, <2>1
<1>12. B \subseteq walk[Size \div 16]
  BY <1>10, <1>11
<1>13. walk[Size \div 16] \subseteq B \cup {Size}
  BY <1>9, <1>11
<1> QED BY <1>1, <1>8, <1>12, <1>13

(* What is not between lo and hi is not written. *)
Outside(m, r, lo, hi) == \A w \in Heap!Words : w < lo \/ hi <= w => r[w] = m[w]

(* The words of the heap are multiples of eight, the last one ends it. *)
LEMMA WordsAre ==
  /\ Size \in Nat /\ 16 <= Size /\ 0 \in Heap!Words /\ Size \notin Heap!Words
  /\ Size - 8 \in Heap!Words
  /\ \A w \in Heap!Words : w \in Nat /\ w + 8 <= Size
  /\ \A v, w \in Heap!Words : v < w => v + 8 <= w
BY SizesAssumption DEF Heap!SizesAssumption, Heap!Words, Heap!HEADER_SIZE

(* When the blocks from lo to hi are exchanged for others, and nothing else is written, the
   memory is tiled again. *)
LEMMA Retiled ==
  ASSUME NEW m, NEW r, NEW B, NEW C, NEW lo \in B, NEW hi \in B \cup {Size}, lo < hi,
         Row(m, B, 0, Size), Row(r, C, lo, hi), Outside(m, r, lo, hi)
  PROVE  Row(r, {b \in B : b < lo \/ hi <= b} \cup C, 0, Size)
<1> DEFINE A == {b \in B : b < lo \/ hi <= b}
<1>1. /\ Size \in Nat /\ hi \in Nat /\ lo \in Nat /\ B \subseteq Heap!Words /\ hi <= Size
      /\ Size \notin B
      /\ \A w \in Heap!Words : w \in Nat /\ w < Size
  BY WordsAre DEF Row
<1>2. ASSUME NEW c \in C
      PROVE  /\ c \in Heap!Words /\ lo <= c /\ c < hi
             /\ r[c].size \in Nat /\ 16 <= r[c].size
             /\ c + r[c].size <= hi
             /\ c + r[c].size \in C \cup {hi}
             /\ c + r[c].size - 8 \in Heap!Words
             /\ r[c + r[c].size - 8] = r[c]
  BY <1>1 DEF Row
<1>3. ASSUME NEW b \in A
      PROVE  /\ b \in B /\ b \in Heap!Words /\ r[b] = m[b]
             /\ m[b].size \in Nat /\ 16 <= m[b].size
             /\ b + m[b].size <= Size
             /\ b + m[b].size - 8 \in Heap!Words
             /\ r[b + m[b].size - 8] = r[b]
             /\ b < lo => b + m[b].size <= lo
             /\ b + m[b].size \in A \cup C \cup {Size}
  <2>1. /\ b \in B /\ b \in Heap!Words /\ b \in Nat /\ r[b] = m[b]
        /\ m[b].size \in Nat /\ 16 <= m[b].size
        /\ b + m[b].size <= Size
        /\ b + m[b].size - 8 \in Heap!Words
        /\ m[b + m[b].size - 8] = m[b]
        /\ b + m[b].size \in B \cup {Size}
    BY <1>1 DEF Row, Outside
  <2>2. b < lo => b + m[b].size <= lo
    BY <2>1 DEF Row
  <2>3. r[b + m[b].size - 8] = m[b + m[b].size - 8]
    <3>1. b + m[b].size - 8 < lo \/ hi <= b + m[b].size - 8
      BY <1>1, <2>1, <2>2
    <3> QED BY <2>1, <3>1 DEF Outside
  <2>4. b + m[b].size \in A \cup C \cup {Size}
    <3>1. lo \in C
      BY DEF Row
    <3>2. b + m[b].size <= lo \/ hi <= b + m[b].size
      BY <1>1, <2>1, <2>2
    <3> QED BY <1>1, <2>1, <3>1, <3>2
  <2> QED BY <2>1, <2>2, <2>3, <2>4
<1>4. hi \in A \cup {Size}
  BY <1>1
<1>5. A \cup C \subseteq Heap!Words /\ 0 \in A \cup C
  <2>1. 0 \in B /\ lo \in C
    BY DEF Row
  <2>2. lo = 0 \/ 0 < lo
    BY <1>1
  <2> QED BY <1>1, <1>2, <2>1, <2>2
<1>6. ASSUME NEW b \in A \cup C
      PROVE  /\ r[b].size \in Nat /\ 16 <= r[b].size
             /\ 0 <= b /\ b + r[b].size <= Size
             /\ b + r[b].size \in A \cup C \cup {Size}
             /\ b + r[b].size - 8 \in Heap!Words
             /\ r[b + r[b].size - 8] = r[b]
  <2> HIDE DEF A
  <2>1. CASE b \in A
    <3>1. b \in Nat /\ r[b].size = m[b].size /\ m[b].size \in Nat /\ 16 <= m[b].size
      BY <1>1, <1>3, <2>1
    <3>2. /\ b + r[b].size <= Size /\ b + r[b].size \in A \cup C \cup {Size}
          /\ b + r[b].size - 8 \in Heap!Words /\ r[b + r[b].size - 8] = r[b]
      BY <1>3, <2>1, <3>1
    <3> QED BY <3>1, <3>2
  <2>2. CASE b \in C
    <3>1. b \in Nat /\ b + r[b].size \in C \cup {hi} /\ b + r[b].size <= hi /\ hi <= Size
      BY <1>1, <1>2, <2>2
    <3>2. b + r[b].size \in A \cup C \cup {Size}
      BY <1>4, <3>1
    <3>3. r[b].size \in Nat /\ b + r[b].size <= Size
      BY <1>1, <1>2, <2>2, <3>1
    <3> QED BY <1>2, <2>2, <3>1, <3>2, <3>3
  <2> QED BY <2>1, <2>2
<1>7. ASSUME NEW b \in A \cup C, NEW c \in A \cup C, b < c
      PROVE  b + r[b].size <= c
  <2>1. CASE b \in A /\ c \in A
    <3>1. b \in B /\ c \in B /\ r[b] = m[b]
      BY <1>3, <2>1
    <3> QED BY <1>7, <3>1 DEF Row
  <2>2. CASE b \in A /\ c \in C
    BY <1>1, <1>2, <1>3, <1>7, <2>2
  <2>3. CASE b \in C /\ c \in A
    BY <1>1, <1>2, <1>3, <1>7, <2>3
  <2>4. CASE b \in C /\ c \in C
    BY <1>7, <2>4 DEF Row
  <2> QED BY <2>1, <2>2, <2>3, <2>4
<1>8. ASSUME NEW d \in A \cup C \cup {Size}, d # 0
      PROVE  \E c \in A \cup C : c + r[c].size = d
  <2>1. CASE d = hi \/ (d \in C /\ d # lo)
    <3>1. PICK c \in C : c + r[c].size = d
      BY <1>1, <2>1 DEF Row
    <3> QED BY <3>1
  <2>2. CASE (d \in B \cup {Size} /\ (d <= lo \/ hi < d))
    <3>1. PICK b \in B : b + m[b].size = d
      BY <1>8, <2>2 DEF Row
    <3>2. /\ m[b].size \in Nat /\ 16 <= m[b].size /\ b \in Nat
          /\ lo < b => lo + m[lo].size <= b
          /\ b < hi /\ hi \in B => b + m[b].size <= hi
          /\ b < lo => b + m[b].size <= lo
      BY <1>1 DEF Row
    <3>3. b \in A
      BY <1>1, <2>2, <3>1, <3>2
    <3> QED BY <1>3, <3>1, <3>3
  <2>3. \/ d = hi \/ (d \in C /\ d # lo) \/ (d \in B \cup {Size} /\ (d <= lo \/ hi < d))
    BY <1>1
  <2> QED BY <2>1, <2>2, <2>3
<1> HIDE DEF A
<1>9. Row(r, A \cup C, 0, Size)
  BY <1>5, <1>6, <1>7, <1>8 DEF Row
<1> QED BY <1>9 DEF A

-----------------------------------------------------------------------------
(* What a word of the memory holds: a header, or data. *)
Cells == [size : Nat, in_use : BOOLEAN] \cup [of : Nat \cup {NULL}]
Memory == [Heap!Words -> Cells]

(* A header says what it was made of. *)
LEMMA HeaderIs ==
  ASSUME NEW k \in Nat
  PROVE  /\ Heap!Header(k, TRUE) \in Cells /\ Heap!Header(k, FALSE) \in Cells
         /\ Heap!Header(k, TRUE).size = k /\ Heap!Header(k, FALSE).size = k
         /\ Heap!Header(k, TRUE).in_use /\ ~Heap!Header(k, FALSE).in_use
BY DEF Heap!Header, Cells

(* What set_block_header does: one header in the first word and in the last. *)
Marked(m, b, h) == [m EXCEPT ![b] = h, ![b + h.size - 8] = h]

(* set_block_header marks a block. *)
LEMMA Headers ==
  ASSUME NEW m, NEW b, NEW k \in Nat
  PROVE  /\ Heap!set_block_header(m, b, k, TRUE) = Marked(m, b, Heap!Header(k, TRUE))
         /\ Heap!set_block_header(m, b, k, FALSE) = Marked(m, b, Heap!Header(k, FALSE))
BY HeaderIs DEF Heap!set_block_header, Marked, Heap!HEADER_SIZE

(* A header that is written over blocks makes one block of them. *)
LEMMA OneBlock ==
  ASSUME NEW m \in Memory, NEW B, Row(m, B, 0, Size),
         NEW b \in B, NEW h \in Cells, h.size \in Nat, 16 <= h.size,
         b + h.size \in B \cup {Size}
  PROVE  /\ Marked(m, b, h) \in Memory
         /\ Row(Marked(m, b, h), {a \in B : a <= b \/ b + h.size <= a}, 0, Size)
         /\ Marked(m, b, h)[b] = h
         /\ Outside(m, Marked(m, b, h), b, b + h.size)
<1> DEFINE r == Marked(m, b, h)
           e == b + h.size - 8
<1>1. /\ b \in Heap!Words /\ b \in Nat /\ b + h.size \in Nat
      /\ e \in Heap!Words
  <2>1. B \subseteq Heap!Words
    BY DEF Row
  <2>2. b + h.size \in Heap!Words \/ b + h.size = Size
    BY <2>1
  <2>3. e \in Heap!Words
    BY <2>1, <2>2, WordsAre DEF Heap!Words, Heap!HEADER_SIZE
  <2> QED BY <2>1, <2>3, WordsAre
<1>2. /\ r \in Memory /\ r[b] = h /\ r[e] = h
      /\ \A w \in Heap!Words : w # b /\ w # e => r[w] = m[w]
  <2>1. r = [m EXCEPT ![b] = h, ![e] = h]
    BY DEF Marked
  <2> HIDE DEF r, e
  <2> QED BY <1>1, <2>1 DEF Memory
<1> HIDE DEF r
<1>4. Outside(m, r, b, b + h.size)
  <2> SUFFICES ASSUME NEW w \in Heap!Words, w < b \/ b + h.size <= w PROVE r[w] = m[w]
    BY DEF Outside
  <2>1. w \in Nat /\ w # b /\ w # e
    BY <1>1, WordsAre
  <2> QED BY <1>2, <2>1
<1>5. Row(r, {b}, b, b + h.size)
  BY <1>1, <1>2 DEF Row
<1>6. b < b + h.size
  BY <1>1
<1>7. Row(r, {a \in B : a < b \/ b + h.size <= a} \cup {b}, 0, Size)
  BY <1>4, <1>5, <1>6, Retiled
<1>8. {a \in B : a < b \/ b + h.size <= a} \cup {b} = {a \in B : a <= b \/ b + h.size <= a}
  <2>1. \A a \in B : a \in Nat
    BY WordsAre DEF Row
  <2>2. \A a \in B : a <= b <=> a < b \/ a = b
    BY <1>1, <2>1
  <2> QED BY <2>2
<1> QED BY <1>2, <1>4, <1>7, <1>8 DEF r

(* The blocks in use. *)
Used(m, B) == {b \in B : m[b].in_use}

(* The blocks in use stay, with all that is in them. *)
Keeps(m, S, r) == \A b \in S : \A w \in Heap!Words : b <= w /\ w < b + m[b].size => r[w] = m[w]

(* The block is not a free one before another free one. *)
Apart(m, b) == m[b].in_use \/ b + m[b].size = Size \/ m[b + m[b].size].in_use

(* What a tiling says about one of its blocks. *)
LEMMA Neighbour ==
  ASSUME NEW m, NEW B, Row(m, B, 0, Size), NEW b \in B
  PROVE  /\ b \in Heap!Words /\ b \in Nat /\ Size \in Nat /\ Size \notin B
         /\ m[b].size \in Nat /\ 16 <= m[b].size
         /\ b + m[b].size \in B \cup {Size} /\ b + m[b].size <= Size
         /\ m[b + m[b].size - 8] = m[b]
         /\ \A a \in B : b < a => b + m[b].size <= a
         /\ b # 0 => \E a \in B : a + m[a].size = b
BY WordsAre DEF Row

(* coalesce: the blocks in use stay as they were, and if the next block is apart from what
   follows it, then so is the block itself now. X are the blocks that need not be apart. *)
LEMMA Coalesced ==
  ASSUME NEW m \in Memory, NEW B, Row(m, B, 0, Size), NEW b \in B, NEW X,
         \A a \in B : a \in X \/ Apart(m, a), b + m[b].size \notin X,
         NEW r, r = Heap!coalesce(m, b)
  PROVE  \E C \in SUBSET B :
           /\ r \in Memory /\ Row(r, C, 0, Size) /\ b \in C
           /\ \A a \in C : a \in X \ {b} \/ Apart(r, a)
           /\ Used(r, C) = Used(m, B) /\ Keeps(m, Used(m, B), r)
           /\ \A a \in C : a # b => r[a] = m[a]
<1> DEFINE c == b + m[b].size
<1>1. CASE m[b].in_use \/ c = Size \/ m[c].in_use
  <2>1. r = m
    BY <1>1 DEF Heap!coalesce, Heap!get_next_block
  <2>2. Apart(m, b)
    BY <1>1 DEF Apart
  <2>3. Keeps(m, Used(m, B), m)
    BY DEF Keeps
  <2> QED BY <2>1, <2>2, <2>3
<1>2. CASE ~m[b].in_use /\ c # Size /\ ~m[c].in_use
  <2> DEFINE s == m[b].size + m[c].size
             C == {a \in B : a <= b \/ b + s <= a}
  <2>1. c \in B /\ c = b + m[b].size /\ b \in Nat /\ c \in Nat
        /\ m[b].size \in Nat /\ m[c].size \in Nat /\ 16 <= m[b].size /\ 16 <= m[c].size
        /\ c + m[c].size \in B \cup {Size}
    BY <1>2, Neighbour
  <2>2. s \in Nat /\ 16 <= s /\ b + s = c + m[c].size
    BY <2>1
  <2>3. r = Heap!set_block_header(m, b, s, FALSE)
    BY <1>2 DEF Heap!coalesce, Heap!get_next_block
  <2>4. /\ r \in Memory /\ Row(r, C, 0, Size)
        /\ r[b].size = s /\ ~r[b].in_use /\ Outside(m, r, b, b + s)
    <3> HIDE DEF s
    <3> DEFINE h == Heap!Header(s, FALSE)
    <3>1. b + s \in B \cup {Size}
      BY <2>1, <2>2
    <3>2. h \in Cells /\ h.size = s /\ ~h.in_use
      BY <2>2, HeaderIs
    <3>3. r = Marked(m, b, h)
      BY <2>2, <2>3, Headers
    <3> HIDE DEF h, c
    <3>6. h \in Cells /\ h.size \in Nat /\ 16 <= h.size /\ b + h.size \in B \cup {Size}
      BY <2>2, <3>1, <3>2
    <3>4. /\ r \in Memory /\ Row(r, {a \in B : a <= b \/ b + h.size <= a}, 0, Size)
          /\ r[b] = h /\ Outside(m, r, b, b + h.size)
      BY <3>3, <3>6, OneBlock
    <3> QED BY <3>2, <3>4
  <2>5. b \in C
    BY <2>1
  <2>6. ASSUME NEW a \in B, a # b, a # c
        PROVE  /\ a \in C /\ r[a] = m[a] /\ a \in Heap!Words /\ a \in Nat
               /\ m[a].size \in Nat /\ 16 <= m[a].size
               /\ a + m[a].size <= b \/ b + s <= a
    <3>1. /\ a \in Nat /\ a \in Heap!Words /\ m[a].size \in Nat /\ 16 <= m[a].size
          /\ a < b => a + m[a].size <= b
      BY <2>1, Neighbour
    <3>2. b < a => c <= a
      BY <2>1, Neighbour
    <3>3. c < a => c + m[c].size <= a
      BY <2>1, Neighbour
    <3>4. a + m[a].size <= b \/ b + s <= a
      BY <2>1, <2>2, <2>6, <3>1, <3>2, <3>3
    <3>5. a < b \/ b + s <= a
      <4> HIDE DEF s, C
      <4> QED BY <2>1, <3>1, <3>4
    <3>6. r[a] = m[a]
      BY <2>4, <3>1, <3>5 DEF Outside
    <3>7. a \in C
      BY <3>1, <3>5, <2>1
    <3> HIDE DEF C, s
    <3> QED BY <3>1, <3>4, <3>6, <3>7
  <2>7. c \notin C
    BY <2>1, <2>2
  <2> HIDE DEF C, s
  <2>8. C \subseteq B
    BY DEF C
  <2>9. Used(r, C) = Used(m, B)
    <3>1. \A a \in B : a # b /\ a # c => a \in C /\ (r[a].in_use <=> m[a].in_use)
      BY <2>6
    <3> QED BY <1>2, <2>4, <2>7, <2>8, <3>1 DEF Used
  <2>10. Keeps(m, Used(m, B), r)
    <3> SUFFICES ASSUME NEW a \in Used(m, B), NEW w \in Heap!Words, a <= w, w < a + m[a].size
                 PROVE  r[w] = m[w]
      BY DEF Keeps
    <3>1. a \in B /\ a # b /\ a # c
      BY <1>2 DEF Used
    <3>2. w \in Nat /\ b + s \in Nat
      BY <2>1, <2>2, WordsAre
    <3>3. w < b \/ b + s <= w
      BY <2>1, <2>6, <3>1, <3>2
    <3> QED BY <2>4, <3>3 DEF Outside
  <2>11. ASSUME NEW a \in C, a \notin X \ {b} PROVE Apart(r, a)
    <3>1. CASE a = b
      <4>1. Apart(m, c)
        BY <2>1
      <4>2. c + m[c].size = Size \/ m[c + m[c].size].in_use
        BY <1>2, <4>1 DEF Apart
      <4>3. c + m[c].size # Size => c + m[c].size \in B /\ c + m[c].size # b /\ c + m[c].size # c
        BY <2>1
      <4>4. c + m[c].size # Size => r[c + m[c].size] = m[c + m[c].size]
        BY <2>6, <4>3
      <4>5. b + r[b].size = c + m[c].size
        BY <2>2, <2>4
      <4> QED BY <3>1, <4>2, <4>4, <4>5 DEF Apart
    <3>2. CASE a # b
      <4>1. a \in B /\ a # c /\ Apart(m, a)
        BY <2>7, <2>8, <2>11, <3>2
      <4>2. /\ r[a] = m[a] /\ a + m[a].size \in B \cup {Size}
            /\ a + m[a].size <= b \/ b + s <= a
        BY <2>6, <3>2, <4>1, Neighbour
      <4>3. a + m[a].size # c
        BY <2>1, <2>2, <2>6, <3>2, <4>1, <4>2
      <4>4. CASE a + m[a].size = b
        BY <1>2, <2>1, <4>1, <4>2, <4>4, Neighbour DEF Apart
      <4>5. CASE a + m[a].size # b
        <5>1. a + m[a].size # Size => r[a + m[a].size] = m[a + m[a].size]
          BY <2>6, <4>2, <4>3, <4>5
        <5> QED BY <4>1, <4>2, <5>1 DEF Apart
      <4> QED BY <4>4, <4>5
    <3> QED BY <3>1, <3>2
  <2>12. \A a \in C : a # b => r[a] = m[a]
    BY <2>6, <2>7, <2>8
  <2> QED BY <2>4, <2>5, <2>8, <2>9, <2>10, <2>11, <2>12
<1> QED BY <1>1, <1>2

(* free: the block is free, joined with whatever is free beside it. *)
LEMMA FreedIs ==
  ASSUME mem \in Memory, NEW B, Row(mem, B, 0, Size), \A a \in B : Apart(mem, a),
         NEW b \in B, mem[b].in_use
  PROVE  \E C \in SUBSET B :
           /\ Heap!Freed(b) \in Memory /\ Row(Heap!Freed(b), C, 0, Size)
           /\ \A a \in C : Apart(Heap!Freed(b), a)
           /\ Used(Heap!Freed(b), C) = Used(mem, B) \ {b}
           /\ Keeps(mem, Used(mem, B) \ {b}, Heap!Freed(b))
<1> DEFINE m0 == Heap!set_block_header(mem, b, mem[b].size, FALSE)
           X == {a \in B : a = b \/ a + mem[a].size = b}
           m1 == Heap!coalesce(m0, b)
<1>1. /\ m0 \in Memory /\ Row(m0, B, 0, Size)
      /\ m0[b].size = mem[b].size /\ ~m0[b].in_use
      /\ Outside(mem, m0, b, b + mem[b].size)
  <2> DEFINE h == Heap!Header(mem[b].size, FALSE)
  <2>1. mem[b].size \in Nat /\ 16 <= mem[b].size /\ b + mem[b].size \in B \cup {Size}
    BY Neighbour
  <2>2. h \in Cells /\ h.size = mem[b].size /\ ~h.in_use
    BY <2>1, HeaderIs
  <2>3. m0 = Marked(mem, b, h)
    BY <2>1, Headers
  <2> HIDE DEF h, m0
  <2>4. h \in Cells /\ h.size \in Nat /\ 16 <= h.size /\ b + h.size \in B \cup {Size}
    BY <2>1, <2>2
  <2>5. /\ m0 \in Memory /\ Row(m0, {a \in B : a <= b \/ b + h.size <= a}, 0, Size)
        /\ m0[b] = h /\ Outside(mem, m0, b, b + h.size)
    BY <2>3, <2>4, OneBlock
  <2>6. \A a \in B : a \in Nat /\ (b < a => b + h.size <= a)
    BY <2>2, Neighbour
  <2>7. b \in Nat /\ b + h.size \in Nat
    BY <2>1, <2>2, Neighbour
  <2>8. \A a \in B : a <= b \/ b + h.size <= a
    BY <2>6, <2>7
  <2>9. {a \in B : a <= b \/ b + h.size <= a} = B
    BY <2>8
  <2> QED BY <2>2, <2>5, <2>9
<1>2. ASSUME NEW a \in B, a # b
      PROVE  /\ m0[a] = mem[a]
             /\ \A w \in Heap!Words : a <= w /\ w < a + mem[a].size => m0[w] = mem[w]
  <2>1. /\ a \in Heap!Words /\ a \in Nat /\ b \in Nat
        /\ mem[a].size \in Nat /\ 16 <= mem[a].size /\ mem[b].size \in Nat
        /\ a < b => a + mem[a].size <= b
        /\ b < a => b + mem[b].size <= a
    BY Neighbour
  <2>2. \A w \in Heap!Words : w \in Nat
    BY WordsAre
  <2> HIDE DEF m0
  <2>3. ASSUME NEW w \in Heap!Words, a <= w, w < a + mem[a].size PROVE m0[w] = mem[w]
    <3>1. w < b \/ b + mem[b].size <= w
      BY <1>2, <2>1, <2>2, <2>3
    <3> QED BY <1>1, <3>1 DEF Outside
  <2> QED BY <2>1, <2>3
<1>3. Used(m0, B) = Used(mem, B) \ {b} /\ Keeps(mem, Used(mem, B) \ {b}, m0)
  <2> HIDE DEF m0
  <2> QED BY <1>1, <1>2 DEF Used, Keeps
<1>4. \A a \in B : a \in X \/ Apart(m0, a)
  <2> HIDE DEF m0
  <2> SUFFICES ASSUME NEW a \in B, a \notin X PROVE Apart(m0, a)
    OBVIOUS
  <2>1. a # b /\ a + mem[a].size # b /\ m0[a] = mem[a] /\ Apart(mem, a)
        /\ a + mem[a].size \in B \cup {Size}
    BY <1>2, Neighbour
  <2>2. a + mem[a].size # Size => m0[a + mem[a].size] = mem[a + mem[a].size]
    BY <1>2, <2>1
  <2> QED BY <2>1, <2>2 DEF Apart
<1>5. b + m0[b].size \notin X
  <2>1. b \in Nat /\ mem[b].size \in Nat /\ 16 <= mem[b].size
        /\ \A a \in B : a \in Nat /\ mem[a].size \in Nat
    BY Neighbour
  <2> HIDE DEF m0
  <2> QED BY <1>1, <2>1
<1> HIDE DEF m0, X
<1>6. PICK C1 \in SUBSET B :
        /\ m1 \in Memory /\ Row(m1, C1, 0, Size) /\ b \in C1
        /\ \A a \in C1 : a \in X \ {b} \/ Apart(m1, a)
        /\ Used(m1, C1) = Used(m0, B) /\ Keeps(m0, Used(m0, B), m1)
        /\ \A a \in C1 : a # b => m1[a] = m0[a]
  BY <1>1, <1>4, <1>5, Coalesced
<1>7. Keeps(mem, Used(mem, B) \ {b}, m1)
  BY <1>2, <1>3, <1>6 DEF Keeps, Used
<1>8. CASE b = 0
  <2>1. Heap!Freed(b) = m1
    BY <1>8 DEF Heap!Freed, m0
  <2>2. \A a \in C1 : Apart(m1, a)
    <3>1. X = {b}
      BY <1>8, Neighbour DEF X
    <3> QED BY <1>6, <3>1
  <2> HIDE DEF m1
  <2> QED BY <1>3, <1>6, <1>7, <2>1, <2>2
<1>9. CASE b # 0
  <2> DEFINE m2 == Heap!coalesce(m1, b - m1[b - 8].size)
  <2>1. Heap!Freed(b) = m2
    BY <1>9 DEF Heap!Freed, Heap!get_previous_block, Heap!HEADER_SIZE, m0
  <2> HIDE DEF m1
  <2>2. PICK a \in C1 : a + m1[a].size = b
    BY <1>6, <1>9, Neighbour
  <2>3. a \in Nat /\ m1[a].size \in Nat /\ 16 <= m1[a].size /\ m1[a + m1[a].size - 8] = m1[a]
        /\ b \in Nat
    BY <1>6, <2>2, Neighbour
  <2>4. b - m1[b - 8].size = a /\ a # b
    BY <2>2, <2>3
  <2> DEFINE X2 == {a}
  <2>5. \A d \in C1 : d \in X2 \/ Apart(m1, d)
    <3> SUFFICES ASSUME NEW d \in C1, d # a PROVE Apart(m1, d)
      OBVIOUS
    <3>1. ASSUME d # b, d + mem[d].size = b PROVE FALSE
      <4>1. m1[d] = mem[d]
        BY <1>2, <1>6, <3>1
      <4>2. /\ d \in Nat /\ m1[d].size \in Nat /\ 16 <= m1[d].size
            /\ d < a => d + m1[d].size <= a
            /\ a < d => a + m1[a].size <= d
        BY <1>6, Neighbour
      <4> QED BY <2>2, <2>3, <3>1, <4>1, <4>2
    <3> QED BY <1>6, <3>1 DEF X
  <2>6. a + m1[a].size \notin X2
    BY <2>2, <2>4
  <2>7. m2 = Heap!coalesce(m1, a)
    BY <2>4
  <2> HIDE DEF m2, X2
  <2>8. PICK C2 \in SUBSET C1 :
          /\ m2 \in Memory /\ Row(m2, C2, 0, Size) /\ a \in C2
          /\ \A d \in C2 : d \in X2 \ {a} \/ Apart(m2, d)
          /\ Used(m2, C2) = Used(m1, C1) /\ Keeps(m1, Used(m1, C1), m2)
    BY <1>6, <2>5, <2>6, <2>7, Coalesced
  <2>9. Keeps(mem, Used(mem, B) \ {b}, m2)
    <3> SUFFICES ASSUME NEW d \in Used(mem, B) \ {b}, NEW w \in Heap!Words,
                        d <= w, w < d + mem[d].size
                 PROVE  m2[w] = mem[w]
      BY DEF Keeps
    <3>1. m1[w] = mem[w]
      BY <1>7 DEF Keeps
    <3>2. d \in B /\ d \in Heap!Words /\ d \in Nat /\ mem[d].size \in Nat /\ 16 <= mem[d].size
      BY Neighbour DEF Used
    <3>3. m1[d] = mem[d]
      BY <1>7, <3>2 DEF Keeps
    <3>4. d \in Used(m1, C1)
      BY <1>3, <1>6
    <3> QED BY <2>8, <3>1, <3>3, <3>4 DEF Keeps
  <2> QED BY <1>3, <1>6, <2>1, <2>8, <2>9 DEF X2
<1> QED BY <1>8, <1>9

(* What a request takes: two header words, and a payload of whole words. *)
LEMMA NeedIs ==
  ASSUME NEW k \in Nat
  PROVE  LET need == Heap!get_size_to_allocate(k)
         IN need \in Nat /\ k + 16 <= need /\ need < k + 24 /\ need % 8 = 0
BY DEF Heap!get_size_to_allocate, Heap!HEADER_SIZE

(* What is left over goes with the block when it could not be a block of its own. *)
Takes(k, need) == IF k - need >= 24 THEN need ELSE k

(* split_and_mark_used: the block is in use, and what it does not need is free. *)
LEMMA SplitIs ==
  ASSUME NEW m \in Memory, NEW B, Row(m, B, 0, Size), \A a \in B : Apart(m, a),
         NEW b \in B, ~m[b].in_use, NEW need \in Nat, need % 8 = 0, 16 <= need, need <= m[b].size,
         NEW r, r = Heap!split_and_mark_used(m, b, need)
  PROVE  \E C :
           /\ r \in Memory /\ Row(r, C, 0, Size) /\ b \in C
           /\ \A a \in C : Apart(r, a)
           /\ Used(r, C) = Used(m, B) \cup {b} /\ Keeps(m, Used(m, B), r)
           /\ r[b].size = Takes(m[b].size, need)
<1> DEFINE c == b + m[b].size
<1>1. /\ b \in Heap!Words /\ b \in Nat /\ Size \in Nat /\ Size \notin B
      /\ m[b].size \in Nat /\ 16 <= m[b].size
      /\ c \in B \cup {Size} /\ c <= Size
      /\ \A w \in Heap!Words : w \in Nat
  BY Neighbour, WordsAre
<1>2. m[b].size % 8 = 0
  <2>1. b % 8 = 0 /\ c % 8 = 0
    BY <1>1, SizesAssumption DEF Heap!SizesAssumption, Heap!Words, Heap!HEADER_SIZE, Row
  <2> QED BY <1>1, <2>1
(* the same for both outcomes *)
<1>3. ASSUME NEW D, Row(r, D, b, c), Outside(m, r, b, c), r \in Memory, r[b].in_use,
             \A d \in D : d = b \/ (~r[d].in_use /\ d + r[d].size = c),
             r[b].size = Takes(m[b].size, need)
      PROVE  \E C :
               /\ r \in Memory /\ Row(r, C, 0, Size) /\ b \in C
               /\ \A a \in C : Apart(r, a)
               /\ Used(r, C) = Used(m, B) \cup {b} /\ Keeps(m, Used(m, B), r)
               /\ r[b].size = Takes(m[b].size, need)
  <2> DEFINE A == {a \in B : a < b \/ c <= a}
  <2>1. Row(r, A \cup D, 0, Size)
    BY <1>1, <1>3, Retiled
  <2>2. b \in D
    BY <1>3 DEF Row
  <2>3. A = B \ {b}
    BY <1>1, Neighbour
  <2>4. ASSUME NEW a \in A
        PROVE  /\ r[a] = m[a] /\ a \in Nat /\ m[a].size \in Nat /\ 16 <= m[a].size
               /\ a + m[a].size <= b \/ c <= a
    <3>1. /\ a \in Nat /\ a \in Heap!Words /\ m[a].size \in Nat /\ 16 <= m[a].size
          /\ a < b => a + m[a].size <= b
      BY <1>1, Neighbour
    <3>2. r[a] = m[a]
      BY <1>3, <3>1 DEF Outside
    <3> QED BY <3>1, <3>2
  <2>5. c # Size => c \in A /\ m[c].in_use /\ r[c].in_use
    <3>1. c # Size => c \in B /\ c # b
      BY <1>1
    <3>2. c # Size => m[c].in_use
      BY DEF Apart
    <3> QED BY <2>3, <2>4, <3>1, <3>2
  <2>6. ASSUME NEW a \in A \cup D PROVE Apart(r, a)
    <3>1. CASE a \in D
      BY <1>3, <2>5, <3>1 DEF Apart
    <3>2. CASE a \in A
      <4>1. Apart(m, a) /\ r[a] = m[a] /\ a \in B /\ a + m[a].size \in B \cup {Size}
        BY <2>4, <3>2, Neighbour
      <4>2. CASE a + m[a].size = b
        BY <1>3, <4>1, <4>2 DEF Apart
      <4>3. CASE a + m[a].size # b
        <5>1. a + m[a].size # Size => r[a + m[a].size] = m[a + m[a].size]
          BY <2>3, <2>4, <4>1, <4>3
        <5> QED BY <4>1, <5>1 DEF Apart
      <4> QED BY <4>2, <4>3
    <3> QED BY <3>1, <3>2
  <2>7. Used(r, A \cup D) = Used(m, B) \cup {b}
    BY <1>3, <2>2, <2>3, <2>4 DEF Used
  <2>8. Keeps(m, Used(m, B), r)
    <3> SUFFICES ASSUME NEW a \in Used(m, B), NEW w \in Heap!Words, a <= w, w < a + m[a].size
                 PROVE  r[w] = m[w]
      BY DEF Keeps
    <3>1. a \in A
      BY <2>3 DEF Used
    <3>2. w < b \/ c <= w
      BY <1>1, <2>4, <3>1
    <3> QED BY <1>3, <3>2 DEF Outside
  <2> HIDE DEF A
  <2> QED BY <1>3, <2>1, <2>2, <2>6, <2>7, <2>8
<1>4. CASE m[b].size - need >= 24
  <2> DEFINE s == m[b].size - need
             d == b + need
             h1 == Heap!Header(need, TRUE)
             h2 == Heap!Header(s, FALSE)
             r1 == Marked(m, b, h1)
  <2>1. /\ s \in Nat /\ 24 <= s /\ d \in Nat /\ d + s = c
        /\ d \in Heap!Words /\ d - 8 \in Heap!Words /\ c - 8 \in Heap!Words
    <3>1. s \in Nat /\ 24 <= s /\ d \in Nat /\ d + s = c /\ b % 8 = 0 /\ Size % 8 = 0
      BY <1>1, <1>4, SizesAssumption DEF Heap!SizesAssumption, Heap!Words, Heap!HEADER_SIZE
    <3>2. d % 8 = 0 /\ (d - 8) % 8 = 0 /\ (c - 8) % 8 = 0 /\ d - 8 \in Nat /\ c - 8 \in Nat
      BY <1>1, <1>2, <3>1
    <3>3. d < Size /\ d - 8 < Size /\ c - 8 < Size
      BY <1>1, <3>1
    <3> QED BY <1>1, <3>1, <3>2, <3>3 DEF Heap!Words, Heap!HEADER_SIZE
  <2>2. /\ h1 \in Cells /\ h1.size = need /\ h1.in_use
        /\ h2 \in Cells /\ h2.size = s /\ ~h2.in_use
    BY <2>1, HeaderIs
  <2>3. r = Marked(r1, d, h2)
    <3>1. r = Heap!set_block_header(Heap!set_block_header(m, b, need, TRUE), d, s, FALSE)
      <4>1. m[b].size - need >= 3 * 8
        BY <1>4
      <4> QED BY <4>1, Zenon DEF Heap!split_and_mark_used, Heap!HEADER_SIZE
    <3>2. Heap!set_block_header(m, b, need, TRUE) = r1
      BY Headers
    <3>3. Heap!set_block_header(r1, d, s, FALSE) = Marked(r1, d, h2)
      <4> HIDE DEF r1, d, s
      <4> QED BY <2>1, Headers
    <3> QED BY <3>1, <3>2, <3>3, Zenon
  <2> HIDE DEF h1, h2, s
  <2>4. r1 = [m EXCEPT ![b] = h1, ![d - 8] = h1]
    <3>1. b + h1.size - 8 = d - 8
      BY <1>1, <2>2
    <3> QED BY <3>1 DEF Marked
  <2>5. r = [r1 EXCEPT ![d] = h2, ![c - 8] = h2]
    <3>1. d + h2.size - 8 = c - 8
      BY <2>1, <2>2
    <3> QED BY <2>3, <3>1 DEF Marked
  <2> HIDE DEF r1
  <2>6. /\ r1 \in Memory /\ r1[b] = h1 /\ r1[d - 8] = h1
        /\ \A w \in Heap!Words : w # b /\ w # d - 8 => r1[w] = m[w]
    BY <1>1, <2>1, <2>2, <2>4 DEF Memory
  <2>7. /\ r \in Memory /\ r[d] = h2 /\ r[c - 8] = h2
        /\ \A w \in Heap!Words : w # d /\ w # c - 8 => r[w] = r1[w]
    BY <2>1, <2>2, <2>5, <2>6 DEF Memory
  <2>8. b # d /\ b # c - 8 /\ d - 8 # d /\ d - 8 # c - 8
    BY <1>1, <2>1
  <2>9. r[b] = h1 /\ r[d - 8] = h1
    BY <1>1, <2>1, <2>6, <2>7, <2>8
  <2>10. Outside(m, r, b, c)
    <3> SUFFICES ASSUME NEW w \in Heap!Words, w < b \/ c <= w PROVE r[w] = m[w]
      BY DEF Outside
    <3>1. w # b /\ w # d - 8 /\ w # d /\ w # c - 8
      BY <1>1, <2>1
    <3> QED BY <2>6, <2>7, <3>1
  <2>11. Row(r, {b, d}, b, c)
    <3>1. /\ r[b].size = need /\ r[d].size = s /\ b < d /\ b + need = d
          /\ r[b + need - 8] = r[b] /\ r[d + s - 8] = r[d] /\ d + s - 8 = c - 8
      BY <1>1, <2>1, <2>2, <2>7, <2>9
    <3> HIDE DEF c, d
    <3>2. /\ b \in Nat /\ d \in Nat /\ c \in Nat /\ d < c /\ d <= c /\ b + need = d /\ d + s = c
          /\ ~(d < b) /\ b <= d
      BY <1>1, <2>1, <3>1
    <3>3. \A k \in {b, d} : /\ r[k].size \in Nat /\ 16 <= r[k].size
                  /\ b <= k /\ k + r[k].size <= c
                  /\ k + r[k].size \in {b, d} \cup {c}
                  /\ k + r[k].size - 8 \in Heap!Words
                  /\ r[k + r[k].size - 8] = r[k]
      BY <2>1, <3>1, <3>2
    <3>4. \A k, l \in {b, d} : k < l => k + r[k].size <= l
      BY <3>1, <3>2
    <3>5. \A k \in {b, d} \cup {c} : k = b \/ \E l \in {b, d} : l + r[l].size = k
      BY <3>1, <3>2
    <3>6. {b, d} \subseteq Heap!Words /\ b \in {b, d}
      BY <1>1, <2>1
    <3> QED BY <3>3, <3>4, <3>5, <3>6 DEF Row
  <2>12. \A a \in {b, d} : a = b \/ (~r[a].in_use /\ a + r[a].size = c)
    BY <2>1, <2>2, <2>7
  <2>13. r[b].size = Takes(m[b].size, need) /\ r[b].in_use
    BY <1>4, <2>2, <2>9 DEF Takes
  <2> QED BY <1>3, <2>7, <2>10, <2>11, <2>12, <2>13
<1>5. CASE ~(m[b].size - need >= 24)
  <2> DEFINE h == Heap!Header(m[b].size, TRUE)
  <2>1. h \in Cells /\ h.size = m[b].size /\ h.in_use
    BY <1>1, HeaderIs
  <2>2. r = Marked(m, b, h)
    <3>1. r = Heap!set_block_header(m, b, m[b].size, TRUE)
      <4>1. ~(m[b].size - need >= 3 * 8)
        BY <1>5
      <4> QED BY <4>1, Zenon DEF Heap!split_and_mark_used, Heap!HEADER_SIZE
    <3> QED BY <1>1, <3>1, Headers
  <2> HIDE DEF h
  <2>3. h \in Cells /\ h.size \in Nat /\ 16 <= h.size /\ b + h.size \in B \cup {Size}
    BY <1>1, <2>1
  <2> HIDE DEF c
  <2>8. Marked(m, b, h) \in Memory
    BY <2>3, OneBlock
  <2>9. Marked(m, b, h)[b] = h
    BY <2>3, OneBlock
  <2>10. Outside(m, Marked(m, b, h), b, b + h.size)
    BY <2>3, OneBlock
  <2>11. Row(Marked(m, b, h), {a \in B : a <= b \/ b + h.size <= a}, 0, Size)
    BY <2>3, OneBlock
  <2>4. /\ r \in Memory /\ Row(r, {a \in B : a <= b \/ b + h.size <= a}, 0, Size)
        /\ r[b] = h /\ Outside(m, r, b, b + h.size)
    BY <2>2, <2>8, <2>9, <2>10, <2>11
  <2>5. r[b].size = m[b].size /\ r[b].in_use /\ Outside(m, r, b, c)
    BY <2>1, <2>4 DEF c
  <2>6. Row(r, {b}, b, c)
    <3>1. /\ b + r[b].size - 8 \in Heap!Words /\ r[b + r[b].size - 8] = r[b]
      BY <1>1, <2>1, <2>4 DEF Row
    <3> QED BY <1>1, <2>5, <3>1 DEF Row, c
  <2>7. r[b].size = Takes(m[b].size, need)
    BY <1>5, <2>5 DEF Takes
  <2> QED BY <1>3, <2>4, <2>5, <2>6, <2>7
<1> QED BY <1>4, <1>5

-----------------------------------------------------------------------------
(* B are the blocks of the heap: they tile it, no two free ones side by side. *)
Tiled(m, B) == Row(m, B, 0, Size) /\ \A b \in B : Apart(m, b)

(* What is in use is what the client has, with room for it, and its data. *)
Clients(m, l, B) ==
  /\ \A b \in Used(m, B) : b + 8 \in DOMAIN l
  /\ \A p \in DOMAIN l :
       /\ p \in Nat /\ 8 <= p /\ p - 8 \in Used(m, B)
       /\ l[p] \in Nat /\ l[p] + 16 <= m[p - 8].size
       /\ \A w \in Heap!Words : p <= w /\ w < p + l[p] => m[w] = Heap!Data(p)

(* A malloc under way is at a block, or at the end, and nothing before it was large enough. *)
Search(m, q, k, B) ==
  \/ q = NULL
  \/ /\ q \in B \cup {Size} /\ k \in Nat
     /\ \A b \in B : b < q => m[b].in_use \/ m[b].size < Heap!get_size_to_allocate(k)

(* The invariant of the heap. *)
HeapInv ==
  /\ mem \in Memory
  /\ \E B : Tiled(mem, B) /\ Clients(mem, live, B) /\ Search(mem, pos, request, B)

(* heap_create *)
LEMMA InitHeapInv == Heap!Init => HeapInv
<1> SUFFICES ASSUME Heap!Init PROVE HeapInv
  OBVIOUS
<1> DEFINE zeroed == [w \in Heap!Words |-> Heap!Data(NULL)]
           h == Heap!Header(Size, FALSE)
<1>1. Size \in Nat /\ 16 <= Size /\ 0 \in Heap!Words /\ Size - 8 \in Heap!Words
  BY WordsAre
<1>2. h \in Cells /\ h.size = Size /\ ~h.in_use
  BY <1>1, HeaderIs
<1>3. zeroed \in Memory
  BY DEF Memory, Cells, Heap!Data
<1>4. mem = Marked(zeroed, 0, h)
  BY <1>1, Headers DEF Heap!Init
<1> HIDE DEF zeroed, h
<1>5. mem = [zeroed EXCEPT ![0] = h, ![Size - 8] = h]
  <2>1. 0 + h.size - 8 = Size - 8
    BY <1>1, <1>2
  <2> QED BY <1>4, <2>1 DEF Marked
<1>6. mem \in Memory /\ mem[0] = h /\ mem[Size - 8] = h
  BY <1>1, <1>2, <1>3, <1>5 DEF Memory
<1>7. Tiled(mem, {0})
  <2>1. Row(mem, {0}, 0, Size)
    BY <1>1, <1>2, <1>6 DEF Row
  <2> QED BY <1>1, <1>2, <1>6, <2>1 DEF Tiled, Apart
<1>8. Clients(mem, live, {0})
  <2>1. DOMAIN live = {}
    BY DEF Heap!Init
  <2>2. Used(mem, {0}) = {}
    BY <1>2, <1>6 DEF Used
  <2> QED BY <2>1, <2>2 DEF Clients
<1>9. Search(mem, pos, request, {0})
  BY DEF Heap!Init, Search
<1> QED BY <1>6, <1>7, <1>8, <1>9 DEF HeapInv

(* malloc starts at the first block. *)
LEMMA MallocKeeps == ASSUME HeapInv, NEW k \in Nat, Heap!Malloc(k) PROVE HeapInv'
<1>1. PICK B : Tiled(mem, B) /\ Clients(mem, live, B) /\ Search(mem, pos, request, B)
  BY DEF HeapInv
<1>2. mem' = mem /\ live' = live /\ pos' = 0 /\ request' = k
  BY DEF Heap!Malloc
<1>3. Search(mem', pos', request', B)
  <2>1. 0 \in B /\ \A b \in B : b \in Nat
    BY <1>1, WordsAre DEF Tiled, Row
  <2> QED BY <1>2, <2>1 DEF Search
<1> QED BY <1>1, <1>2, <1>3 DEF HeapInv

(* The search goes on behind a block that does not fit. *)
LEMMA TryNextKeeps == ASSUME HeapInv, Heap!TryNext PROVE HeapInv'
<1>1. PICK B : Tiled(mem, B) /\ Clients(mem, live, B) /\ Search(mem, pos, request, B)
  BY DEF HeapInv
<1>2. /\ UNCHANGED <<mem, live, request>> /\ pos' = pos + mem[pos].size
      /\ pos # NULL /\ pos < Size
      /\ mem[pos].in_use \/ ~(mem[pos].size >= Heap!get_size_to_allocate(request))
  BY DEF Heap!TryNext, Heap!Searching, Heap!Fits, Heap!get_next_block
<1>3. /\ pos \in B /\ request \in Nat
      /\ \A b \in B : b < pos => mem[b].in_use \/ mem[b].size < Heap!get_size_to_allocate(request)
  BY <1>1, <1>2, WordsAre DEF Search
<1>4. Row(mem, B, 0, Size)
  BY <1>1 DEF Tiled
<1>5. /\ pos \in Nat /\ mem[pos].size \in Nat /\ 16 <= mem[pos].size
      /\ pos + mem[pos].size \in B \cup {Size}
      /\ \A b \in B : b \in Nat /\ (pos < b => pos + mem[pos].size <= b)
  BY <1>3, <1>4, Neighbour
<1>6. Heap!get_size_to_allocate(request) \in Nat
  BY <1>3, NeedIs
<1>7. ASSUME NEW b \in B, b < pos'
      PROVE  mem[b].in_use \/ mem[b].size < Heap!get_size_to_allocate(request)
  <2>1. b < pos \/ b = pos
    BY <1>2, <1>5, <1>7
  <2> QED BY <1>2, <1>3, <1>5, <1>6, <2>1
<1>8. Search(mem', pos', request', B)
  BY <1>2, <1>3, <1>5, <1>7 DEF Search
<1> QED BY <1>1, <1>2, <1>8 DEF HeapInv

(* malloc fails. *)
LEMMA MallocFailsKeeps == ASSUME HeapInv, Heap!MallocFails PROVE HeapInv'
<1>1. PICK B : Tiled(mem, B) /\ Clients(mem, live, B)
  BY DEF HeapInv
<1>2. UNCHANGED <<mem, live>> /\ pos' = NULL
  BY DEF Heap!MallocFails
<1>3. Search(mem', pos', request', B)
  BY <1>2 DEF Search
<1> QED BY <1>1, <1>2, <1>3 DEF HeapInv

(* The client's data goes where no header is. *)
LEMMA FilledIs ==
  ASSUME NEW m \in Memory, NEW B, Row(m, B, 0, Size), NEW b \in B, NEW k \in Nat,
         k + 16 <= m[b].size, NEW r, r = Heap!Filled(m, b + 8, k)
  PROVE  /\ r \in Memory /\ Row(r, B, 0, Size)
         /\ \A a \in B : r[a] = m[a]
         /\ \A w \in Heap!Words :
              r[w] = IF b + 8 <= w /\ w < b + 8 + k THEN Heap!Data(b + 8) ELSE m[w]
<1>1. /\ b \in Nat /\ m[b].size \in Nat /\ 16 <= m[b].size
      /\ \A w \in Heap!Words : w \in Nat
  BY Neighbour, WordsAre
<1>2. Heap!Data(b + 8) \in Cells
  BY <1>1 DEF Heap!Data, Cells
<1>3. r = [w \in Heap!Words |-> IF b + 8 <= w /\ w < b + 8 + k THEN Heap!Data(b + 8) ELSE m[w]]
  BY DEF Heap!Filled
<1>4. \A w \in Heap!Words : r[w] = IF b + 8 <= w /\ w < b + 8 + k THEN Heap!Data(b + 8) ELSE m[w]
  BY <1>3
<1>5. r \in Memory
  BY <1>2, <1>3 DEF Memory
<1>6. ASSUME NEW a \in B
      PROVE  /\ a \in Heap!Words /\ r[a] = m[a]
             /\ a + m[a].size - 8 \in Heap!Words
             /\ r[a + m[a].size - 8] = m[a + m[a].size - 8]
  <2>1. /\ a \in Heap!Words /\ a \in Nat /\ m[a].size \in Nat /\ 16 <= m[a].size
        /\ a + m[a].size - 8 \in Heap!Words
        /\ a < b => a + m[a].size <= b
        /\ b < a => b + m[b].size <= a
    BY Neighbour DEF Row
  <2>2. ~(b + 8 <= a /\ a < b + 8 + k)
    BY <1>1, <2>1
  <2>3. ~(b + 8 <= a + m[a].size - 8 /\ a + m[a].size - 8 < b + 8 + k)
    BY <1>1, <2>1
  <2> QED BY <1>4, <2>1, <2>2, <2>3
<1>7. Row(r, B, 0, Size)
  <2>1. \A a \in B : r[a] = m[a] /\ r[a + m[a].size - 8] = m[a + m[a].size - 8]
    BY <1>6
  <2> HIDE DEF Row
  <2>2. ASSUME NEW a \in B
        PROVE  /\ r[a].size \in Nat /\ 16 <= r[a].size
               /\ 0 <= a /\ a + r[a].size <= Size
               /\ a + r[a].size \in B \cup {Size}
               /\ a + r[a].size - 8 \in Heap!Words
               /\ r[a + r[a].size - 8] = r[a]
    BY <1>6, <2>1, Neighbour
  <2>3. \A a, c \in B : a < c => a + r[a].size <= c
    BY <2>1, Neighbour
  <2>4. \A d \in B \cup {Size} : d = 0 \/ \E a \in B : a + r[a].size = d
    <3>1. \A d \in B \cup {Size} : d = 0 \/ \E a \in B : a + m[a].size = d
      BY DEF Row
    <3> QED BY <2>1, <3>1
  <2>5. B \subseteq Heap!Words /\ 0 \in B
    BY DEF Row
  <2> QED BY <2>2, <2>3, <2>4, <2>5 DEF Row
<1> QED BY <1>4, <1>5, <1>6, <1>7

(* The blocks that are handed out, as FirstFit has them. *)
HandedOut(m, B) == {[start |-> b, size |-> m[b].size] : b \in Used(m, B)}

(* malloc returns: the blocks handed out are one more, and it is filled. *)
LEMMA MallocReturnsIs ==
  ASSUME mem \in Memory, NEW B, Tiled(mem, B), Clients(mem, live, B),
         Search(mem, pos, request, B), Heap!MallocReturns
  PROVE  /\ pos \in B /\ request \in Nat /\ pos # NULL
         /\ mem' \in Memory /\ pos' = NULL
         /\ \E C : /\ Tiled(mem', C) /\ Clients(mem', live', C)
                   /\ HandedOut(mem', C) = HandedOut(mem, B) \cup
                        {[start |-> pos,
                          size |-> Takes(mem[pos].size, Heap!get_size_to_allocate(request))]}
<1> DEFINE need == Heap!get_size_to_allocate(request)
           r == Heap!split_and_mark_used(mem, pos, need)
           f == Heap!Filled(r, pos + 8, request)
           l == [p \in DOMAIN live \cup {pos + 8} |-> IF p = pos + 8 THEN request ELSE live[p]]
           taken == Takes(mem[pos].size, need)
<1>1. /\ pos # NULL /\ pos < Size /\ ~mem[pos].in_use /\ mem[pos].size >= need
      /\ mem' = f /\ live' = l /\ pos' = NULL
  BY DEF Heap!MallocReturns, Heap!Searching, Heap!Fits, Heap!HEADER_SIZE
<1>2. pos \in B /\ request \in Nat /\ Row(mem, B, 0, Size) /\ \A a \in B : Apart(mem, a)
  BY <1>1, WordsAre DEF Search, Tiled
<1>3. /\ need \in Nat /\ request + 16 <= need /\ need % 8 = 0 /\ 16 <= need
      /\ pos \in Nat /\ mem[pos].size \in Nat /\ need <= mem[pos].size
  <2>1. need \in Nat /\ request + 16 <= need /\ need % 8 = 0
    BY <1>2, NeedIs
  <2>2. pos \in Nat /\ mem[pos].size \in Nat
    BY <1>2, Neighbour
  <2> HIDE DEF need
  <2> QED BY <1>1, <1>2, <2>1, <2>2
<1> HIDE DEF need
<1>4. PICK C : /\ r \in Memory /\ Row(r, C, 0, Size) /\ pos \in C
               /\ \A a \in C : Apart(r, a)
               /\ Used(r, C) = Used(mem, B) \cup {pos} /\ Keeps(mem, Used(mem, B), r)
               /\ r[pos].size = taken
  <2>1. r = Heap!split_and_mark_used(mem, pos, need)
    OBVIOUS
  <2>2. /\ Row(mem, B, 0, Size) /\ pos \in B /\ ~mem[pos].in_use
        /\ need \in Nat /\ need % 8 = 0 /\ 16 <= need /\ need <= mem[pos].size
    BY <1>1, <1>2, <1>3
  <2>3. \A a \in B : Apart(mem, a)
    BY <1>2
  <2> HIDE DEF r, f, l, taken
  <2>4. \E C :
           /\ r \in Memory /\ Row(r, C, 0, Size) /\ pos \in C
           /\ \A a \in C : Apart(r, a)
           /\ Used(r, C) = Used(mem, B) \cup {pos} /\ Keeps(mem, Used(mem, B), r)
           /\ r[pos].size = Takes(mem[pos].size, need)
    BY <2>1, <2>2, <2>3, SplitIs
  <2> QED BY <2>4 DEF taken
<1>5. taken \in Nat /\ request + 16 <= taken
  BY <1>2, <1>3 DEF Takes
<1> HIDE DEF r, taken
<1>6. /\ f \in Memory /\ Row(f, C, 0, Size) /\ \A a \in C : f[a] = r[a]
      /\ \A w \in Heap!Words :
           f[w] = IF pos + 8 <= w /\ w < pos + 8 + request THEN Heap!Data(pos + 8) ELSE r[w]
  BY <1>2, <1>4, <1>5, FilledIs
<1> HIDE DEF f
<1>7. Tiled(f, C)
  <2>1. ASSUME NEW a \in C PROVE Apart(f, a)
    <3>1. Apart(r, a) /\ a + r[a].size \in C \cup {Size}
      BY <1>4, Neighbour
    <3> QED BY <1>6, <3>1 DEF Apart
  <2> QED BY <1>6, <2>1 DEF Tiled
<1>8. Used(f, C) = Used(mem, B) \cup {pos}
  BY <1>4, <1>6 DEF Used
<1>9. pos \notin Used(mem, B)
  BY <1>1 DEF Used
<1>10. ASSUME NEW b \in Used(mem, B)
       PROVE  /\ f[b] = mem[b] /\ b # pos /\ b \in Nat /\ mem[b].size \in Nat
              /\ \A w \in Heap!Words : b <= w /\ w < b + mem[b].size => f[w] = mem[w]
  <2>1. b \in B /\ b \in Heap!Words /\ b \in Nat /\ mem[b].size \in Nat /\ 16 <= mem[b].size
    BY <1>2, Neighbour DEF Used
  <2>2. \A w \in Heap!Words : b <= w /\ w < b + mem[b].size => r[w] = mem[w]
    BY <1>4 DEF Keeps
  <2>3. b \in C /\ r[b] = mem[b]
    BY <1>4, <2>1, <2>2 DEF Used
  <2>4. /\ b < pos => b + mem[b].size <= pos
        /\ pos < b => pos + taken <= b
    BY <1>4, <2>3, Neighbour
  <2>5. ASSUME NEW w \in Heap!Words, b <= w, w < b + mem[b].size PROVE f[w] = mem[w]
    <3>1. w \in Nat
      BY WordsAre
    <3>2. ~(pos + 8 <= w /\ w < pos + 8 + request)
      BY <1>2, <1>3, <1>5, <1>9, <2>1, <2>4, <2>5, <3>1
    <3> QED BY <1>6, <2>2, <2>5, <3>2
  <2> QED BY <1>6, <1>9, <2>1, <2>3, <2>5
<1>11. Clients(f, l, C)
  <2>1. ASSUME NEW b \in Used(f, C) PROVE b + 8 \in DOMAIN l
    BY <1>8, <2>1 DEF Clients
  <2>2. ASSUME NEW p \in DOMAIN l
        PROVE  /\ p \in Nat /\ 8 <= p /\ p - 8 \in Used(f, C)
               /\ l[p] \in Nat /\ l[p] + 16 <= f[p - 8].size
               /\ \A w \in Heap!Words : p <= w /\ w < p + l[p] => f[w] = Heap!Data(p)
    <3>1. CASE p = pos + 8
      <4>1. l[p] = request /\ p - 8 = pos /\ p \in Nat /\ 8 <= p
        BY <1>3, <3>1
      <4>2. f[pos].size = taken
        BY <1>4, <1>6
      <4>3. \A w \in Heap!Words : p <= w /\ w < p + l[p] => f[w] = Heap!Data(p)
        BY <1>6, <3>1, <4>1
      <4> QED BY <1>2, <1>5, <1>8, <4>1, <4>2, <4>3
    <3>2. CASE p # pos + 8
      <4>1. p \in DOMAIN live /\ l[p] = live[p]
        BY <3>2
      <4>2. /\ p \in Nat /\ 8 <= p /\ p - 8 \in Used(mem, B)
            /\ live[p] \in Nat /\ live[p] + 16 <= mem[p - 8].size
            /\ \A w \in Heap!Words : p <= w /\ w < p + live[p] => mem[w] = Heap!Data(p)
        BY <4>1 DEF Clients
      <4>3. f[p - 8] = mem[p - 8] /\ mem[p - 8].size \in Nat
        BY <1>10, <4>2
      <4>4. ASSUME NEW w \in Heap!Words, p <= w, w < p + live[p] PROVE f[w] = Heap!Data(p)
        <5>1. p - 8 <= w /\ w < (p - 8) + mem[p - 8].size
          BY <4>2, <4>3, <4>4, WordsAre
        <5> QED BY <1>10, <4>2, <4>4, <5>1
      <4> QED BY <1>8, <4>1, <4>2, <4>3, <4>4
    <3> QED BY <3>1, <3>2
  <2> HIDE DEF l
  <2> QED BY <2>1, <2>2 DEF Clients
<1>12. HandedOut(f, C) = HandedOut(mem, B) \cup {[start |-> pos, size |-> taken]}
  <2>1. f[pos].size = taken
    BY <1>4, <1>6
  <2>2. \A b \in Used(mem, B) : f[b].size = mem[b].size
    BY <1>10
  <2> QED BY <1>8, <2>1, <2>2 DEF HandedOut
<1> QED BY <1>1, <1>2, <1>6, <1>7, <1>11, <1>12 DEF taken, need

(* free: the blocks handed out are one less. *)
LEMMA FreeIs ==
  ASSUME mem \in Memory, NEW B, Tiled(mem, B), Clients(mem, live, B),
         NEW p \in DOMAIN live, Heap!Free(p)
  PROVE  /\ mem' \in Memory /\ pos' = NULL
         /\ p - 8 \in Used(mem, B)
         /\ \E C : /\ Tiled(mem', C) /\ Clients(mem', live', C)
                   /\ HandedOut(mem', C) =
                        HandedOut(mem, B) \ {[start |-> p - 8, size |-> mem[p - 8].size]}
<1> DEFINE b == p - 8
           r == Heap!Freed(b)
           l == [q \in DOMAIN live \ {p} |-> live[q]]
<1>1. mem' = r /\ live' = l /\ pos' = NULL
  BY DEF Heap!Free, Heap!HEADER_SIZE
<1>2. p \in Nat /\ 8 <= p /\ b \in Used(mem, B)
  BY DEF Clients
<1>3. b \in B /\ mem[b].in_use /\ Row(mem, B, 0, Size) /\ \A a \in B : Apart(mem, a)
  BY <1>2 DEF Used, Tiled
<1> HIDE DEF b
<1>4. PICK C \in SUBSET B :
        /\ r \in Memory /\ Row(r, C, 0, Size) /\ \A a \in C : Apart(r, a)
        /\ Used(r, C) = Used(mem, B) \ {b} /\ Keeps(mem, Used(mem, B) \ {b}, r)
  BY <1>3, FreedIs
<1> HIDE DEF r
<1>5. ASSUME NEW a \in Used(mem, B) \ {b}
      PROVE  /\ r[a] = mem[a] /\ a \in Nat /\ mem[a].size \in Nat
             /\ \A w \in Heap!Words : a <= w /\ w < a + mem[a].size => r[w] = mem[w]
  <2>1. a \in Heap!Words /\ a \in Nat /\ mem[a].size \in Nat /\ 16 <= mem[a].size
    BY <1>3, Neighbour DEF Used
  <2> QED BY <1>4, <2>1 DEF Keeps
<1>6. Clients(r, l, C)
  <2>1. ASSUME NEW a \in Used(r, C) PROVE a + 8 \in DOMAIN l
    <3>1. a \in Used(mem, B) /\ a # b /\ a \in Nat
      BY <1>4, <1>5
    <3> QED BY <1>2, <3>1 DEF Clients, b
  <2>2. ASSUME NEW q \in DOMAIN l
        PROVE  /\ q \in Nat /\ 8 <= q /\ q - 8 \in Used(r, C)
               /\ l[q] \in Nat /\ l[q] + 16 <= r[q - 8].size
               /\ \A w \in Heap!Words : q <= w /\ w < q + l[q] => r[w] = Heap!Data(q)
    <3>1. q \in DOMAIN live /\ l[q] = live[q] /\ q # p
      OBVIOUS
    <3>2. /\ q \in Nat /\ 8 <= q /\ q - 8 \in Used(mem, B)
          /\ live[q] \in Nat /\ live[q] + 16 <= mem[q - 8].size
          /\ \A w \in Heap!Words : q <= w /\ w < q + live[q] => mem[w] = Heap!Data(q)
      BY <3>1 DEF Clients
    <3>3. q - 8 # b
      BY <1>2, <3>1, <3>2 DEF b
    <3>4. r[q - 8] = mem[q - 8] /\ mem[q - 8].size \in Nat
      BY <1>5, <3>2, <3>3
    <3>5. ASSUME NEW w \in Heap!Words, q <= w, w < q + live[q] PROVE r[w] = Heap!Data(q)
      <4>1. q - 8 <= w /\ w < (q - 8) + mem[q - 8].size
        BY <3>2, <3>4, <3>5, WordsAre
      <4> QED BY <1>5, <3>2, <3>3, <3>5, <4>1
    <3> QED BY <1>4, <3>1, <3>2, <3>3, <3>4, <3>5
  <2> HIDE DEF l
  <2> QED BY <2>1, <2>2 DEF Clients
<1>7. HandedOut(r, C) = HandedOut(mem, B) \ {[start |-> b, size |-> mem[b].size]}
  <2>1. \A a \in Used(mem, B) \ {b} : r[a].size = mem[a].size
    BY <1>5
  <2> QED BY <1>4, <2>1 DEF HandedOut
<1> QED BY <1>1, <1>2, <1>4, <1>6, <1>7 DEF Tiled, b

-----------------------------------------------------------------------------
(* What the heap's properties call its blocks are B ... *)
LEMMA InUseIs ==
  ASSUME NEW B, Tiled(mem, B)
  PROVE  /\ Heap!Blocks = B /\ Heap!InUse = Used(mem, B)
         /\ {[start |-> b, size |-> mem[b].size] : b \in Heap!InUse} = HandedOut(mem, B)
<1>1. Heap!Blocks = B
  BY WalkRow DEF Tiled, Heap!Blocks
<1>2. Heap!InUse = Used(mem, B)
  BY <1>1 DEF Heap!InUse, Used
<1> QED BY <1>1, <1>2 DEF HandedOut

(* ... and so after a step. *)
LEMMA InUseAfter ==
  ASSUME NEW B, Tiled(mem', B)
  PROVE  {[start |-> b, size |-> mem[b].size] : b \in Heap!InUse}' = HandedOut(mem', B)
<1>1. Heap!Blocks' = B
  BY WalkRow DEF Tiled, Heap!Blocks
<1>2. Heap!InUse' = Used(mem', B)
  BY <1>1 DEF Heap!InUse, Used
<1> QED BY <1>2 DEF HandedOut

(* The holes of FirstFit are the free blocks: nothing is left to join. *)
LEMMA HolesAre ==
  ASSUME NEW m, NEW B, Tiled(m, B)
  PROVE  Heap!Holes!Holes(HandedOut(m, B)) =
           {[start |-> b, size |-> m[b].size] : b \in B \ Used(m, B)}
<1> DEFINE blocks == HandedOut(m, B)
           starts == {0} \cup {b.start + b.size : b \in blocks}
           ends == {Size} \cup {b.start : b \in blocks}
           Hole(x, y) == /\ x \in starts /\ y \in ends /\ x < y
                         /\ \A b \in blocks : b.start + b.size <= x \/ y <= b.start
<1>1. Row(m, B, 0, Size) /\ \A b \in B : Apart(m, b)
  BY DEF Tiled
<1>2. /\ 0 \in B /\ Size \in Nat /\ Size \notin B
      /\ \A b \in B : /\ b \in Nat /\ m[b].size \in Nat /\ 16 <= m[b].size
                      /\ b + m[b].size \in B \cup {Size} /\ b + m[b].size <= Size
      /\ \A a, b \in B : a < b => a + m[a].size <= b
      /\ \A b \in B : b # 0 => \E a \in B : a + m[a].size = b
  BY <1>1, Neighbour DEF Row
<1>3. /\ \A b \in Used(m, B) : b \in B /\ m[b].in_use
      /\ \A b \in B : b \notin Used(m, B) => ~m[b].in_use
  BY DEF Used
<1>4. /\ \A b \in Used(m, B) : \E d \in blocks : d.start = b /\ d.size = m[b].size
      /\ \A d \in blocks : d.start \in Used(m, B) /\ d.size = m[d.start].size
  <2>1. ASSUME NEW b \in Used(m, B) PROVE \E d \in blocks : d.start = b /\ d.size = m[b].size
    <3>1. [start |-> b, size |-> m[b].size] \in blocks
      BY DEF HandedOut
    <3> QED BY <3>1
  <2>2. ASSUME NEW d \in blocks PROVE d.start \in Used(m, B) /\ d.size = m[d.start].size
    <3>1. PICK b \in Used(m, B) : d = [start |-> b, size |-> m[b].size]
      BY DEF HandedOut
    <3> QED BY <3>1
  <2> QED BY <2>1, <2>2
<1> HIDE DEF blocks
<1>5. /\ \A x : x \in starts <=> x = 0 \/ \E b \in Used(m, B) : x = b + m[b].size
      /\ \A y : y \in ends <=> y = Size \/ y \in Used(m, B)
  BY <1>4
<1>6. \A x, y : (\A b \in blocks : b.start + b.size <= x \/ y <= b.start)
                <=> (\A b \in Used(m, B) : b + m[b].size <= x \/ y <= b)
  BY <1>4
<1> HIDE DEF starts, ends
<1>7. ASSUME NEW b \in B \ Used(m, B) PROVE Hole(b, b + m[b].size)
  <2>1. b \in starts
    <3>1. CASE b = 0
      BY <1>5, <3>1
    <3>2. CASE b # 0
      <4>1. PICK a \in B : a + m[a].size = b
        BY <1>2, <3>2
      <4>2. m[a].in_use
        BY <1>1, <1>2, <1>3, <4>1 DEF Apart
      <4> QED BY <1>3, <1>5, <4>1, <4>2
    <3> QED BY <3>1, <3>2
  <2>2. b + m[b].size \in ends
    BY <1>1, <1>2, <1>3, <1>5 DEF Apart
  <2>3. ASSUME NEW a \in Used(m, B) PROVE a + m[a].size <= b \/ b + m[b].size <= a
    <3>1. a \in B /\ b \in B /\ a # b
      BY <1>3
    <3> QED BY <1>2, <3>1
  <2>4. b < b + m[b].size
    BY <1>2
  <2> QED BY <1>6, <2>1, <2>2, <2>3, <2>4
<1>8. ASSUME NEW x, NEW y, Hole(x, y)
      PROVE  x \in B \ Used(m, B) /\ y = x + m[x].size
  <2>1. x \in B \cup {Size} /\ y \in B \cup {Size} /\ x < y
    BY <1>2, <1>3, <1>5, <1>8
  <2>2. \A b \in Used(m, B) : b + m[b].size <= x \/ y <= b
    BY <1>6, <1>8
  <2>3. x \in B /\ x \in Nat /\ y \in Nat /\ m[x].size \in Nat /\ 16 <= m[x].size
        /\ x + m[x].size \in B \cup {Size}
    BY <1>2, <2>1
  <2>4. x \notin Used(m, B)
    BY <2>1, <2>2, <2>3
  <2>5. x + m[x].size <= y
    BY <1>2, <2>1, <2>3
  <2>6. ASSUME x + m[x].size # y PROVE FALSE
    <3>1. x + m[x].size \in B /\ m[x + m[x].size].in_use
      BY <1>1, <1>2, <1>3, <2>1, <2>3, <2>4, <2>5, <2>6 DEF Apart
    <3>2. x + m[x].size \in Used(m, B)
      BY <3>1 DEF Used
    <3> DEFINE z == x + m[x].size
    <3>3. z + m[z].size <= x \/ y <= z
      BY <2>2, <3>2
    <3>4. z \in Nat /\ m[z].size \in Nat /\ x < z /\ z < y
      <4>1. z \in Nat /\ x < z /\ z < y
        BY <2>3, <2>5, <2>6
      <4> QED BY <1>2, <3>1, <4>1
    <3> HIDE DEF z
    <3> QED BY <2>3, <3>3, <3>4
  <2> QED BY <2>3, <2>4, <2>6
<1>9. Heap!Holes!Holes(blocks) =
        {[start |-> x[1], size |-> x[2] - x[1]] : x \in {x \in starts \X ends :
           /\ x[1] < x[2]
           /\ \A b \in blocks : b.start + b.size <= x[1] \/ x[2] <= b.start}}
  BY DEF Heap!Holes!Holes, starts, ends
<1> DEFINE Free == {[start |-> b, size |-> m[b].size] : b \in B \ Used(m, B)}
<1>10. ASSUME NEW h \in Heap!Holes!Holes(blocks) PROVE h \in Free
  <2>1. PICK x \in starts \X ends :
          /\ x[1] < x[2]
          /\ \A b \in blocks : b.start + b.size <= x[1] \/ x[2] <= b.start
          /\ h = [start |-> x[1], size |-> x[2] - x[1]]
    BY <1>9
  <2>2. Hole(x[1], x[2])
    BY <2>1
  <2>3. x[1] \in B \ Used(m, B) /\ x[2] = x[1] + m[x[1]].size
    BY <1>8, <2>2
  <2>4. x[2] - x[1] = m[x[1]].size
    BY <1>2, <2>3
  <2> QED BY <2>1, <2>3, <2>4
<1>11. ASSUME NEW b \in B \ Used(m, B)
       PROVE  [start |-> b, size |-> m[b].size] \in Heap!Holes!Holes(blocks)
  <2> DEFINE x == <<b, b + m[b].size>>
  <2>1. Hole(b, b + m[b].size)
    BY <1>7
  <2>2. x \in starts \X ends /\ x[1] = b /\ x[2] = b + m[b].size
    BY <2>1
  <2>3. x[2] - x[1] = m[b].size
    BY <1>2, <2>2
  <2> HIDE DEF x
  <2>4. x \in {z \in starts \X ends :
           /\ z[1] < z[2]
           /\ \A d \in blocks : d.start + d.size <= z[1] \/ z[2] <= d.start}
    BY <2>1, <2>2
  <2>5. [start |-> x[1], size |-> x[2] - x[1]] \in Heap!Holes!Holes(blocks)
    BY <1>9, <2>4
  <2> QED BY <2>2, <2>3, <2>5
<1>12. Heap!Holes!Holes(blocks) = Free
  BY <1>10, <1>11
<1> QED BY <1>12 DEF blocks

-----------------------------------------------------------------------------
(* What the allocator does for its callers. *)
HeapCalls == \/ \E k \in Nat : Heap!Malloc(k)
             \/ Heap!TryNext \/ Heap!MallocReturns \/ Heap!MallocFails
             \/ \E p \in DOMAIN live : Heap!Free(p)

(* The pointers of the test program. *)
Pointers == Tests!Pointers

(* The steps of the test scripts. *)
TestSteps ==
  [op : {"malloc"}, at : SUBSET Pointers, size : Nat, others : SUBSET Pointers,
   reused : SUBSET Pointers]
  \cup [op : {"free", "release"}, at : SUBSET Pointers]
  \cup [op : {"toggle"}, at : SUBSET Pointers, others : SUBSET Pointers, reused : SUBSET Pointers]

(* Each constructor makes a step of a script. *)
LEMMA StepsAre ==
  /\ \A B \in SUBSET Pointers : Tests!Drop(B) \in TestSteps /\ Tests!Toggle(B) \in TestSteps
  /\ \A b \in Pointers : Tests!Release(b) \in TestSteps
  /\ \A b \in Pointers : \A k \in Nat : \A A, B \in SUBSET Pointers :
       Tests!Take(b, k, A, B) \in TestSteps
<1>1. ASSUME NEW B \in SUBSET Pointers PROVE Tests!Drop(B) \in TestSteps
  BY DEF Tests!Drop, TestSteps
<1>2. ASSUME NEW B \in SUBSET Pointers PROVE Tests!Toggle(B) \in TestSteps
  <2>1. 1..Buckets \subseteq Pointers
    BY TestsAssumption DEF Tests!TestsAssumption, Pointers, Tests!Pointers
  <2> QED BY <2>1 DEF Tests!Toggle, TestSteps
<1>3. ASSUME NEW b \in Pointers PROVE Tests!Release(b) \in TestSteps
  BY DEF Tests!Release, TestSteps
<1>4. ASSUME NEW b \in Pointers, NEW k \in Nat, NEW A \in SUBSET Pointers, NEW B \in SUBSET Pointers
      PROVE  Tests!Take(b, k, A, B) \in TestSteps
  BY DEF Tests!Take, TestSteps
<1> QED BY <1>1, <1>2, <1>3, <1>4

(* Each test is a script of such steps. *)
LEMMA ScriptsAre ==
  ASSUME NEW name \in DOMAIN Tests!testfuncs PROVE Tests!testfuncs[name] \in Seq(TestSteps)
<1> DEFINE all == 1..Buckets
<1>1. /\ Buckets \in Nat /\ Buckets >= 3 /\ Iters \in Nat
      /\ all \subseteq Pointers /\ 1..(Buckets - 1) \subseteq Pointers
      /\ 1 \in Pointers /\ 2 \in Pointers /\ 3 \in Pointers /\ 4 \in Pointers
      /\ Buckets + 1 \in Pointers /\ Buckets + 2 \in Pointers
  BY TestsAssumption DEF Tests!TestsAssumption, Pointers, Tests!Pointers
<1>2. Tests!Chunk = 8
  BY DEF Tests!Chunk, Tests!HEADER_SIZE
<1> HIDE DEF Pointers, TestSteps
<1>3. Tests!test_sanity \in Seq(TestSteps)
  <2>1. Tests!Take(1, 16, {}, {}) \in TestSteps /\ Tests!Release(1) \in TestSteps
    BY <1>1, StepsAre
  <2> QED BY <2>1 DEF Tests!test_sanity
<1>4. Tests!test_freelist1 \in Seq(TestSteps)
  <2>1. /\ Tests!Take(1, 16, {}, {}) \in TestSteps /\ Tests!Release(1) \in TestSteps
        /\ Tests!Take(2, 16, {}, {1}) \in TestSteps
    BY <1>1, StepsAre
  <2> QED BY <2>1 DEF Tests!test_freelist1
<1>5. Tests!test_freelist2 \in Seq(TestSteps)
  <2>1. /\ Tests!Take(1, 16, {1, 2}, {}) \in TestSteps /\ Tests!Take(2, 16, {1, 2}, {}) \in TestSteps
        /\ Tests!Take(3, 16, {3, 4}, {1, 2}) \in TestSteps
        /\ Tests!Take(4, 16, {3, 4}, {1, 2}) \in TestSteps
    BY <1>1, StepsAre
  <2>2. /\ Tests!Release(1) \in TestSteps /\ Tests!Release(2) \in TestSteps
        /\ Tests!Release(3) \in TestSteps /\ Tests!Release(4) \in TestSteps
    BY <1>1, StepsAre
  <2> QED BY <2>1, <2>2 DEF Tests!test_freelist2
<1>6. Tests!test_simple \in Seq(TestSteps) /\ Tests!test_fixedsize \in Seq(TestSteps)
  <2> SUFFICES ASSUME NEW k \in 1..Iters
               PROVE  Tests!Toggle({((k - 1) % Buckets) + 1}) \in TestSteps
    BY <1>1 DEF Tests!test_simple, Tests!test_fixedsize
  <2>1. ((k - 1) % Buckets) + 1 \in all
    BY <1>1
  <2> QED BY <1>1, <2>1, StepsAre
<1>7. Tests!test_random \in Seq(TestSteps)
  <2>1. Tests!Toggle(1..(Buckets - 1)) \in TestSteps
    BY <1>1, StepsAre
  <2> QED BY <1>1, <2>1 DEF Tests!test_random
<1> DEFINE takes == [k \in all |-> Tests!Take(k, Tests!Chunk, all, {})]
<1>8. takes \in Seq(TestSteps)
  <2>1. \A k \in all : Tests!Take(k, Tests!Chunk, all, {}) \in TestSteps
    BY <1>1, <1>2, StepsAre
  <2> QED BY <1>1, <2>1
<1>9. Tests!test_coalesce1 \in Seq(TestSteps)
  <2> DEFINE rest == <<Tests!Drop({2}), Tests!Drop({3}),
                       Tests!Take(Buckets + 1, 2 * Tests!Chunk, all, {}),
                       Tests!Drop({Buckets + 1}), Tests!Drop({1}),
                       Tests!Take(Buckets + 2, 3 * Tests!Chunk, all, {}), Tests!Drop({Buckets + 2})>>
  <2>1. /\ Tests!Drop({2}) \in TestSteps /\ Tests!Drop({3}) \in TestSteps
        /\ Tests!Drop({Buckets + 1}) \in TestSteps /\ Tests!Drop({1}) \in TestSteps
        /\ Tests!Drop({Buckets + 2}) \in TestSteps
    BY <1>1, StepsAre
  <2>2. /\ Tests!Take(Buckets + 1, 2 * Tests!Chunk, all, {}) \in TestSteps
        /\ Tests!Take(Buckets + 2, 3 * Tests!Chunk, all, {}) \in TestSteps
    BY <1>1, <1>2, StepsAre
  <2>3. rest \in Seq(TestSteps)
    BY <2>1, <2>2
  <2>4. Tests!test_coalesce1 = takes \o rest
    BY DEF Tests!test_coalesce1
  <2> HIDE DEF takes, rest
  <2> QED BY <1>8, <2>3, <2>4
<1>10. Tests!test_coalesce2 \in Seq(TestSteps)
  <2> DEFINE drops == [k \in all |-> Tests!Drop(all)]
             last == <<Tests!Take(Buckets + 1, Buckets * Tests!Chunk, {}, {})>>
  <2>1. drops \in Seq(TestSteps)
    <3>1. Tests!Drop(all) \in TestSteps
      BY <1>1, StepsAre
    <3> QED BY <1>1, <3>1
  <2>2. last \in Seq(TestSteps)
    <3>1. Buckets * Tests!Chunk \in Nat
      BY <1>1, <1>2
    <3>2. Tests!Take(Buckets + 1, Buckets * Tests!Chunk, {}, {}) \in TestSteps
      BY <1>1, <3>1, StepsAre
    <3> QED BY <3>2
  <2>3. Tests!test_coalesce2 = takes \o drops \o last
    BY DEF Tests!test_coalesce2
  <2> HIDE DEF takes, drops, last
  <2> QED BY <1>8, <2>1, <2>2, <2>3
<1> HIDE DEF all, takes
<1> QED BY <1>3, <1>4, <1>5, <1>6, <1>7, <1>9, <1>10 DEF Tests!testfuncs

(* The types of the test program. *)
TestsTyped ==
  /\ test # NULL => test \in DOMAIN Tests!testfuncs
  /\ step \in Nat \ {0}
  /\ sizes \in [Pointers -> Nat]

(* They hold at first. *)
LEMMA InitTestsTyped == Tests!TestsInit => TestsTyped
BY DEF Tests!TestsInit, TestsTyped, Tests!Chunk, Tests!HEADER_SIZE, Pointers

(* The test program calls the allocator and does nothing else to the heap. *)
LEMMA TestsCalls ==
  ASSUME TestsTyped, Tests!TestsNext
  PROVE  (HeapCalls \/ UNCHANGED heapVars) /\ TestsTyped'
<1>1. CASE Tests!main
  <2>1. test' \in DOMAIN Tests!testfuncs /\ sizes' \in Tests!SizesOf(test') /\ step' = step
        /\ UNCHANGED heapVars
    BY <1>1 DEF Tests!main, Tests!vars, heapVars
  <2>2. sizes' \in [Pointers -> Nat]
    <3>1. Buckets \in Nat
      BY TestsAssumption DEF Tests!TestsAssumption
    <3>2. CASE sizes' \in {[b \in Tests!Pointers |-> (b - 1) * 8]}
      BY <3>1, <3>2 DEF Pointers, Tests!Pointers
    <3>3. CASE sizes' \in {[b \in Tests!Pointers |-> IF b < Buckets THEN s[b] ELSE 0] :
                              s \in [1..(Buckets - 1) -> {0, 4, 16}]}
      <4>1. PICK s \in [1..(Buckets - 1) -> {0, 4, 16}] :
              sizes' = [b \in Tests!Pointers |-> IF b < Buckets THEN s[b] ELSE 0]
        BY <3>3
      <4> QED BY <3>1, <4>1 DEF Pointers, Tests!Pointers
    <3>4. CASE sizes' \in {[b \in Tests!Pointers |-> Tests!Chunk]}
      BY <3>4 DEF Pointers, Tests!Chunk, Tests!HEADER_SIZE
    <3> QED BY <2>1, <3>2, <3>3, <3>4 DEF Tests!SizesOf
  <2> QED BY <2>1, <2>2 DEF TestsTyped
<1>2. CASE Tests!Steps
  <2>1. test \in DOMAIN Tests!testfuncs /\ step \in 1..Len(Tests!Script)
    <3>1. test # NULL /\ step <= Len(Tests!Script)
      BY <1>2 DEF Tests!Steps
    <3>2. test \in DOMAIN Tests!testfuncs
      BY <3>1 DEF TestsTyped
    <3>3. Len(Tests!Script) \in Nat
      BY <3>2, ScriptsAre DEF Tests!Script
    <3> QED BY <3>1, <3>2, <3>3 DEF TestsTyped
  <2>2. Tests!Doing \in TestSteps
    BY <2>1, ScriptsAre DEF Tests!Doing, Tests!Script
  <2>3. PICK b \in Tests!Doing.at :
          \/ Tests!Doing.op = "malloc" /\ Tests!Allocates(b, Tests!Doing.size)
          \/ Tests!Doing.op = "toggle" /\ ptrs[b] = NULL /\ Tests!Allocates(b, sizes[b])
          \/ Tests!Frees(b, NULL) \/ Tests!Frees(b, ptrs[b])
    BY <1>2 DEF Tests!Steps
  <2>4. ASSUME NEW k \in Nat, Tests!Allocates(b, k) PROVE HeapCalls /\ TestsTyped'
    <3>1. Heap!Malloc(k)
      BY <2>4 DEF Tests!Allocates, Tests!Malloc, Heap!Malloc
    <3>2. TestsTyped'
      BY <2>4 DEF Tests!Allocates, TestsTyped
    <3> QED BY <3>1, <3>2 DEF HeapCalls
  <2>5. ASSUME NEW x, Tests!Frees(b, x) PROVE HeapCalls /\ TestsTyped'
    <3>1. Tests!Free(ptrs[b])
      BY <2>5 DEF Tests!Frees
    <3>2. Heap!Free(ptrs[b]) /\ ptrs[b] \in DOMAIN live
      BY <3>1, ZenonT(60)
         DEF Tests!Free, Tests!Freed, Tests!coalesce, Tests!set_block_header, Tests!Header,
             Tests!get_next_block, Tests!get_previous_block, Tests!HEADER_SIZE,
             Heap!Free, Heap!Freed, Heap!coalesce, Heap!set_block_header, Heap!Header,
             Heap!get_next_block, Heap!get_previous_block, Heap!HEADER_SIZE
    <3>3. TestsTyped'
      BY <2>5 DEF Tests!Frees, TestsTyped
    <3> QED BY <3>2, <3>3 DEF HeapCalls
  <2>6. Tests!Doing.op = "malloc" => Tests!Doing.size \in Nat
    BY <2>2 DEF TestSteps
  <2>7. Tests!Doing.op = "toggle" => b \in Pointers
    BY <2>2 DEF TestSteps
  <2>8. Tests!Doing.op = "toggle" => sizes[b] \in Nat
    BY <2>7 DEF TestsTyped
  <2> QED BY <2>3, <2>4, <2>5, <2>6, <2>8
<1>3. CASE Tests!Gets
  <2>1. Heap!TryNext
    BY <1>3, Zenon
       DEF Tests!Gets, Tests!TryNext, Tests!Searching, Tests!Fits, Tests!get_next_block,
           Tests!get_size_to_allocate, Tests!HEADER_SIZE,
           Heap!TryNext, Heap!Searching, Heap!Fits, Heap!get_next_block,
           Heap!get_size_to_allocate, Heap!HEADER_SIZE
  <2> QED BY <1>3, <2>1 DEF Tests!Gets, Tests!testVars, HeapCalls, TestsTyped
<1>4. CASE Tests!Checks
  <2>1. ASSUME Tests!MallocReturns PROVE Heap!MallocReturns
    BY <2>1, Zenon
       DEF Tests!MallocReturns, Tests!Searching, Tests!Fits, Tests!get_size_to_allocate,
           Tests!HEADER_SIZE, Tests!Filled, Tests!Words, Tests!Data, Tests!split_and_mark_used,
           Tests!set_block_header, Tests!Header,
           Heap!MallocReturns, Heap!Searching, Heap!Fits, Heap!get_size_to_allocate,
           Heap!HEADER_SIZE, Heap!Filled, Heap!Words, Heap!Data, Heap!split_and_mark_used,
           Heap!set_block_header, Heap!Header
  <2>2. ASSUME Tests!MallocFails PROVE Heap!MallocFails
    BY <2>2 DEF Tests!MallocFails, Heap!MallocFails
  <2>3. HeapCalls
    BY <1>4, <2>1, <2>2 DEF Tests!Checks, HeapCalls
  <2>4. test # NULL /\ UNCHANGED <<test, sizes>>
        /\ (step' = step + 1 \/ step' = Len(Tests!Script) + 1)
    BY <1>4 DEF Tests!Checks
  <2>5. Len(Tests!Script) \in Nat
    BY <2>4, ScriptsAre DEF TestsTyped, Tests!Script
  <2> QED BY <2>3, <2>4, <2>5 DEF TestsTyped
<1>5. CASE Tests!Exits
  BY <1>5 DEF Tests!Exits, Tests!vars, Tests!testVars, heapVars, TestsTyped
<1> QED BY <1>1, <1>2, <1>3, <1>4, <1>5 DEF Tests!TestsNext

-----------------------------------------------------------------------------
(* The variables of Structures. *)
allVars == <<structure, queueVars, heapVars, testVars, countVars, listVars, programVars>>

(* The invariants hold at first. *)
LEMMA InitInv == Init => HeapInv /\ TestsTyped
<1>1. Init => Heap!Init /\ Tests!TestsInit
  BY Zenon DEF Init
<1> QED BY <1>1, InitHeapInv, InitTestsTyped

(* A step of Structures calls the allocator or leaves the heap alone. *)
LEMMA NextCalls ==
  ASSUME TestsTyped, [Next]_allVars
  PROVE  (HeapCalls \/ UNCHANGED heapVars) /\ TestsTyped'
<1>1. CASE structure = "heap" /\ Heap!Next /\ UNCHANGED testVars
  <2>1. HeapCalls
    BY <1>1, SizesAssumption DEF Heap!SizesAssumption, Heap!Next, Heap!Searches, HeapCalls
  <2> QED BY <1>1, <2>1 DEF testVars, TestsTyped
<1>2. CASE structure = "tests" /\ Tests!TestsNext
  BY <1>2, TestsCalls
<1>3. CASE UNCHANGED <<heapVars, testVars>>
  BY <1>3 DEF testVars, TestsTyped
<1>4. \/ structure = "heap" /\ Heap!Next /\ UNCHANGED testVars
      \/ structure = "tests" /\ Tests!TestsNext
      \/ UNCHANGED <<heapVars, testVars>>
  BY Zenon DEF Next, allVars
<1> QED BY <1>1, <1>2, <1>3, <1>4

(* A call of the allocator keeps the invariant. *)
LEMMA CallKeeps ==
  ASSUME HeapInv, HeapCalls \/ UNCHANGED heapVars
  PROVE  HeapInv'
<1>1. CASE \E k \in Nat : Heap!Malloc(k)
  BY <1>1, MallocKeeps
<1>2. CASE Heap!TryNext
  BY <1>2, TryNextKeeps
<1>3. CASE Heap!MallocReturns
  <2>1. PICK B : Tiled(mem, B) /\ Clients(mem, live, B) /\ Search(mem, pos, request, B)
    BY DEF HeapInv
  <2>2. /\ mem' \in Memory /\ pos' = NULL
        /\ \E C : Tiled(mem', C) /\ Clients(mem', live', C)
    BY <1>3, <2>1, MallocReturnsIs DEF HeapInv
  <2> QED BY <2>2 DEF HeapInv, Search
<1>4. CASE Heap!MallocFails
  BY <1>4, MallocFailsKeeps
<1>5. CASE \E p \in DOMAIN live : Heap!Free(p)
  <2>1. PICK B : Tiled(mem, B) /\ Clients(mem, live, B)
    BY DEF HeapInv
  <2>2. /\ mem' \in Memory /\ pos' = NULL
        /\ \E C : Tiled(mem', C) /\ Clients(mem', live', C)
    BY <1>5, <2>1, FreeIs DEF HeapInv
  <2> QED BY <2>2 DEF HeapInv, Search
<1>6. CASE UNCHANGED heapVars
  BY <1>6 DEF heapVars, HeapInv
<1> QED BY <1>1, <1>2, <1>3, <1>4, <1>5, <1>6 DEF HeapCalls

(* The invariants are kept. *)
LEMMA NextHeapInv == HeapInv /\ TestsTyped /\ [Next]_allVars => HeapInv' /\ TestsTyped'
BY NextCalls, CallKeeps

(* The invariant implies both properties. *)
LEMMA HeapInvTiles == HeapInv => BlocksTile /\ DataKept
<1> SUFFICES ASSUME HeapInv PROVE Heap!BlocksTile /\ Heap!DataKept
  BY DEF BlocksTile, DataKept
<1>1. PICK B : Tiled(mem, B) /\ Clients(mem, live, B)
  BY DEF HeapInv
<1>2. Heap!Blocks = B /\ Heap!InUse = Used(mem, B)
  BY <1>1, InUseIs
<1>3. /\ 0 \in B /\ Row(mem, B, 0, Size)
      /\ \A b \in B : Apart(mem, b)
  BY <1>1 DEF Tiled, Row
<1>4. ASSUME NEW b \in B
      PROVE  /\ mem[b].size >= 2 * 8
             /\ b + mem[b].size \in B \cup {Size}
             /\ mem[b + mem[b].size - 8] = mem[b]
             /\ \A c \in B : c <= b \/ b + mem[b].size <= c
             /\ mem[b].in_use \/ b + mem[b].size = Size \/ mem[b + mem[b].size].in_use
  <2>1. /\ b \in Nat /\ mem[b].size \in Nat /\ 16 <= mem[b].size
        /\ b + mem[b].size \in B \cup {Size} /\ mem[b + mem[b].size - 8] = mem[b]
        /\ \A c \in B : c \in Nat /\ (b < c => b + mem[b].size <= c)
    BY <1>3, Neighbour
  <2>2. \A c \in B : c <= b \/ b + mem[b].size <= c
    BY <2>1
  <2>3. mem[b].in_use \/ b + mem[b].size = Size \/ mem[b + mem[b].size].in_use
    BY <1>3 DEF Apart
  <2>4. mem[b].size >= 2 * 8
    BY <2>1
  <2> QED BY <2>1, <2>2, <2>3, <2>4
<1>5. Heap!Tiles(B)
  BY <1>3, <1>4 DEF Heap!Tiles, Heap!HEADER_SIZE
<1>6. Used(mem, B) = {p - 8 : p \in DOMAIN live}
  <2>1. ASSUME NEW b \in Used(mem, B) PROVE b \in {p - 8 : p \in DOMAIN live}
    <3>1. b + 8 \in DOMAIN live /\ b \in Nat
      BY <1>1, <1>3, Neighbour DEF Clients, Used
    <3>2. (b + 8) - 8 = b
      BY <3>1
    <3> QED BY <3>1, <3>2
  <2> QED BY <1>1, <2>1 DEF Clients
<1>7. \A p \in DOMAIN live : live[p] + 2 * 8 <= mem[p - 8].size
  BY <1>1 DEF Clients
<1>8. Heap!BlocksTile
  BY <1>2, <1>5, <1>6, <1>7 DEF Heap!BlocksTile, Heap!HEADER_SIZE
<1>9. Heap!DataKept
  BY <1>1 DEF Clients, Heap!DataKept
<1> QED BY <1>8, <1>9

(* myheap.c:58-187: whatever is allocated and freed in whatever order, for a heap of any size,
   the blocks tile it, first and last words agree, no free neighbours are left apart, and in
   use is exactly what the client has, with room for what it asked for. *)
THEOREM BlocksTileCorrect == Spec => []BlocksTile
<1>1. Init => HeapInv /\ TestsTyped
  BY InitInv
<1>2. HeapInv /\ TestsTyped /\ [Next]_allVars => HeapInv' /\ TestsTyped'
  BY NextHeapInv
<1>3. HeapInv => BlocksTile
  BY HeapInvTiles
<1> QED BY <1>1, <1>2, <1>3, PTL DEF Spec, allVars

(* myheap.c, as check_alloc of main.c:44-58 tests it: neither a header nor another client's
   data is ever written over what a client put into its own. *)
THEOREM DataKeptCorrect == Spec => []DataKept
<1>1. HeapInv => DataKept
  BY HeapInvTiles
<1> QED BY <1>1, InitInv, NextHeapInv, PTL DEF Spec, allVars


-----------------------------------------------------------------------------
(* For each request there is one of whole words that FirstFit rounds to the same block; or to
   one that is larger than the heap too. *)
LEMMA NeedOf ==
  ASSUME NEW k \in Nat
  PROVE  \E w \in Heap!Words :
           /\ Heap!Holes!BlockSize(w) \in Nat
           /\ Heap!get_size_to_allocate(k) <= Size => Heap!Holes!BlockSize(w) = Heap!get_size_to_allocate(k)
           /\ Heap!get_size_to_allocate(k) > Size => Heap!Holes!BlockSize(w) > Size
<1> DEFINE need == Heap!get_size_to_allocate(k)
<1>1. need \in Nat /\ 16 <= need /\ need % 8 = 0
  BY NeedIs
<1>2. Size \in Nat /\ Size % 8 = 0 /\ Size >= 16
  BY SizesAssumption DEF Heap!SizesAssumption, Heap!HEADER_SIZE
<1> HIDE DEF need
<1>3. CASE need <= Size
  <2>1. need - 16 \in Heap!Words
    BY <1>1, <1>2, <1>3 DEF Heap!Words, Heap!HEADER_SIZE
  <2>2. Heap!Holes!BlockSize(need - 16) = need
    BY <1>1 DEF Heap!Holes!BlockSize
  <2>3. ~(need > Size)
    BY <1>1, <1>2, <1>3
  <2> QED BY <1>1, <1>3, <2>1, <2>2, <2>3 DEF need
<1>4. CASE ~(need <= Size)
  <2>1. Size - 8 \in Heap!Words
    BY WordsAre
  <2>2. Heap!Holes!BlockSize(Size - 8) = Size + 8
    BY <1>2 DEF Heap!Holes!BlockSize
  <2> QED BY <1>2, <1>4, <2>1, <2>2 DEF need
<1> QED BY <1>3, <1>4

-----------------------------------------------------------------------------
(* The used blocks of FirstFit. *)
handedOut == {[start |-> b, size |-> mem[b].size] : b \in Heap!InUse}

(* A stutter of FirstFit. *)
LEMMA SameHanded ==
  ASSUME HeapInv, UNCHANGED <<mem, result>> PROVE UNCHANGED Heap!Holes!vars
<1>1. PICK B : Tiled(mem, B)
  BY DEF HeapInv
<1>2. Tiled(mem', B)
  BY <1>1
<1>3. handedOut = HandedOut(mem, B) /\ handedOut' = HandedOut(mem', B)
  BY <1>1, <1>2, InUseIs, InUseAfter DEF handedOut
<1>4. handedOut' = handedOut
  BY <1>3
<1> QED BY <1>4 DEF Heap!Holes!vars, handedOut

(* The malloc that returns takes the first hole that is large enough. *)
LEMMA ReturnsFirstFit == ASSUME HeapInv, Heap!MallocReturns PROVE Heap!Holes!Next
<1> DEFINE need == Heap!get_size_to_allocate(request)
           h == [start |-> pos, size |-> mem[pos].size]
<1>1. PICK B : Tiled(mem, B) /\ Clients(mem, live, B) /\ Search(mem, pos, request, B)
  BY DEF HeapInv
<1>2. /\ pos \in B /\ request \in Nat /\ pos # NULL
      /\ \E C : /\ Tiled(mem', C)
                /\ HandedOut(mem', C) =
                     HandedOut(mem, B) \cup {[start |-> pos, size |-> Takes(mem[pos].size, need)]}
  BY <1>1, MallocReturnsIs DEF HeapInv
<1>3. PICK C : /\ Tiled(mem', C)
               /\ HandedOut(mem', C) =
                     HandedOut(mem, B) \cup {[start |-> pos, size |-> Takes(mem[pos].size, need)]}
  BY <1>2
<1>4. handedOut = HandedOut(mem, B) /\ handedOut' = HandedOut(mem', C)
  BY <1>1, <1>3, InUseIs, InUseAfter DEF handedOut
<1>5. /\ ~mem[pos].in_use /\ mem[pos].size >= need /\ result' = pos + 8
  BY DEF Heap!MallocReturns, Heap!Searching, Heap!Fits, Heap!HEADER_SIZE
<1>6. /\ \A b \in B : b \in Nat /\ mem[b].size \in Nat /\ b + mem[b].size <= Size
      /\ need \in Nat
  BY <1>1, <1>2, Neighbour, NeedIs DEF Tiled
<1>7. need <= Size
  BY <1>2, <1>5, <1>6, WordsAre
<1> HIDE DEF need
<1>8. PICK w \in Heap!Words : Heap!Holes!BlockSize(w) = need
  BY <1>2, <1>7, NeedOf DEF need
<1> DEFINE holes == Heap!Holes!Holes(handedOut)
           large == {x \in holes : x.size >= need}
<1>9. holes = {[start |-> b, size |-> mem[b].size] : b \in B \ Used(mem, B)}
  BY <1>1, <1>4, HolesAre
<1> HIDE DEF holes
<1>10. h \in large
  <2>1. pos \in B \ Used(mem, B)
    BY <1>2, <1>5 DEF Used
  <2> QED BY <1>5, <1>9, <2>1
<1>11. ASSUME NEW x \in large PROVE h.start <= x.start
  <2>1. PICK b \in B \ Used(mem, B) : x = [start |-> b, size |-> mem[b].size]
    BY <1>9
  <2>2. b \in B /\ ~mem[b].in_use /\ mem[b].size >= need /\ x.start = b
    BY <2>1 DEF Used
  <2>3. b < pos => mem[b].in_use \/ mem[b].size < need
    BY <1>1, <1>2, <2>2 DEF Search, need
  <2>4. pos <= b
    BY <1>2, <1>6, <2>2, <2>3
  <2> QED BY <2>2, <2>4
<1>12. Heap!Holes!Taken(h, need) = Takes(mem[pos].size, need)
  BY DEF Heap!Holes!Taken, Takes
<1>13. handedOut' = handedOut \cup {[start |-> h.start, size |-> Heap!Holes!Taken(h, need)]}
  BY <1>3, <1>4, <1>12 DEF need
<1>14. result' = h.start + 8 /\ large # {}
  BY <1>5, <1>10
<1> HIDE DEF h, large
<1>15. Heap!Holes!Malloc(w, handedOut, holes)
  <2>1. \E x \in large : /\ result' = x.start + 8
                         /\ \A other \in large : x.start <= other.start
                         /\ handedOut' = handedOut \cup
                              {[start |-> x.start, size |-> Heap!Holes!Taken(x, need)]}
    BY <1>10, <1>11, <1>13, <1>14
  <2> QED BY <1>8, <1>14, <2>1 DEF Heap!Holes!Malloc, handedOut, large
<1> QED BY <1>15, Zenon DEF Heap!Holes!Next, handedOut, holes

(* The malloc that fails found no hole that is large enough. *)
LEMMA FailsWithoutFit == ASSUME HeapInv, Heap!MallocFails PROVE Heap!Holes!Next
<1> DEFINE need == Heap!get_size_to_allocate(request)
           holes == Heap!Holes!Holes(handedOut)
<1>1. PICK B : Tiled(mem, B) /\ Search(mem, pos, request, B)
  BY DEF HeapInv
<1>2. pos = Size /\ result' = NULL /\ mem' = mem
  BY DEF Heap!MallocFails
<1>3. pos # NULL /\ Size \in Nat
  BY <1>2, SizesAssumption DEF Heap!SizesAssumption, Heap!HEADER_SIZE
<1>4. /\ request \in Nat
      /\ \A b \in B : b < Size => mem[b].in_use \/ mem[b].size < need
  BY <1>1, <1>2, <1>3 DEF Search
<1>5. /\ \A b \in B : /\ b \in Nat /\ mem[b].size \in Nat /\ 16 <= mem[b].size
                      /\ b + mem[b].size <= Size
      /\ need \in Nat
  BY <1>1, <1>4, Neighbour, NeedIs DEF Tiled
<1>6. handedOut = HandedOut(mem, B) /\ handedOut' = handedOut
  <2>1. handedOut = HandedOut(mem, B) /\ handedOut' = HandedOut(mem', B)
    BY <1>1, <1>2, InUseIs, InUseAfter DEF handedOut
  <2> QED BY <1>2, <2>1
<1>7. holes = {[start |-> b, size |-> mem[b].size] : b \in B \ Used(mem, B)}
  BY <1>1, <1>6, HolesAre
<1>8. PICK w \in Heap!Words : /\ Heap!Holes!BlockSize(w) \in Nat
                              /\ need <= Size => Heap!Holes!BlockSize(w) = need
                              /\ need > Size => Heap!Holes!BlockSize(w) > Size
  BY <1>4, NeedOf
<1> HIDE DEF need, holes
<1>9. ASSUME NEW x \in holes PROVE ~(x.size >= Heap!Holes!BlockSize(w))
  <2>1. PICK b \in B \ Used(mem, B) : x = [start |-> b, size |-> mem[b].size]
    BY <1>7
  <2>2. b \in B /\ ~mem[b].in_use /\ x.size = mem[b].size
    BY <2>1 DEF Used
  <2>3. b < Size /\ mem[b].size <= Size
    BY <1>3, <1>5, <2>2
  <2>4. mem[b].size < need
    BY <1>4, <2>2, <2>3
  <2> QED BY <1>3, <1>5, <1>8, <2>2, <2>3, <2>4
<1>10. Heap!Holes!Malloc(w, handedOut, holes)
  <2>1. {x \in holes : x.size >= Heap!Holes!BlockSize(w)} = {}
    BY <1>9
  <2> QED BY <1>2, <1>6, <2>1 DEF Heap!Holes!Malloc, handedOut
<1> QED BY <1>10, Zenon DEF Heap!Holes!Next, handedOut, holes

LEMMA FreeGivesBack == ASSUME HeapInv, NEW p \in DOMAIN live, Heap!Free(p) PROVE Heap!Holes!Next
<1> DEFINE x == [start |-> p - 8, size |-> mem[p - 8].size]
<1>1. PICK B : Tiled(mem, B) /\ Clients(mem, live, B)
  BY DEF HeapInv
<1>2. /\ p - 8 \in Used(mem, B)
      /\ \E C : Tiled(mem', C) /\ HandedOut(mem', C) = HandedOut(mem, B) \ {x}
  BY <1>1, FreeIs DEF HeapInv
<1>3. PICK C : Tiled(mem', C) /\ HandedOut(mem', C) = HandedOut(mem, B) \ {x}
  BY <1>2
<1>4. handedOut = HandedOut(mem, B) /\ handedOut' = HandedOut(mem', C)
  BY <1>1, <1>3, InUseIs, InUseAfter DEF handedOut
<1>5. x \in handedOut /\ handedOut' = handedOut \ {x}
  BY <1>2, <1>3, <1>4 DEF HandedOut
<1>6. result' = result
  BY DEF Heap!Free
<1> HIDE DEF x
<1>7. Heap!Holes!Free(handedOut)
  BY <1>5, <1>6 DEF Heap!Holes!Free, handedOut
<1> QED BY <1>7, Zenon DEF Heap!Holes!Next, handedOut

(* Each call of the allocator is a step of FirstFit or a stutter. *)
LEMMA CallRefines ==
  ASSUME HeapInv, HeapCalls \/ UNCHANGED heapVars
  PROVE  [Heap!Holes!Next]_(Heap!Holes!vars)
<1>1. CASE \E k \in Nat : Heap!Malloc(k)
  <2>1. UNCHANGED <<mem, result>>
    BY <1>1 DEF Heap!Malloc
  <2> QED BY <2>1, SameHanded
<1>2. CASE Heap!TryNext
  <2>1. UNCHANGED <<mem, result>>
    BY <1>2 DEF Heap!TryNext
  <2> QED BY <2>1, SameHanded
<1>3. CASE Heap!MallocReturns
  BY <1>3, ReturnsFirstFit
<1>4. CASE Heap!MallocFails
  BY <1>4, FailsWithoutFit
<1>5. CASE \E p \in DOMAIN live : Heap!Free(p)
  BY <1>5, FreeGivesBack
<1>6. CASE UNCHANGED heapVars
  BY <1>6, SameHanded DEF heapVars
<1> QED BY <1>1, <1>2, <1>3, <1>4, <1>5, <1>6 DEF HeapCalls

(* The heap starts as FirstFit does. *)
LEMMA InitRefines == Init => Heap!Holes!Init
<1> SUFFICES ASSUME Init PROVE Heap!Holes!Init
  OBVIOUS
<1>1. live = <<>> /\ result = NULL
  BY Zenon DEF Init, Heap!Init
<1>2. PICK B : Tiled(mem, B) /\ Clients(mem, live, B)
  BY InitInv DEF HeapInv
<1>3. Used(mem, B) = {}
  BY <1>1, <1>2 DEF Clients
<1>4. handedOut = {}
  BY <1>2, <1>3, InUseIs DEF handedOut, HandedOut
<1> QED BY <1>1, <1>4 DEF Heap!Holes!Init, handedOut

(* myheap.h: the heap implements a first-fit allocator that fails only when no hole, joined
   from whatever was freed, is large enough. *)
THEOREM FirstFitImplemented == Spec => ImplementsFirstFit
<1>1. HeapInv /\ TestsTyped /\ [Next]_allVars => [Heap!Holes!Next]_(Heap!Holes!vars)
  BY NextCalls, CallRefines
<1> QED
  BY <1>1, InitInv, NextHeapInv, InitRefines, PTL
     DEF Spec, allVars, ImplementsFirstFit, Heap!ImplementsFirstFit, Heap!Holes!Spec
=============================================================================
