--------------------------- MODULE SharedTheorems ---------------------------
(***************************************************************************)
(* What the proofs about several components share.  What uthread_enqueue    *)
(* and uthread_dequeue do to a queue on which nobody is twice: lemmas about *)
(* Append and Tail.  And induction over the numbers, for a set and for a    *)
(* recursive function.                                                      *)
(***************************************************************************)
EXTENDS Naturals, Sequences, Functions, FiniteSetTheorems, TLAPS

(* Appending what is not there yet adds it, at the end, and repeats nothing. *)
LEMMA AppendNew ==
  ASSUME NEW S, NEW q \in Seq(S), NEW t \in S
  PROVE  /\ Append(q, t) \in Seq(S)
         /\ Len(Append(q, t)) = Len(q) + 1
         /\ Range(Append(q, t)) = Range(q) \cup {t}
         /\ IsInjective(q) /\ t \notin Range(q) => IsInjective(Append(q, t))
<1>1. /\ Append(q, t) \in Seq(S)
      /\ Len(q) \in Nat
      /\ Len(Append(q, t)) = Len(q) + 1
      /\ DOMAIN q = 1 .. Len(q)
      /\ DOMAIN Append(q, t) = 1 .. Len(q) + 1
      /\ Append(q, t)[Len(q) + 1] = t
      /\ \A i \in 1 .. Len(q) : Append(q, t)[i] = q[i]
  OBVIOUS
<1>2. Range(Append(q, t)) = Range(q) \cup {t}
  BY <1>1 DEF Range
<1>3. ASSUME IsInjective(q), t \notin Range(q),
             NEW i \in DOMAIN Append(q, t), NEW j \in DOMAIN Append(q, t),
             Append(q, t)[i] = Append(q, t)[j]
      PROVE  i = j
  <2>1. \A k \in 1 .. Len(q) : q[k] # t
    BY <1>1, <1>3 DEF Range
  <2> QED BY <1>1, <1>3, <2>1 DEF IsInjective
<1> QED BY <1>1, <1>2, <1>3 DEF IsInjective

(* What a queue holds is its head and its tail; when nobody is on it twice the head is
   off it once it is dequeued. *)
LEMMA TailRest ==
  ASSUME NEW S, NEW q \in Seq(S), q # <<>>
  PROVE  /\ Tail(q) \in Seq(S)
         /\ Len(Tail(q)) = Len(q) - 1
         /\ Head(q) \in S
         /\ Head(q) \in Range(q)
         /\ IsInjective(q) => /\ Range(Tail(q)) = Range(q) \ {Head(q)}
                              /\ IsInjective(Tail(q))
<1>1. /\ Tail(q) \in Seq(S)
      /\ Len(Tail(q)) = Len(q) - 1
      /\ Head(q) = q[1] /\ q[1] \in S
      /\ Len(q) \in Nat \ {0}
      /\ DOMAIN q = 1 .. Len(q)
      /\ DOMAIN Tail(q) = 1 .. Len(q) - 1
      /\ \A i \in 1 .. Len(q) - 1 : Tail(q)[i] = q[i + 1]
  OBVIOUS
<1>2. Head(q) \in Range(q)
  BY <1>1 DEF Range
<1>3. ASSUME IsInjective(q) PROVE Range(Tail(q)) \subseteq Range(q) \ {Head(q)}
  <2> SUFFICES ASSUME NEW i \in 1 .. Len(q) - 1
               PROVE  Tail(q)[i] \in Range(q) \ {Head(q)}
    BY <1>1 DEF Range
  <2>1. i + 1 \in 1 .. Len(q) /\ i + 1 # 1 /\ 1 \in 1 .. Len(q)
    BY <1>1
  <2>2. q[i + 1] # q[1]
    BY <1>1, <1>3, <2>1 DEF IsInjective
  <2> QED BY <1>1, <2>1, <2>2 DEF Range
<1>4. Range(q) \ {Head(q)} \subseteq Range(Tail(q))
  <2> SUFFICES ASSUME NEW k \in 1 .. Len(q), q[k] # q[1]
               PROVE  q[k] \in Range(Tail(q))
    BY <1>1 DEF Range
  <2>1. k - 1 \in 1 .. Len(q) - 1 /\ Tail(q)[k - 1] = q[(k - 1) + 1]
    BY <1>1
  <2>2. (k - 1) + 1 = k /\ k - 1 \in DOMAIN Tail(q)
    BY <1>1, <2>1
  <2>3. Tail(q)[k - 1] \in Range(Tail(q))
    BY <2>2 DEF Range
  <2> QED BY <2>1, <2>2, <2>3
<1>5. ASSUME IsInjective(q),
             NEW i \in DOMAIN Tail(q), NEW j \in DOMAIN Tail(q), Tail(q)[i] = Tail(q)[j]
      PROVE  i = j
  <2>1. i + 1 \in DOMAIN q /\ j + 1 \in DOMAIN q /\ q[i + 1] = q[j + 1]
    BY <1>1, <1>5
  <2>2. i + 1 = j + 1
    BY <1>5, <2>1 DEF IsInjective
  <2> QED BY <1>1, <2>2
<1> QED BY <1>1, <1>2, <1>3, <1>4, <1>5 DEF IsInjective

(* Nobody is on an empty queue, and somebody is on any other. *)
LEMMA EmptyRange ==
  ASSUME NEW S, NEW q \in Seq(S)
  PROVE  /\ Range(q) \subseteq S
         /\ q = <<>> <=> Range(q) = {}
         /\ Len(q) \in Nat
         /\ q = <<>> <=> Len(q) = 0
<1>1. Len(q) \in Nat /\ DOMAIN q = 1 .. Len(q) /\ \A i \in 1 .. Len(q) : q[i] \in S
  OBVIOUS
<1>2. q = <<>> <=> Len(q) = 0
  OBVIOUS
<1>3. q # <<>> => q[1] \in Range(q)
  BY <1>1, <1>2 DEF Range
<1>4. q = <<>> => Range(q) = {}
  BY <1>1, <1>2 DEF Range
<1> QED BY <1>1, <1>2, <1>3, <1>4 DEF Range

(* Whoever was appended last comes off again. *)
LEMMA LastOff ==
  ASSUME NEW S, NEW q \in Seq(S), NEW t \in S
  PROVE  /\ Append(q, t) # <<>>
         /\ Append(q, t)[Len(Append(q, t))] = t
         /\ SubSeq(Append(q, t), 1, Len(Append(q, t)) - 1) = q
         /\ q # <<>> => /\ q[Len(q)] \in S
                        /\ q[Len(q)] \in Range(q)
                        /\ Append(SubSeq(q, 1, Len(q) - 1), q[Len(q)]) = q
<1>1. Len(q) \in Nat /\ DOMAIN q = 1 .. Len(q) /\ (q # <<>> => Len(q) >= 1)
  OBVIOUS
<1>2. Append(q, t) # <<>> /\ Append(q, t)[Len(Append(q, t))] = t
  OBVIOUS
<1>3. SubSeq(Append(q, t), 1, Len(Append(q, t)) - 1) = q
  OBVIOUS
<1>4. ASSUME q # <<>> PROVE q[Len(q)] \in S /\ q[Len(q)] \in Range(q)
  BY <1>1, <1>4 DEF Range
<1>5. ASSUME q # <<>> PROVE Append(SubSeq(q, 1, Len(q) - 1), q[Len(q)]) = q
  BY <1>1, <1>4, <1>5
<1> QED BY <1>2, <1>3, <1>4, <1>5

-----------------------------------------------------------------------------
(* Induction over the numbers, for a set of them: the least number that is missing would
   leave a finite set one element larger than itself. *)
LEMMA Upward ==
  ASSUME NEW S, 0 \in S, \A n \in Nat : n \in S => n + 1 \in S
  PROVE  \A n \in Nat : n \in S
<1> SUFFICES ASSUME NEW n \in Nat, n \notin S PROVE FALSE
  OBVIOUS
<1> DEFINE Missing == {k \in 0..n : k \notin S}
           down == [k \in Missing |-> k - 1]
<1>1. IsFiniteSet(Missing) /\ n \in Missing
  <2>1. IsFiniteSet(0..n) /\ Missing \subseteq 0..n
    BY FS_Interval
  <2> QED BY <2>1, FS_Subset
<1>2. /\ IsFiniteSet(Missing \ {n}) /\ Cardinality(Missing \ {n}) = Cardinality(Missing) - 1
      /\ Cardinality(Missing) \in Nat
  BY <1>1, FS_RemoveElement, FS_CardinalityType
<1>3. down \in [Missing -> Missing \ {n}]
  <2> SUFFICES ASSUME NEW k \in Missing PROVE k - 1 \in Missing \ {n}
    OBVIOUS
  <2>1. k \in 0..n /\ k \notin S /\ k # 0
    OBVIOUS
  <2>2. k - 1 \in Nat /\ (k - 1) + 1 = k
    BY <2>1
  <2>3. k - 1 \notin S
    BY <2>1, <2>2
  <2> QED BY <2>1, <2>2, <2>3
<1>4. PICK x \in Missing, y \in Missing : x # y /\ down[x] = down[y]
  <2> HIDE DEF Missing, down
  <2>1. Cardinality(Missing \ {n}) < Cardinality(Missing)
    BY <1>2
  <2> QED BY <1>1, <1>2, <1>3, <2>1, FS_PigeonHole
<1> QED BY <1>4


(* F begins with zero, and each value is a step from the one before. *)
Recurs(F, zero, step) == F[0] = zero /\ \A n \in Nat : F[n + 1] = step[n][F[n]]

(* There is a function that a recursion describes. *)
LEMMA Recursion ==
  ASSUME NEW V, NEW zero \in V, NEW step \in [Nat -> [V -> V]]
  PROVE  \E F \in [Nat -> V] : Recurs(F, zero, step)
<1> DEFINE Starts(F, m) == F[0] = zero /\ \A n \in Nat : n < m => F[n + 1] = step[n][F[n]]
           Reached == {m \in Nat : \E F \in [Nat -> V] : Starts(F, m)}
           First(m) == CHOOSE F \in [Nat -> V] : Starts(F, m)
<1>1. \A m \in Nat : m \in Reached
  <2>1. 0 \in Reached
    <3> DEFINE F == [n \in Nat |-> zero]
    <3>1. F \in [Nat -> V] /\ Starts(F, 0)
      OBVIOUS
    <3> QED BY <3>1
  <2>2. ASSUME NEW m \in Nat, m \in Reached PROVE m + 1 \in Reached
    <3>1. PICK F \in [Nat -> V] : Starts(F, m)
      BY <2>2
    <3> DEFINE G == [n \in Nat |-> IF n = m + 1 THEN step[m][F[m]] ELSE F[n]]
    <3>2. step[m][F[m]] \in V
      BY <3>1
    <3>3. G \in [Nat -> V]
      BY <3>2
    <3>4. \A n \in Nat : G[n] = IF n = m + 1 THEN step[m][F[m]] ELSE F[n]
      OBVIOUS
    <3> HIDE DEF G
    <3>5. G[0] = zero
      BY <3>1, <3>4
    <3>6. ASSUME NEW n \in Nat, n < m + 1 PROVE G[n + 1] = step[n][G[n]]
      <4>1. G[n] = F[n]
        BY <3>4, <3>6
      <4>2. CASE n = m
        BY <3>4, <4>1, <4>2
      <4>3. CASE n < m
        <5>1. G[n + 1] = F[n + 1]
          BY <3>4, <4>3
        <5> QED BY <3>1, <4>1, <4>3, <5>1
      <4> QED BY <3>6, <4>2, <4>3
    <3>7. Starts(G, m + 1)
      BY <3>5, <3>6
    <3> QED BY <3>3, <3>7
  <2> HIDE DEF Reached
  <2> QED BY <2>1, <2>2, Upward
<1>2. \A m \in Nat : First(m) \in [Nat -> V] /\ Starts(First(m), m)
  BY <1>1
<1> DEFINE Same == {n \in Nat : \A m \in Nat : m >= n => First(m)[n] = First(n)[n]}
<1>3. \A n \in Nat : n \in Same
  <2> HIDE DEF First
  <2>1. 0 \in Same
    BY <1>2
  <2>2. ASSUME NEW n \in Nat, n \in Same PROVE n + 1 \in Same
    <3> SUFFICES ASSUME NEW m \in Nat, m >= n + 1
                 PROVE  First(m)[n + 1] = First(n + 1)[n + 1]
      OBVIOUS
    <3>1. First(m)[n] = First(n)[n] /\ First(n + 1)[n] = First(n)[n]
      BY <2>2
    <3>2. First(m)[n + 1] = step[n][First(m)[n]]
      BY <1>2
    <3>3. First(n + 1)[n + 1] = step[n][First(n + 1)[n]]
      BY <1>2
    <3> QED BY <3>1, <3>2, <3>3
  <2> HIDE DEF Same
  <2> QED BY <2>1, <2>2, Upward
<1> DEFINE F == [n \in Nat |-> First(n)[n]]
<1> HIDE DEF First
<1>4. F \in [Nat -> V]
  BY <1>2
<1>5. F[0] = zero
  BY <1>2
<1>6. ASSUME NEW n \in Nat PROVE F[n + 1] = step[n][F[n]]
  <2>1. First(n + 1)[n + 1] = step[n][First(n + 1)[n]]
    BY <1>2
  <2>2. First(n + 1)[n] = First(n)[n]
    BY <1>3
  <2> QED BY <2>1, <2>2
<1> HIDE DEF F
<1> QED BY <1>4, <1>5, <1>6 DEF Recurs
=============================================================================
