-------------------------- MODULE StructuresProofs --------------------------
(***************************************************************************)
(* The sequential structures other than the heap (HeapProofs): the queues   *)
(* of threads, the programs that sort, and the elements with reference      *)
(* counts.                                                                  *)
(***************************************************************************)
EXTENDS Structures, SharedTheorems

-----------------------------------------------------------------------------
(* The links of any number of queues over one next field spell the FIFO queues of their
   callers, whatever the callers enqueue and dequeue. *)
Linked == Threads \cup {NULL}

(* A thread is on one queue at a time, and once. *)
QueuedOnce ==
  /\ content \in [Queues -> Seq(Threads)]
  /\ \A q \in Queues : IsInjective(content[q])
  /\ \A q, r \in Queues : q # r => Range(content[q]) \cap Range(content[r]) = {}

LinkTypes ==
  /\ next \in [Threads -> Linked]
  /\ head \in [Queues -> Linked]
  /\ tail \in [Queues -> Linked]

(* Queue!LinksSpellContent, queue by queue *)
Spelled(q) ==
  LET c == content[q] IN
  IF c = <<>> THEN head[q] = NULL /\ tail[q] = NULL
  ELSE /\ head[q] = c[1] /\ tail[q] = c[Len(c)]
       /\ \A k \in 1 .. Len(c) : next[c[k]] = IF k < Len(c) THEN c[k + 1] ELSE NULL

Unlinked == \A t \in Threads : ~Queue!OnSome(t) => next[t] = NULL

QueueInv == /\ QueuedOnce
            /\ LinkTypes
            /\ \A q \in Queues : Spelled(q)
            /\ Unlinked

LEMMA SpelledOut == Queue!LinksSpellContent <=> Unlinked /\ \A q \in Queues : Spelled(q)
BY DEF Queue!LinksSpellContent, Unlinked, Spelled

LEMMA QueueInit == Queue!Init => QueueInv
<1> SUFFICES ASSUME Queue!Init PROVE QueueInv
  OBVIOUS
<1>1. <<>> \in Seq(Threads) /\ DOMAIN <<>> = {}
  OBVIOUS
<1>2. IsInjective(<<>>) /\ Range(<<>>) = {}
  BY <1>1 DEF IsInjective, Range
<1> QED BY <1>1, <1>2 DEF Queue!Init, QueueInv, QueuedOnce, LinkTypes, Linked, Spelled, Unlinked

(* What the tail of a queue is. *)
LEMMA TailOn ==
  ASSUME QueueInv, Queue!NullAssumption, NEW q \in Queues
  PROVE  /\ content[q] \in Seq(Threads)
         /\ content[q] = <<>> => tail[q] = NULL
         /\ content[q] # <<>> => tail[q] \in Range(content[q])
         /\ tail[q] \in Threads => Queue!OnSome(tail[q])
<1>1. content[q] \in Seq(Threads) /\ Spelled(q)
  BY DEF QueueInv, QueuedOnce
<1>2. content[q] # <<>> => content[q][Len(content[q])] \in Range(content[q])
  BY <1>1 DEF Range
<1> QED BY <1>1, <1>2 DEF Spelled, Queue!NullAssumption, Queue!OnSome, Queue!Range, Range

(* A thread on no queue goes to the end of one; one that is there already is recognised. *)
LEMMA EnqueueSpells ==
  ASSUME QueueInv, Queue!NullAssumption, NEW q \in Queues, NEW t \in Threads, Queue!Enqueue(q, t)
  PROVE  QueueInv'
<1> DEFINE c == content[q]
<1>0. c \in Seq(Threads) /\ Len(c) \in Nat /\ DOMAIN c = 1 .. Len(c) /\ Spelled(q) /\ IsInjective(c)
      /\ (c = <<>> <=> Len(c) = 0) /\ (\A k \in 1 .. Len(c) : c[k] \in Threads)
  <2>1. c \in Seq(Threads) /\ Spelled(q) /\ IsInjective(c)
    BY DEF QueueInv, QueuedOnce
  <2> QED BY <2>1
<1>1. CASE t \in Range(c) /\ Queue!Link(q, t) /\ UNCHANGED content
  <2>1. PICK k \in 1 .. Len(c) : c[k] = t
    BY <1>0, <1>1 DEF Range
  <2>2. Queue!AlreadyEnqueued(q, t)
    <3>1. CASE k < Len(c)
      <4>1. next[t] = c[k + 1] /\ c[k + 1] \in Threads
        BY <1>0, <2>1, <3>1 DEF Spelled
      <4> QED BY <4>1 DEF Queue!AlreadyEnqueued, Queue!NullAssumption
    <3>2. CASE k = Len(c)
      BY <1>0, <2>1, <3>2 DEF Queue!AlreadyEnqueued, Spelled
    <3> QED BY <1>0, <2>1, <3>1, <3>2
  <2>3. UNCHANGED Queue!vars
    BY <1>1, <2>2 DEF Queue!Link, Queue!vars
  <2> QED BY <2>3 DEF Queue!vars, Queue!links, QueueInv, QueuedOnce, LinkTypes, Spelled, Unlinked, Queue!OnSome
<1>2. CASE ~Queue!OnSome(t) /\ Queue!Link(q, t) /\ content' = [content EXCEPT ![q] = Append(@, t)]
  <2>1. ~Queue!AlreadyEnqueued(q, t)
    BY <1>2, TailOn DEF Queue!AlreadyEnqueued, QueueInv, Unlinked
  <2>2. /\ next' = [u \in Threads |-> IF u = tail[q] THEN t ELSE IF u = t THEN NULL ELSE next[u]]
        /\ tail' = [tail EXCEPT ![q] = t]
        /\ head' = [head EXCEPT ![q] = IF @ = NULL THEN t ELSE @]
    BY <1>2, <2>1 DEF Queue!Link
  <2>3. \A r \in Queues : r # q => content'[r] = content[r] /\ head'[r] = head[r] /\ tail'[r] = tail[r]
    BY <1>2, <2>2 DEF QueueInv, QueuedOnce, LinkTypes
  <2>4. content'[q] = Append(c, t) /\ tail'[q] = t /\ head'[q] = IF head[q] = NULL THEN t ELSE head[q]
    BY <1>2, <2>2 DEF QueueInv, QueuedOnce, LinkTypes
  <2>5. t \notin Range(c)
    BY <1>2 DEF Queue!OnSome, Queue!Range, Range
  <2>6. Range(content'[q]) = Range(c) \cup {t} /\ IsInjective(content'[q])
    BY <1>0, <2>4, <2>5, AppendNew
  <2>7. QueuedOnce'
    <3>1. content' \in [Queues -> Seq(Threads)]
      BY <1>0, <1>2 DEF QueueInv, QueuedOnce
    <3>2. \A r \in Queues : IsInjective(content'[r])
      BY <2>3, <2>6 DEF QueueInv, QueuedOnce
    <3>3. \A r \in Queues : t \notin Range(content[r])
      BY <1>2 DEF Queue!OnSome, Queue!Range, Range
    <3>4. \A r, s \in Queues : r # s => Range(content'[r]) \cap Range(content'[s]) = {}
      <4>1. \A r \in Queues : Range(content'[r]) = IF r = q THEN Range(c) \cup {t} ELSE Range(content[r])
        BY <2>3, <2>6
      <4> QED BY <4>1, <3>3 DEF QueueInv, QueuedOnce
    <3> QED BY <3>1, <3>2, <3>4 DEF QueuedOnce
  <2>8. LinkTypes'
    BY <2>2 DEF QueueInv, LinkTypes, Linked
  <2>9. Spelled(q)'
    <3>1. head'[q] = Append(c, t)[1] /\ tail'[q] = Append(c, t)[Len(Append(c, t))]
      BY <1>0, <2>4 DEF Spelled, Queue!NullAssumption
    <3>2. ASSUME NEW k \in 1 .. Len(c) + 1
          PROVE  next'[Append(c, t)[k]] = IF k < Len(c) + 1 THEN Append(c, t)[k + 1] ELSE NULL
      <4>1. CASE k = Len(c) + 1
        <5>1. Append(c, t)[k] = t /\ t # tail[q]
          BY <1>0, <2>1, <4>1 DEF Queue!AlreadyEnqueued
        <5> QED BY <1>0, <2>2, <4>1, <5>1
      <4>2. CASE k = Len(c)
        <5>1. Append(c, t)[k] = c[k] /\ c[k] = tail[q] /\ Append(c, t)[k + 1] = t /\ c[k] \in Threads
          BY <1>0, <3>2, <4>2 DEF Spelled
        <5> QED BY <1>0, <2>2, <4>2, <5>1
      <4>3. CASE k < Len(c)
        <5>1. Append(c, t)[k] = c[k] /\ Append(c, t)[k + 1] = c[k + 1] /\ c[k] \in Threads
          BY <1>0, <4>3
        <5>2. c[k] # tail[q]
          <6>1. tail[q] = c[Len(c)] /\ Len(c) \in DOMAIN c /\ k \in DOMAIN c /\ k # Len(c)
            BY <1>0, <4>3 DEF Spelled
          <6> QED BY <1>0, <6>1 DEF IsInjective
        <5>3. c[k] # t
          BY <1>0, <2>5, <4>3 DEF Range
        <5>4. next[c[k]] = c[k + 1]
          BY <1>0, <4>3 DEF Spelled
        <5> QED BY <1>0, <2>2, <4>3, <5>1, <5>2, <5>3, <5>4
      <4> QED BY <1>0, <4>1, <4>2, <4>3
    <3>3. Append(c, t) # <<>> /\ Len(Append(c, t)) = Len(c) + 1
      BY <1>0
    <3> QED BY <2>4, <3>1, <3>2, <3>3 DEF Spelled
  <2>10. ASSUME NEW r \in Queues, r # q PROVE Spelled(r)'
    <3>1. \A u \in Range(content[r]) : u # t /\ u # tail[q] /\ u \in Threads
      <4>1. t \notin Range(content[r]) /\ Range(content[r]) \cap Range(c) = {}
        BY <1>2, <2>10 DEF Queue!OnSome, Queue!Range, Range, QueueInv, QueuedOnce
      <4>2. content[r] \in Seq(Threads)
        BY DEF QueueInv, QueuedOnce
      <4>3. Range(content[r]) \subseteq Threads
        BY <4>2, EmptyRange
      <4> QED BY <4>1, <4>3, TailOn DEF Queue!NullAssumption
    <3>2. \A u \in Range(content[r]) : next'[u] = next[u]
      BY <2>2, <3>1
    <3>3. content[r] \in Seq(Threads) /\ Spelled(r)
      BY DEF QueueInv, QueuedOnce
    <3>4. \A k \in 1 .. Len(content[r]) : content[r][k] \in Range(content[r])
      BY <3>3 DEF Range
    <3> QED BY <2>3, <2>10, <3>2, <3>3, <3>4 DEF Spelled
  <2>11. Unlinked'
    <3> SUFFICES ASSUME NEW u \in Threads, ~Queue!OnSome(u)' PROVE next'[u] = NULL
      BY DEF Unlinked
    <3>1. u # t /\ ~Queue!OnSome(u)
      BY <2>3, <2>6 DEF Queue!OnSome, Queue!Range, Range
    <3>2. u # tail[q]
      BY <3>1, TailOn
    <3> QED BY <2>2, <3>1, <3>2 DEF QueueInv, Unlinked
  <2> QED BY <2>7, <2>8, <2>9, <2>10, <2>11 DEF QueueInv
<1> QED BY <1>1, <1>2 DEF Queue!Enqueue, Queue!Range, Range

(* The head comes off with its link, and the rest is spelled from the second on. *)
LEMMA DequeueSpells ==
  ASSUME QueueInv, Queue!NullAssumption, NEW q \in Queues, Queue!Dequeue(q)
  PROVE  QueueInv'
<1> DEFINE c == content[q]
           t == c[1]
<1>1. c \in Seq(Threads) /\ Spelled(q) /\ IsInjective(c) /\ c # <<>>
  BY DEF QueueInv, QueuedOnce, Queue!Dequeue, Spelled
<1>2. /\ Len(c) \in Nat \ {0} /\ DOMAIN c = 1 .. Len(c) /\ t \in Threads
      /\ \A k \in 1 .. Len(c) : c[k] \in Threads
      /\ Tail(c) \in Seq(Threads) /\ Len(Tail(c)) = Len(c) - 1
      /\ \A k \in 1 .. Len(c) - 1 : Tail(c)[k] = c[k + 1]
      /\ (Tail(c) = <<>> <=> Len(c) = 1)
  <2>1. Len(c) \in Nat \ {0} /\ DOMAIN c = 1 .. Len(c) /\ \A k \in 1 .. Len(c) : c[k] \in Threads
    BY <1>1
  <2>2. Tail(c) \in Seq(Threads) /\ Len(Tail(c)) = Len(c) - 1
    BY <1>1
  <2>3. \A k \in 1 .. Len(c) - 1 : Tail(c)[k] = c[k + 1]
    BY <1>1
  <2>4. Tail(c) = <<>> <=> Len(Tail(c)) = 0
    BY <2>2, EmptyRange
  <2>5. Tail(c) = <<>> <=> Len(c) = 1
    BY <2>1, <2>2, <2>4
  <2>6. t \in Threads
    BY <2>1
  <2> QED BY <2>1, <2>2, <2>3, <2>5, <2>6
<1>3. head[q] = t /\ next[t] = (IF Len(c) > 1 THEN c[2] ELSE NULL) /\ (next[t] = NULL <=> Len(c) = 1)
  BY <1>1, <1>2 DEF Spelled, Queue!NullAssumption
<1>4. /\ next' = [next EXCEPT ![t] = NULL]
      /\ head' = [head EXCEPT ![q] = next[t]]
      /\ tail' = IF Len(c) = 1 THEN [tail EXCEPT ![q] = NULL] ELSE tail
      /\ content' = [content EXCEPT ![q] = Tail(c)]
  BY <1>1, <1>3 DEF Queue!Dequeue, Queue!Unlink, Queue!TailAfter
<1>5. /\ \A r \in Queues : r # q => content'[r] = content[r] /\ head'[r] = head[r] /\ tail'[r] = tail[r]
      /\ content'[q] = Tail(c) /\ head'[q] = next[t] /\ tail'[q] = IF Len(c) = 1 THEN NULL ELSE tail[q]
      /\ \A u \in Threads : next'[u] = IF u = t THEN NULL ELSE next[u]
  BY <1>4 DEF QueueInv, QueuedOnce, LinkTypes
<1>6. Range(Tail(c)) = Range(c) \ {t} /\ IsInjective(Tail(c)) /\ t \in Range(c)
  <2>1. Head(c) = t
    BY <1>1
  <2> QED BY <1>1, <2>1, TailRest
<1>7. QueuedOnce'
  <2>1. content' \in [Queues -> Seq(Threads)]
    BY <1>2, <1>4 DEF QueueInv, QueuedOnce
  <2>2. \A r \in Queues : IsInjective(content'[r])
    BY <1>5, <1>6 DEF QueueInv, QueuedOnce
  <2>3. \A r \in Queues : Range(content'[r]) \subseteq Range(content[r])
    BY <1>5, <1>6
  <2>4. \A r, s \in Queues : r # s => Range(content'[r]) \cap Range(content'[s]) = {}
    BY <2>3 DEF QueueInv, QueuedOnce
  <2> QED BY <2>1, <2>2, <2>4 DEF QueuedOnce
<1>8. LinkTypes'
  BY <1>2, <1>4 DEF QueueInv, LinkTypes, Linked
<1>9. Spelled(q)'
  <2>1. CASE Len(c) = 1
    BY <1>2, <1>3, <1>5, <2>1 DEF Spelled
  <2>2. CASE Len(c) > 1
    <3>1. head'[q] = Tail(c)[1] /\ tail'[q] = Tail(c)[Len(Tail(c))] /\ Tail(c) # <<>>
      BY <1>1, <1>2, <1>3, <1>5, <2>2 DEF Spelled
    <3>2. ASSUME NEW k \in 1 .. Len(c) - 1
          PROVE  next'[Tail(c)[k]] = IF k < Len(c) - 1 THEN Tail(c)[k + 1] ELSE NULL
      <4>1. k + 1 \in 1 .. Len(c) /\ k + 1 # 1 /\ 1 \in 1 .. Len(c) /\ Tail(c)[k] = c[k + 1]
        BY <1>2
      <4>2. c[k + 1] # t /\ c[k + 1] \in Threads
        BY <1>1, <1>2, <4>1 DEF IsInjective
      <4>3. next[c[k + 1]] = IF k + 1 < Len(c) THEN c[(k + 1) + 1] ELSE NULL
        BY <1>1, <4>1 DEF Spelled
      <4>4. k < Len(c) - 1 => Tail(c)[k + 1] = c[(k + 1) + 1]
        BY <1>2
      <4> QED BY <1>2, <1>5, <4>1, <4>2, <4>3, <4>4
    <3>3. \A k \in 1 .. Len(Tail(c)) :
            next'[Tail(c)[k]] = IF k < Len(Tail(c)) THEN Tail(c)[k + 1] ELSE NULL
      BY <1>2, <3>2
    <3>4. content'[q] = Tail(c)
      BY <1>5
    <3> QED BY <3>1, <3>3, <3>4 DEF Spelled
  <2> QED BY <1>2, <2>1, <2>2
<1>10. ASSUME NEW r \in Queues, r # q PROVE Spelled(r)'
  <2>1. content[r] \in Seq(Threads) /\ Spelled(r) /\ t \notin Range(content[r])
    BY <1>6, <1>10 DEF QueueInv, QueuedOnce
  <2>2. \A k \in 1 .. Len(content[r]) :
          content[r][k] \in Threads /\ content[r][k] # t
    BY <2>1 DEF Range
  <2> QED BY <1>5, <1>10, <2>1, <2>2 DEF Spelled
<1>11. Unlinked'
  <2> SUFFICES ASSUME NEW u \in Threads, ~Queue!OnSome(u)', u # t PROVE next'[u] = NULL
    BY <1>5 DEF Unlinked
  <2>1. \A r \in Queues : Range(content'[r]) = IF r = q THEN Range(c) \ {t} ELSE Range(content[r])
    BY <1>5, <1>6
  <2>2. \A r \in Queues : u \notin Range(content'[r])
    BY DEF Queue!OnSome, Queue!Range, Range
  <2>3. \A r \in Queues : u \notin Range(content[r])
    BY <2>1, <2>2
  <2>4. ~Queue!OnSome(u)
    BY <2>3 DEF Queue!OnSome, Queue!Range, Range
  <2> QED BY <1>5, <2>4 DEF QueueInv, Unlinked
<1> QED BY <1>7, <1>8, <1>9, <1>10, <1>11 DEF QueueInv

LEMMA QueueStep == ASSUME Queue!NullAssumption PROVE QueueInv /\ [Queue!Next]_(Queue!vars) => QueueInv'
<1> SUFFICES ASSUME QueueInv, [Queue!Next]_(Queue!vars) PROVE QueueInv'
  OBVIOUS
<1>1. CASE UNCHANGED Queue!vars
  BY <1>1 DEF Queue!vars, Queue!links, QueueInv, QueuedOnce, LinkTypes, Spelled, Unlinked, Queue!OnSome
<1>2. CASE Queue!Next
  BY <1>2, EnqueueSpells, DequeueSpells DEF Queue!Next
<1> QED BY <1>1, <1>2

(* What the step of a behaviour does to the queues is a step of theirs. *)
LEMMA QueueActs ==
  [Next]_<<structure, queueVars, heapVars, testVars, countVars, listVars, programVars>>
    => [Queue!Next]_(Queue!vars)
BY DEF Next, queueVars, Queue!vars, Queue!links

LEMMA InitActs == Init => Queue!Init /\ Sort!Init
BY Zenon DEF Init

(* uthread_enqueue and uthread_dequeue: however the threads move between the queues, the
   links of each spell its callers' queue, from head to tail, and a thread on none has no
   link left over; the test for a thread that is queued already rests on it. *)
THEOREM QueuesCorrect == Spec => []Queue!LinksSpellContent
<1>1. QueueInv => Queue!LinksSpellContent
  BY SpelledOut DEF QueueInv
<1>2. Init => QueueInv
  BY InitActs, QueueInit
<1>3. QueueInv /\ [Next]_<<structure, queueVars, heapVars, testVars, countVars, listVars, programVars>>
        => QueueInv'
  BY QueueActs, QueueStep, NullAssumption
<1> QED BY <1>1, <1>2, <1>3, PTL DEF Spec

-----------------------------------------------------------------------------
(* The sorts of a03 sort, for arguments of any number and any values.  The invariant: what
   is behind i is in its place, and the inner loop has passed nothing that is greater than
   what is at i. *)
Index == 0..(n - 1)

Loaded == status \in {"sort", "print"}

SortTypes ==
  /\ n \in Nat
  /\ args \in [Index -> Numbers \cup {NotNumber}]
  /\ status \in {"start", "sort", "print", "failed"}
  /\ i \in Int /\ j \in Int
  /\ Loaded => /\ args \in [Index -> Int] /\ val \in [Index -> Int]
               /\ -1 <= i /\ i < n /\ j < i
               /\ i >= 0 => -1 <= j

(* What is behind i is in its place: sorted, and no less than anything before it. *)
TailInPlace == \A k, m \in Index : i < k /\ m <= k => val[m] <= val[k]

(* Whatever the inner loop has passed is no greater than what is at i. *)
GreatestAtI == \A m \in Index : j < m /\ m < i => val[m] <= val[i]

SortInv == SortTypes /\ (Loaded => TailInPlace /\ GreatestAtI) /\ (status = "print" => i <= 0)

-----------------------------------------------------------------------------
LEMMA InitSortInv == ASSUME Sort!SortAssumption, Sort!Init PROVE SortInv
BY DEF Sort!SortAssumption, Sort!Init, SortInv, SortTypes, Loaded, Index

LEMMA ReadSortInv == ASSUME Sort!SortAssumption, SortInv, Sort!Read PROVE SortInv'
<1>1. n \in Nat /\ args \in [Index -> Int]
  BY DEF SortInv, SortTypes, Sort!Read, Sort!Refused, Index, Sort!SortAssumption
<1>2. SortTypes'
  BY <1>1 DEF SortInv, SortTypes, Sort!Read, Loaded, Index
<1>3. TailInPlace' /\ GreatestAtI'
  BY <1>1 DEF Sort!Read, TailInPlace, GreatestAtI, Index
<1> QED
  BY <1>2, <1>3 DEF SortInv, Sort!Read

LEMMA CompareSortInv == ASSUME SortInv, Sort!Compare PROVE SortInv'
<1>1. /\ n \in Nat /\ i \in Index /\ j \in Index /\ j < i
      /\ val \in [Index -> Int]
  BY DEF SortInv, SortTypes, Sort!Compare, Loaded, Index
<1>2. CASE ~Sort!OutOfOrder
  <2>1. val' = val /\ val[j] <= val[i] /\ j' = j - 1 /\ UNCHANGED <<n, args, i, status>>
    BY <1>1, <1>2 DEF Sort!Compare, Sort!OutOfOrder
  <2>2. SortTypes'
    BY <1>1, <2>1 DEF SortInv, SortTypes, Sort!Compare, Loaded, Index
  <2>3. TailInPlace'
    BY <2>1 DEF SortInv, TailInPlace, Sort!Compare, Loaded, Index
  <2>4. GreatestAtI'
    BY <1>1, <2>1 DEF SortInv, GreatestAtI, Sort!Compare, Loaded, Index
  <2> QED
    BY <2>2, <2>3, <2>4 DEF SortInv, Sort!Compare
<1>3. CASE Sort!OutOfOrder
  <2>1. /\ val' = Sort!Swapped(i, j) /\ val[i] < val[j]
        /\ j' = j - 1 /\ UNCHANGED <<n, args, i, status>>
    BY <1>3 DEF Sort!Compare, Sort!OutOfOrder
  <2>2. /\ val' \in [Index -> Int]
        /\ val'[i] = val[j] /\ val'[j] = val[i]
        /\ \A k \in Index : k # i /\ k # j => val'[k] = val[k]
    BY <1>1, <2>1 DEF Sort!Swapped
  <2>3. SortTypes'
    BY <1>1, <2>1, <2>2 DEF SortInv, SortTypes, Sort!Compare, Loaded, Index
  <2>4. TailInPlace'
    <3> SUFFICES ASSUME NEW k \in Index, NEW m \in Index, i < k, m <= k
                 PROVE  val'[m] <= val'[k]
      BY <2>1 DEF TailInPlace, Index
    <3>1. val'[k] = val[k] /\ val[i] <= val[k] /\ val[j] <= val[k] /\ val[m] <= val[k]
      BY <1>1, <2>2 DEF SortInv, TailInPlace, Sort!Compare, Loaded, Index
    <3> QED
      BY <2>2, <3>1
  <2>5. GreatestAtI'
    <3> SUFFICES ASSUME NEW m \in Index, j - 1 < m, m < i
                 PROVE  val'[m] <= val'[i]
      BY <2>1 DEF GreatestAtI, Index
    <3>1. CASE m = j
      BY <1>1, <2>1, <2>2, <3>1
    <3>2. CASE m # j
      <4>1. val'[m] = val[m] /\ val[m] <= val[i]
        BY <1>1, <2>2, <3>2 DEF SortInv, GreatestAtI, Sort!Compare, Loaded, Index
      <4> QED
        BY <1>1, <2>1, <2>2, <4>1
    <3> QED
      BY <3>1, <3>2
  <2> QED
    BY <2>3, <2>4, <2>5 DEF SortInv, Sort!Compare
<1> QED
  BY <1>2, <1>3

LEMMA NextPositionSortInv == ASSUME SortInv, Sort!NextPosition PROVE SortInv'
<1>1. /\ n \in Nat /\ i \in Index /\ i > 0 /\ j = -1
      /\ val \in [Index -> Int]
      /\ i' = i - 1 /\ j' = i - 2 /\ UNCHANGED <<n, args, val, status>>
      /\ TailInPlace /\ GreatestAtI
  BY DEF SortInv, SortTypes, Sort!NextPosition, Loaded, Index
<1>2. SortTypes'
  BY <1>1 DEF SortInv, SortTypes, Loaded, Index
<1>3. TailInPlace'
  <2> SUFFICES ASSUME NEW k \in Index, NEW m \in Index, i - 1 < k, m <= k
               PROVE  val[m] <= val[k]
    BY <1>1 DEF TailInPlace, Index
  <2>1. CASE k = i
    BY <1>1, <2>1 DEF GreatestAtI, Index
  <2>2. CASE k # i
    BY <1>1, <2>2 DEF TailInPlace, Index
  <2> QED
    BY <2>1, <2>2
<1>4. GreatestAtI'
  BY <1>1 DEF GreatestAtI, Index
<1> QED
  BY <1>2, <1>3, <1>4 DEF SortInv, Sort!NextPosition

LEMMA NextSortInv == ASSUME Sort!SortAssumption, SortInv, [Sort!Next]_(Sort!vars) PROVE SortInv'
<1>1. CASE Sort!Refuse
  BY <1>1 DEF Sort!Refuse, SortInv, SortTypes, Loaded, Index
<1>2. CASE Sort!Read
  BY <1>2, ReadSortInv
<1>3. CASE Sort!Compare
  BY <1>3, CompareSortInv
<1>4. CASE Sort!NextPosition
  BY <1>4, NextPositionSortInv
<1>5. CASE Sort!PrintAll
  BY <1>5 DEF Sort!PrintAll, SortInv, SortTypes, Loaded, Index, TailInPlace, GreatestAtI
<1>6. CASE Sort!Returned
  BY <1>6 DEF Sort!Returned, Sort!vars, SortInv, SortTypes, Loaded, Index, TailInPlace, GreatestAtI
<1>7. CASE UNCHANGED Sort!vars
  BY <1>7 DEF Sort!vars, SortInv, SortTypes, Loaded, Index, TailInPlace, GreatestAtI
<1> QED
  BY <1>1, <1>2, <1>3, <1>4, <1>5, <1>6, <1>7 DEF Sort!Next

LEMMA SortInvAscends == ASSUME SortInv PROVE Sort!Ascends
BY DEF SortInv, SortTypes, Loaded, TailInPlace, Sort!Ascends, Index

-----------------------------------------------------------------------------
(* A step that leaves n and args alone rearranges, if a permutation q of the positions tells
   where each value of the array comes from. *)
LEMMA PermutationRearranges ==
  ASSUME UNCHANGED <<n, args>>, NEW q \in [Index -> Index],
         \A k, m \in Index : q[k] = q[m] => k = m,
         \A k \in Index : val'[k] = args[q[k]]
  PROVE  Sort!Rearranged'
<1>1. /\ q \in [0..n' - 1 -> 0..n' - 1]
      /\ \A k, m \in 0..n' - 1 : q[k] = q[m] => k = m
      /\ \A k \in 0..n' - 1 : val'[k] = args'[q[k]]
  BY DEF Index
<1> QED
  BY <1>1, Zenon DEF Sort!Rearranged

LEMMA ReadRearranged == ASSUME Sort!SortAssumption, SortInv, Sort!Read PROVE Sort!Rearranged'
<1> DEFINE id == [k \in Index |-> k]
<1>1. val' = args /\ UNCHANGED <<n, args>>
  BY DEF Sort!Read
<1>2. id \in [Index -> Index] /\ \A k \in Index : id[k] = k
  OBVIOUS
<1> HIDE DEF id
<1>3. \A k, m \in Index : id[k] = id[m] => k = m
  BY <1>2
<1>4. \A k \in Index : val'[k] = args[id[k]]
  BY <1>1, <1>2
<1> QED
  BY <1>1, <1>2, <1>3, <1>4, PermutationRearranges

LEMMA CompareRearranged == ASSUME SortInv, Sort!Rearranged, Sort!Compare PROVE Sort!Rearranged'
<1>1. /\ n \in Nat /\ i \in Index /\ j \in Index /\ i # j
      /\ val \in [Index -> Int]
  BY DEF SortInv, SortTypes, Sort!Compare, Loaded, Index
<1>2. UNCHANGED <<n, args>>
  BY DEF Sort!Compare
<1>3. PICK p \in [Index -> Index] :
        /\ \A k, m \in Index : p[k] = p[m] => k = m
        /\ \A k \in Index : val[k] = args[p[k]]
  BY Zenon DEF Sort!Rearranged, Sort!Compare, Index
<1>4. CASE ~Sort!OutOfOrder
  <2>1. val' = val
    BY <1>4 DEF Sort!Compare
  <2> QED
    BY <1>2, <1>3, <2>1, PermutationRearranges
<1>5. CASE Sort!OutOfOrder
  <2> DEFINE q == [p EXCEPT ![i] = p[j], ![j] = p[i]]
  <2>1. q \in [Index -> Index]
    BY <1>1, <1>3
  <2>2. \A k \in Index : q[k] = IF k = i THEN p[j] ELSE IF k = j THEN p[i] ELSE p[k]
    BY <1>1, <1>3
  <2>3. \A k \in Index : val'[k] = IF k = i THEN val[j] ELSE IF k = j THEN val[i] ELSE val[k]
    BY <1>1, <1>5 DEF Sort!Compare, Sort!Swapped
  <2> HIDE DEF q
  <2>4. \A k, m \in Index : q[k] = q[m] => k = m
    BY <1>1, <1>3, <2>2
  <2>5. \A k \in Index : val'[k] = args[q[k]]
    BY <1>1, <1>3, <2>2, <2>3
  <2> QED
    BY <1>2, <2>1, <2>4, <2>5, PermutationRearranges
<1> QED
  BY <1>4, <1>5

LEMMA NextRearranged == ASSUME Sort!SortAssumption, SortInv, Sort!Rearranged, [Sort!Next]_(Sort!vars) PROVE Sort!Rearranged'
<1>1. CASE Sort!Refuse
  BY <1>1 DEF Sort!Refuse, Sort!Rearranged
<1>2. CASE Sort!Read
  BY <1>2, ReadRearranged
<1>3. CASE Sort!Compare
  BY <1>3, CompareRearranged
<1>4. CASE Sort!NextPosition
  BY <1>4 DEF Sort!NextPosition, Sort!Rearranged
<1>5. CASE Sort!PrintAll
  BY <1>5 DEF Sort!PrintAll, Sort!Rearranged
<1>6. CASE Sort!Returned
  BY <1>6 DEF Sort!Returned, Sort!vars, Sort!Rearranged
<1>7. CASE UNCHANGED Sort!vars
  BY <1>7 DEF Sort!vars, Sort!Rearranged
<1> QED
  BY <1>1, <1>2, <1>3, <1>4, <1>5, <1>6, <1>7 DEF Sort!Next

LEMMA SortActs ==
  [Next]_<<structure, queueVars, heapVars, testVars, countVars, listVars, programVars>>
    => [Sort!Next]_(Sort!vars)
BY Zenon DEF Next, ProgramNext, programVars, sortVars, Sort!vars

(* bubble_sort_dynamic.c:14-46: whatever numbers are given, what is printed ascends, and from
   the time the array is filled it is they in another order. *)
THEOREM SortsCorrect == Spec => [](Sort!Ascends /\ Sort!Rearranged)
<1>1. Init => SortInv /\ Sort!Rearranged
  BY InitActs, InitSortInv, SortAssumption DEF Sort!Init, Sort!Rearranged
<1>2. /\ SortInv /\ Sort!Rearranged
      /\ [Next]_<<structure, queueVars, heapVars, testVars, countVars, listVars, programVars>>
      => (SortInv /\ Sort!Rearranged)'
  BY SortActs, NextSortInv, NextRearranged, SortAssumption
<1>3. SortInv => Sort!Ascends
  BY SortInvAscends
<1> QED
  BY <1>1, <1>2, <1>3, PTL DEF Spec

-----------------------------------------------------------------------------
(* The reference counts of a08/q2-3, for any contents, addresses and bounds.  The fields of
   an allocated element, its address apart. *)
Counted == [class : {"int", "str"}, value : Int, refcount : Nat]

(* A set of numbers that is not empty has a least one, which is the one malloc takes. *)
LEMMA LeastOf == ASSUME NEW S \in SUBSET Nat, S # {} PROVE Counts!Min(S) \in S
<1>1. \E x \in S : \A y \in S : x =< y
  <2> SUFFICES ASSUME \A x \in S : \E y \in S : y < x PROVE FALSE
    OBVIOUS
  <2> DEFINE Free == {k \in Nat : \A y \in S : k < y}
  <2>1. 0 \in Free
    OBVIOUS
  <2>2. ASSUME NEW k \in Nat, k \in Free PROVE k + 1 \in Free
    <3>1. k + 1 \notin S
      BY <2>2
    <3> QED BY <2>2, <3>1
  <2> HIDE DEF Free
  <2>3. \A k \in Nat : k \in Free
    BY <2>1, <2>2, Upward
  <2>4. PICK y : y \in S
    OBVIOUS
  <2>5. y \in Nat /\ y \in Free
    BY <2>3, <2>4
  <2> QED BY <2>4, <2>5 DEF Free
<1> QED BY <1>1 DEF Counts!Min

(* How often the first m of a sequence are e. *)
Uses(es, e, m) == Cardinality({k \in 1..m : es[k] = e})

(* One place more is one use more at most. *)
LEMMA UsesStep ==
  ASSUME NEW es, NEW e, NEW m \in Nat
  PROVE  /\ Uses(es, e, m) \in Nat
         /\ Uses(es, e, 0) = 0
         /\ Uses(es, e, m + 1) = Uses(es, e, m) + (IF es[m + 1] = e THEN 1 ELSE 0)
<1> DEFINE U(c) == {k \in 1..c : es[k] = e}
<1>1. ASSUME NEW c \in Nat PROVE IsFiniteSet(U(c))
  <2>1. IsFiniteSet(1..c) /\ U(c) \in SUBSET (1..c)
    BY FS_Interval
  <2> QED BY <2>1, FS_Subset
<1>2. Uses(es, e, m) \in Nat
  BY <1>1, FS_CardinalityType DEF Uses
<1>3. U(0) = {}
  OBVIOUS
<1>4. Uses(es, e, 0) = 0
  BY <1>3, FS_EmptySet DEF Uses
<1>5. CASE es[m + 1] = e
  <2>1. U(m + 1) = U(m) \cup {m + 1} /\ m + 1 \notin U(m)
    BY <1>5
  <2>2. Cardinality(U(m + 1)) = Cardinality(U(m)) + 1
    <3> HIDE DEF U
    <3> QED BY <1>1, <2>1, FS_AddElement
  <2> QED BY <1>2, <1>4, <1>5, <2>2 DEF Uses
<1>6. CASE es[m + 1] # e
  <2>1. U(m + 1) = U(m)
    BY <1>6
  <2> QED BY <1>2, <1>4, <1>6, <2>1 DEF Uses
<1> QED BY <1>5, <1>6

LEMMA UsesGrow ==
  ASSUME NEW es, NEW e, NEW m \in Nat, NEW c \in Nat, m <= c
  PROVE  Uses(es, e, m) <= Uses(es, e, c)
<1>1. IsFiniteSet(1..c)
  BY FS_Interval
<1>2. IsFiniteSet({k \in 1..c : es[k] = e})
  BY <1>1, FS_Subset
<1>3. {k \in 1..m : es[k] = e} \in SUBSET {k \in 1..c : es[k] = e}
  OBVIOUS
<1> QED BY <1>2, <1>3, FS_Subset DEF Uses

(* What is left of the allocated elements h when c references to each are given back. *)
Left(h, c) == [e \in {d \in DOMAIN h : h[d].refcount > c[d]} |->
                 [class |-> h[e].class, value |-> h[e].value, refcount |-> h[e].refcount - c[e]]]

(* References are given back one at a time: the last one frees the element. *)
LEMMA LeftStep ==
  ASSUME NEW D, NEW h \in [D -> Counted], NEW c \in [D -> Nat], NEW x \in D,
         c[x] < h[x].refcount
  PROVE  Counts!rc_free_ref(Left(h, c), x)
           = Left(h, [e \in D |-> c[e] + (IF x = e THEN 1 ELSE 0)])
<1> DEFINE l == Left(h, c)
           c2 == [e \in D |-> c[e] + (IF x = e THEN 1 ELSE 0)]
           r == Left(h, c2)
<1>1. DOMAIN l = {d \in D : h[d].refcount > c[d]}
  BY DEF Left
<1>2. \A e \in DOMAIN l : l[e] = [class |-> h[e].class, value |-> h[e].value, refcount |-> h[e].refcount - c[e]]
  BY DEF Left
<1>3. DOMAIN r = {d \in D : h[d].refcount > c2[d]}
  BY DEF Left
<1>4. \A e \in DOMAIN r : r[e] = [class |-> h[e].class, value |-> h[e].value, refcount |-> h[e].refcount - c2[e]]
  BY DEF Left
<1>5. \A e \in D : c2[e] = c[e] + (IF x = e THEN 1 ELSE 0)
  OBVIOUS
<1>6. \A e \in D : h[e].refcount \in Nat /\ c[e] \in Nat
  BY DEF Counted
<1>7. x \in DOMAIN l /\ l[x].refcount = h[x].refcount - c[x]
  <2> HIDE DEF l
  <2>1. x \in DOMAIN l
    BY <1>1, <1>6
  <2>2. l[x] = [class |-> h[x].class, value |-> h[x].value, refcount |-> h[x].refcount - c[x]]
    BY <1>2, <2>1
  <2> QED BY <2>1, <2>2
<1> HIDE DEF c2, l, r
<1>8. CASE h[x].refcount = c[x] + 1
  <2>1. l[x].refcount = 1
    BY <1>6, <1>7, <1>8
  <2>2. Counts!rc_free_ref(l, x) = [y \in DOMAIN l \ {x} |-> l[y]]
    BY <2>1 DEF Counts!rc_free_ref, Counts!Without
  <2>3. DOMAIN r = DOMAIN l \ {x}
    BY <1>1, <1>3, <1>5, <1>6, <1>8
  <2>4. \A e \in DOMAIN r : r[e] = l[e]
    <3> SUFFICES ASSUME NEW e \in DOMAIN r PROVE r[e] = l[e]
      OBVIOUS
    <3>1. e \in D /\ e # x /\ e \in DOMAIN l
      BY <1>1, <2>3
    <3>2. c2[e] = c[e]
      BY <1>5, <1>6, <3>1
    <3> QED BY <1>2, <1>4, <3>1, <3>2
  <2>5. r = [y \in DOMAIN r |-> r[y]]
    BY DEF r, Left
  <2>6. Counts!rc_free_ref(l, x) = r
    BY <2>2, <2>3, <2>4, <2>5
  <2> QED BY <2>6 DEF l, r, c2
<1>9. CASE h[x].refcount # c[x] + 1
  <2>1. l[x].refcount # 1
    BY <1>6, <1>7, <1>9
  <2>2. Counts!rc_free_ref(l, x) = [l EXCEPT ![x].refcount = @ - 1]
    BY <2>1 DEF Counts!rc_free_ref
  <2>3. DOMAIN r = DOMAIN l
    BY <1>1, <1>3, <1>5, <1>6, <1>9
  <2>4. \A e \in DOMAIN r : e # x => r[e] = l[e]
    BY <1>1, <1>2, <1>3, <1>4, <1>5, <1>6, <2>3
  <2>5. r[x] = [l[x] EXCEPT !.refcount = @ - 1]
    <3>1. r[x] = [class |-> h[x].class, value |-> h[x].value, refcount |-> h[x].refcount - (c[x] + 1)]
      BY <1>4, <1>5, <1>7, <2>3
    <3>2. l[x] = [class |-> h[x].class, value |-> h[x].value, refcount |-> h[x].refcount - c[x]]
      BY <1>2, <1>7
    <3> QED BY <1>6, <1>7, <3>1, <3>2
  <2>6. r = [y \in DOMAIN r |-> r[y]] /\ l = [y \in DOMAIN l |-> l[y]]
    BY DEF r, l, Left
  <2>7. Counts!rc_free_ref(l, x) = r
    BY <2>2, <2>3, <2>4, <2>5, <2>6
  <2> QED BY <2>7 DEF l, r, c2
<1> QED BY <1>8, <1>9

(* How the elements h are left, one reference after the other. *)
Leaving(h, es, B) ==
  CHOOSE f : f = [k \in 0..B |-> IF k = 0 THEN h ELSE Counts!rc_free_ref(f[k - 1], es[k])]

(* As long as no element is given back more often than it is counted, what is left is
   counted by what was given back. *)
LEMMA LeavingLeft ==
  ASSUME NEW D, NEW h \in [D -> Counted], NEW B \in Nat, NEW es, \A k \in 1..B : es[k] \in D,
         \A e \in D : Uses(es, e, B) <= h[e].refcount /\ 0 < h[e].refcount
  PROVE  Leaving(h, es, B)[B] = Left(h, [e \in D |-> Uses(es, e, B)])
<1> DEFINE
           U(m) == [e \in D |-> Uses(es, e, m)]
           G == [k \in 0..B |-> Left(h, U(k))]
           Steps(f) == f = [k \in 0..B |-> IF k = 0 THEN h ELSE Counts!rc_free_ref(f[k - 1], es[k])]
           F == CHOOSE f : Steps(f)
<1>1. B \in Nat /\ \A k \in 1..B : es[k] \in D
  OBVIOUS
<1>2. \A m \in Nat : U(m) \in [D -> Nat]
  BY UsesStep
<1>3. Left(h, U(0)) = h
  <2>1. \A e \in D : U(0)[e] = 0
    BY UsesStep
  <2>2. {d \in DOMAIN h : h[d].refcount > U(0)[d]} = D
    BY <2>1
  <2>3. \A e \in D : h[e] = [class |-> h[e].class, value |-> h[e].value, refcount |-> h[e].refcount - U(0)[e]]
    <3> SUFFICES ASSUME NEW e \in D
                 PROVE h[e] = [class |-> h[e].class, value |-> h[e].value, refcount |-> h[e].refcount - 0]
      BY <2>1
    <3> QED BY DEF Counted
  <2> HIDE DEF U
  <2> QED BY <2>2, <2>3 DEF Left
<1>4. ASSUME NEW m \in Nat, m < B PROVE Left(h, U(m + 1)) = Counts!rc_free_ref(Left(h, U(m)), es[m + 1])
  <2>1. m + 1 \in 1..B /\ m + 1 \in Nat /\ m + 1 <= B
    BY <1>1, <1>4
  <2>2. ASSUME NEW e \in D
        PROVE  Uses(es, e, m + 1) = Uses(es, e, m) + (IF es[m + 1] = e THEN 1 ELSE 0)
    <3> HIDE DEF U, G, F, Steps
    <3> QED BY UsesStep
  <2>3. es[m + 1] \in D /\ h[es[m + 1]].refcount \in Nat
    BY <1>1, <2>1 DEF Counted
  <2>4. PICK x \in D : x = es[m + 1]
    BY <2>3
  <2>5. /\ Uses(es, x, m + 1) <= Uses(es, x, B)
        /\ Uses(es, x, m + 1) \in Nat /\ Uses(es, x, m) \in Nat /\ Uses(es, x, B) \in Nat
    BY <1>1, <2>1, UsesGrow, UsesStep
  <2>6. Uses(es, x, m) < h[x].refcount
    BY <2>2, <2>3, <2>4, <2>5
  <2>7. U(m)[x] < h[x].refcount
    BY <2>6
  <2>8. U(m + 1) = [e \in D |-> U(m)[e] + (IF x = e THEN 1 ELSE 0)]
    BY <2>2, <2>4
  <2>9. U(m) \in [D -> Nat]
    BY <1>2
  <2>10. Counts!rc_free_ref(Left(h, U(m)), x) = Left(h, [e \in D |-> U(m)[e] + (IF x = e THEN 1 ELSE 0)])
    <3>1. ASSUME NEW c \in [D -> Nat], c[x] < h[x].refcount
          PROVE  Counts!rc_free_ref(Left(h, c), x) = Left(h, [e \in D |-> c[e] + (IF x = e THEN 1 ELSE 0)])
      <4> HIDE DEF U, G, F, Steps
      <4> QED BY <3>1, LeftStep
    <3> HIDE DEF U
    <3> QED BY <2>7, <2>9, <3>1
  <2> HIDE DEF U
  <2> QED BY <2>4, <2>8, <2>10
<1>5. G = [k \in 0..B |-> Left(h, U(k))] /\ \A k \in 0..B : G[k] = Left(h, U(k))
  OBVIOUS
<1>6. Steps(G)
  <2>1. \A k \in 0..B : G[k] = IF k = 0 THEN h ELSE Counts!rc_free_ref(G[k - 1], es[k])
    <3> SUFFICES ASSUME NEW k \in 0..B PROVE Left(h, U(k)) = IF k = 0 THEN h ELSE Counts!rc_free_ref(G[k - 1], es[k])
      BY <1>5
    <3>1. CASE k = 0
      BY <1>3, <3>1
    <3>2. CASE k # 0
      <4>1. PICK m \in Nat : k = m + 1
        BY <1>1, <3>2
      <4>2. m < B /\ m \in 0..B /\ k - 1 = m
        BY <1>1, <4>1
      <4>3. G[k - 1] = Left(h, U(m))
        BY <1>5, <4>2
      <4> HIDE DEF U, G
      <4> QED BY <1>4, <3>2, <4>1, <4>2, <4>3
    <3> QED BY <3>1, <3>2
  <2>2. G = [k \in 0..B |-> G[k]]
    OBVIOUS
  <2> HIDE DEF G
  <2> QED BY <2>1, <2>2
<1>7. Steps(F)
  <2> HIDE DEF Steps, G
  <2> QED BY <1>6
<1>8. Leaving(h, es, B)[B] = F[B]
  BY DEF Leaving
<1> DEFINE Same == {m \in Nat : m <= B => F[m] = G[m]}
<1>9. \A m \in Nat : m \in Same
  <2> HIDE DEF F, G
  <2>0. \A k \in 0..B : F[k] = IF k = 0 THEN h ELSE Counts!rc_free_ref(F[k - 1], es[k])
    BY <1>7
  <2>00. \A k \in 0..B : G[k] = IF k = 0 THEN h ELSE Counts!rc_free_ref(G[k - 1], es[k])
    BY <1>6
  <2>1. 0 \in Same
    BY <1>1, <2>0, <2>00
  <2>2. ASSUME NEW m \in Nat, m \in Same PROVE m + 1 \in Same
    <3> SUFFICES ASSUME m + 1 <= B PROVE F[m + 1] = G[m + 1]
      OBVIOUS
    <3>1. m + 1 \in 0..B /\ m + 1 # 0 /\ (m + 1) - 1 = m /\ m <= B
      BY <1>1
    <3>2. F[m] = G[m]
      BY <2>2, <3>1
    <3> QED BY <2>0, <2>00, <3>1, <3>2
  <2> HIDE DEF Same
  <2> QED BY <2>1, <2>2, Upward
<1>10. F[B] = G[B] /\ G[B] = Left(h, U(B))
  <2> HIDE DEF F, G, U
  <2> QED BY <1>1, <1>5, <1>9
<1> HIDE DEF F, G
<1> QED BY <1>8, <1>10

(* list_delete and tree_delete give back a reference to each of a sequence of elements. *)
LEMMA ReleasedLeft ==
  ASSUME NEW D, NEW h \in [D -> Counted], NEW B \in Nat, NEW es, \A k \in 1..B : es[k] \in D,
         \A e \in D : Uses(es, e, B) <= h[e].refcount /\ 0 < h[e].refcount
  PROVE  Len(es) = B => Counts!Released(h, es) = Left(h, [e \in D |-> Uses(es, e, B)])
<1>1. Leaving(h, es, B)[B] = Left(h, [e \in D |-> Uses(es, e, B)])
  BY LeavingLeft
<1> DEFINE l == Left(h, [e \in D |-> Uses(es, e, B)])
<1>2. SUFFICES ASSUME Len(es) = B PROVE Counts!Released(h, es) = Leaving(h, es, B)[B]
  BY <1>1
<1> QED BY <1>2 DEF Counts!Released, Leaving

Link == Nodes \cup {NULL}

(* A node of the list, with an element of D. *)
ListNode(D) == [elem : D, prev : Link, next : Link]

(* A node of the list changes one of its links. *)
WithNext(f, x, v) == [f EXCEPT ![x].next = v]
WithPrev(f, x, v) == [f EXCEPT ![x].prev = v]

(* One link changes, and nothing else does. *)
LEMMA NextLinked ==
  ASSUME NEW D, NEW S, NEW f \in [S -> ListNode(D)], NEW x \in S, NEW v \in Link
  PROVE  /\ WithNext(f, x, v) \in [S -> ListNode(D)]
         /\ \A y \in S : y # x => WithNext(f, x, v)[y] = f[y]
         /\ WithNext(f, x, v)[x] = [elem |-> f[x].elem, prev |-> f[x].prev, next |-> v]
<1>1. f[x] = [elem |-> f[x].elem, prev |-> f[x].prev, next |-> f[x].next]
      /\ f[x].elem \in D /\ f[x].prev \in Link /\ f[x].next \in Link
  BY DEF ListNode
<1>2. [f[x] EXCEPT !.next = v] = [elem |-> f[x].elem, prev |-> f[x].prev, next |-> v]
  BY <1>1
<1>3. WithNext(f, x, v) = [y \in S |-> IF y = x THEN [f[x] EXCEPT !.next = v] ELSE f[y]]
  BY DEF WithNext
<1> QED BY <1>1, <1>2, <1>3 DEF ListNode

LEMMA PrevLinked ==
  ASSUME NEW D, NEW S, NEW f \in [S -> ListNode(D)], NEW x \in S, NEW v \in Link
  PROVE  /\ WithPrev(f, x, v) \in [S -> ListNode(D)]
         /\ \A y \in S : y # x => WithPrev(f, x, v)[y] = f[y]
         /\ WithPrev(f, x, v)[x] = [elem |-> f[x].elem, prev |-> v, next |-> f[x].next]
<1>1. f[x] = [elem |-> f[x].elem, prev |-> f[x].prev, next |-> f[x].next]
      /\ f[x].elem \in D /\ f[x].prev \in Link /\ f[x].next \in Link
  BY DEF ListNode
<1>2. [f[x] EXCEPT !.prev = v] = [elem |-> f[x].elem, prev |-> v, next |-> f[x].next]
  BY <1>1
<1>3. WithPrev(f, x, v) = [y \in S |-> IF y = x THEN [f[x] EXCEPT !.prev = v] ELSE f[y]]
  BY DEF WithPrev
<1> QED BY <1>1, <1>2, <1>3 DEF ListNode

(* The nodes of the list l, from its head on, are s[1], ..., s[B], each once. *)
Chain(l, s, B) ==
  /\ s \in [1..B -> Nodes]
  /\ \A k, m \in 1..B : s[k] = s[m] => k = m
  /\ \A x : x \in DOMAIN l.node <=> \E k \in 1..B : s[k] = x
  /\ l.head = IF B = 0 THEN NULL ELSE s[1]
  /\ l.tail = IF B = 0 THEN NULL ELSE s[B]
  /\ \A k \in 1..B : /\ l.node[s[k]].prev = IF k = 1 THEN NULL ELSE s[k - 1]
                     /\ l.node[s[k]].next = IF k = B THEN NULL ELSE s[k + 1]

(* list_add_element, on the fields of the list: a new tail, and the old one linked to it. *)
Extended(l, x, e, l2) ==
  /\ l2.head = IF l.head = NULL THEN x ELSE l.head
  /\ l2.tail = x
  /\ DOMAIN l2.node = DOMAIN l.node \cup {x}
  /\ l2.node[x].elem = e /\ l2.node[x].prev = l.tail /\ l2.node[x].next = NULL
  /\ \A y \in DOMAIN l.node : /\ l2.node[y].elem = l.node[y].elem
                              /\ l2.node[y].prev = l.node[y].prev
                              /\ l2.node[y].next = IF y = l.tail THEN x ELSE l.node[y].next

(* list_add_element does that ... *)
LEMMA AddExtends ==
  ASSUME NEW D, NEW l, NEW B \in Nat, NEW s, Chain(l, s, B), l.node \in [DOMAIN l.node -> ListNode(D)],
         NEW e \in D, NEW x \in Nodes \ DOMAIN l.node, NULL \notin Nodes,
         NEW new, new = Counts!With(l.node, x, [elem |-> e, prev |-> l.tail, next |-> NULL]),
         NEW l2, NEW g, g = WithNext(new, l.tail, x),
         l2 = IF l.head = NULL THEN [head |-> x, tail |-> x, node |-> new]
              ELSE [head |-> l.head, tail |-> x, node |-> g]
  PROVE  Extended(l, x, e, l2) /\ l2.node \in [DOMAIN l2.node -> ListNode(D)]
<1> DEFINE S == DOMAIN l.node \cup {x}
<1>1. /\ \A y : y \in DOMAIN l.node <=> \E k \in 1..B : s[k] = y
      /\ l.head = IF B = 0 THEN NULL ELSE s[1]
      /\ l.tail = IF B = 0 THEN NULL ELSE s[B]
      /\ \A k \in 1..B : s[k] \in Nodes
  BY DEF Chain
<1>2. l.tail \in Link /\ (B # 0 => l.tail \in DOMAIN l.node) /\ (l.head = NULL <=> B = 0)
  BY <1>1 DEF Link
<1>3. [elem |-> e, prev |-> l.tail, next |-> NULL] \in ListNode(D)
  BY <1>2 DEF ListNode, Link
<1>4. new \in [S -> ListNode(D)]
  BY <1>3 DEF Counts!With
<1>5. new[x] = [elem |-> e, prev |-> l.tail, next |-> NULL] /\ \A y \in DOMAIN l.node : new[y] = l.node[y]
  BY DEF Counts!With
<1>6. CASE B = 0
  <2>1. DOMAIN l.node = {}
    BY <1>1, <1>6
  <2>2. l2 = [head |-> x, tail |-> x, node |-> new] /\ l.head = NULL
    BY <1>2, <1>6
  <2>3. new \in [{x} -> ListNode(D)] /\ DOMAIN new = {x}
    BY <1>4, <2>1
  <2>4. l2.head = x /\ l2.tail = x /\ l2.node = new
    BY <2>2
  <2> QED BY <1>5, <2>1, <2>2, <2>3, <2>4 DEF Extended
<1>7. CASE B # 0
  <2>1. l.tail \in S /\ l.tail # x /\ x \in Link
    BY <1>2, <1>7 DEF Link
  <2>2. g \in [S -> ListNode(D)] /\ (\A y \in S : y # l.tail => g[y] = new[y])
        /\ g[l.tail] = [elem |-> new[l.tail].elem, prev |-> new[l.tail].prev, next |-> x]
    <3> HIDE DEF S
    <3>1. ASSUME NEW f \in [S -> ListNode(D)], NEW y \in S
          PROVE  /\ WithNext(f, y, x) \in [S -> ListNode(D)]
                 /\ \A z \in S : z # y => WithNext(f, y, x)[z] = f[z]
                 /\ WithNext(f, y, x)[y] = [elem |-> f[y].elem, prev |-> f[y].prev, next |-> x]
      BY <2>1, NextLinked
    <3> QED BY <1>4, <2>1, <3>1
  <2>3. l2 = [head |-> l.head, tail |-> x, node |-> g] /\ l.head # NULL
    BY <1>2, <1>7
  <2>4. g[l.tail] = [elem |-> l.node[l.tail].elem, prev |-> l.node[l.tail].prev, next |-> x]
    BY <1>2, <1>5, <1>7, <2>2
  <2>5. g[x] = [elem |-> e, prev |-> l.tail, next |-> NULL] /\ DOMAIN g = S
    BY <1>5, <2>1, <2>2
  <2>6. \A y \in DOMAIN l.node : y # l.tail => g[y] = l.node[y]
    BY <1>5, <2>2
  <2>7. l2.head = l.head /\ l2.tail = x /\ l2.node = g
    BY <2>3
  <2>8. DOMAIN l2.node = DOMAIN l.node \cup {x} /\ l2.node \in [DOMAIN l2.node -> ListNode(D)]
    BY <2>2, <2>5, <2>7
  <2>9. l2.node[x].elem = e /\ l2.node[x].prev = l.tail /\ l2.node[x].next = NULL
    BY <2>5, <2>7
  <2>10. ASSUME NEW y \in DOMAIN l.node
         PROVE  /\ l2.node[y].elem = l.node[y].elem
                /\ l2.node[y].prev = l.node[y].prev
                /\ l2.node[y].next = IF y = l.tail THEN x ELSE l.node[y].next
    BY <2>4, <2>6, <2>7
  <2> HIDE DEF S
  <2> QED BY <2>3, <2>7, <2>8, <2>9, <2>10 DEF Extended
<1> QED BY <1>6, <1>7

(* What makes a chain of B nodes. *)
LEMMA IsChain ==
  ASSUME NEW l, NEW B, NEW s \in [1..B -> Nodes],
         \A k, m \in 1..B : s[k] = s[m] => k = m,
         \A x : x \in DOMAIN l.node <=> \E k \in 1..B : s[k] = x,
         l.head = IF B = 0 THEN NULL ELSE s[1],
         l.tail = IF B = 0 THEN NULL ELSE s[B],
         \A k \in 1..B : /\ l.node[s[k]].prev = IF k = 1 THEN NULL ELSE s[k - 1]
                         /\ l.node[s[k]].next = IF k = B THEN NULL ELSE s[k + 1]
  PROVE  Chain(l, s, B)
BY DEF Chain

(* ... and what it does makes the chain longer by the new node. *)
LEMMA ChainAdd ==
  ASSUME NEW l, NEW B \in Nat, NEW s, Chain(l, s, B), NEW x \in Nodes \ DOMAIN l.node, NULL \notin Nodes,
         NEW e, NEW l2, Extended(l, x, e, l2),
         NEW a \in [1..(B + 1) -> Nodes], a[B + 1] = x, \A k \in 1..B : a[k] = s[k]
  PROVE  Chain(l2, a, B + 1)
<1>1. /\ \A k, m \in 1..B : s[k] = s[m] => k = m
      /\ \A y : y \in DOMAIN l.node <=> \E k \in 1..B : s[k] = y
      /\ l.head = IF B = 0 THEN NULL ELSE s[1]
      /\ l.tail = IF B = 0 THEN NULL ELSE s[B]
      /\ \A k \in 1..B : s[k] \in Nodes
      /\ \A k \in 1..B : /\ l.node[s[k]].prev = IF k = 1 THEN NULL ELSE s[k - 1]
                         /\ l.node[s[k]].next = IF k = B THEN NULL ELSE s[k + 1]
  BY DEF Chain
<1>2. l.head = NULL <=> B = 0
  BY <1>1
<1>3. /\ l2.head = IF B = 0 THEN x ELSE s[1]
      /\ l2.tail = x
      /\ DOMAIN l2.node = DOMAIN l.node \cup {x}
      /\ l2.node[x].elem = e /\ l2.node[x].prev = l.tail /\ l2.node[x].next = NULL
      /\ \A y \in DOMAIN l.node : /\ l2.node[y].elem = l.node[y].elem
                                  /\ l2.node[y].prev = l.node[y].prev
                                  /\ l2.node[y].next = IF y = l.tail THEN x ELSE l.node[y].next
  BY <1>1, <1>2 DEF Extended
<1>4. ASSUME NEW k \in 1..(B + 1)
      PROVE  /\ l2.node[a[k]].prev = IF k = 1 THEN NULL ELSE a[k - 1]
             /\ l2.node[a[k]].next = IF k = B + 1 THEN NULL ELSE a[k + 1]
  <2>1. CASE k = B + 1
    <3>1. k = 1 <=> B = 0
      BY <2>1
    <3>2. k # 1 => k - 1 = B /\ B \in 1..B
      BY <2>1
    <3> QED BY <1>1, <1>3, <2>1, <3>1, <3>2
  <2>2. CASE k # B + 1
    <3>1. k \in 1..B /\ a[k] = s[k] /\ s[k] \in DOMAIN l.node
      BY <1>1, <2>2
    <3>2. s[k] = l.tail <=> k = B
      BY <1>1, <3>1
    <3>3. k # 1 => k - 1 \in 1..B
      BY <3>1
    <3>4. k # B => k + 1 \in 1..B
      BY <3>1
    <3>5. l2.node[s[k]].prev = l.node[s[k]].prev
          /\ l2.node[s[k]].next = IF k = B THEN x ELSE l.node[s[k]].next
      BY <1>3, <3>1, <3>2
    <3>6. l2.node[a[k]].prev = IF k = 1 THEN NULL ELSE a[k - 1]
      BY <1>1, <3>1, <3>3, <3>5
    <3>7. l2.node[a[k]].next = IF k = B + 1 THEN NULL ELSE a[k + 1]
      BY <1>1, <2>2, <3>1, <3>4, <3>5
    <3> QED BY <3>6, <3>7
  <2> QED BY <2>1, <2>2
<1>5. \A y : y \in DOMAIN l2.node <=> \E k \in 1..(B + 1) : a[k] = y
  <2>1. \A k \in 1..(B + 1) : k \in 1..B \/ k = B + 1
    OBVIOUS
  <2>2. \A k \in 1..B : k \in 1..(B + 1)
    OBVIOUS
  <2>3. B + 1 \in 1..(B + 1)
    OBVIOUS
  <2>4. ASSUME NEW y \in DOMAIN l2.node PROVE \E k \in 1..(B + 1) : a[k] = y
    BY <1>1, <1>3, <2>2, <2>3
  <2>5. ASSUME NEW k \in 1..(B + 1) PROVE a[k] \in DOMAIN l2.node
    BY <1>1, <1>3, <2>1
  <2> QED BY <2>4, <2>5
<1>6. \A k, m \in 1..(B + 1) : a[k] = a[m] => k = m
  <2>1. \A k \in 1..(B + 1) : k \in 1..B \/ k = B + 1
    OBVIOUS
  <2>2. \A k \in 1..B : s[k] # x /\ a[k] = s[k]
    BY <1>1
  <2>3. a[B + 1] = x /\ \A k, m \in 1..B : s[k] = s[m] => k = m
    BY <1>1 DEF Chain
  <2> QED BY <2>1, <2>2, <2>3
<1>7. a[1] = IF B = 0 THEN x ELSE s[1]
  OBVIOUS
<1>8. B + 1 # 0 /\ l2.head = a[1] /\ l2.tail = a[B + 1]
  BY <1>3, <1>7
<1>9. PICK C : C = B + 1
  OBVIOUS
<1>10. a \in [1..C -> Nodes] /\ C # 0 /\ l2.head = a[1] /\ l2.tail = a[C]
  BY <1>8, <1>9
<1>11. \A k, m \in 1..C : a[k] = a[m] => k = m
  BY <1>6, <1>9
<1>12. \A y : y \in DOMAIN l2.node <=> \E k \in 1..C : a[k] = y
  BY <1>5, <1>9
<1>13. \A k \in 1..C : /\ l2.node[a[k]].prev = IF k = 1 THEN NULL ELSE a[k - 1]
                      /\ l2.node[a[k]].next = IF k = C THEN NULL ELSE a[k + 1]
  BY <1>4, <1>9
<1>14. Chain(l2, a, C)
  BY <1>10, <1>11, <1>12, <1>13, IsChain
<1> QED BY <1>9, <1>14

(* list_delete_element, on the fields of the list: the neighbours of the node are linked to
   each other. *)
Cut(l, x, l2) ==
  /\ l2.head = IF x = l.head THEN l.node[x].next ELSE l.head
  /\ l2.tail = IF x = l.tail THEN l.node[x].prev ELSE l.tail
  /\ DOMAIN l2.node = DOMAIN l.node \ {x}
  /\ \A y \in DOMAIN l.node \ {x} :
       /\ l2.node[y].elem = l.node[y].elem
       /\ l2.node[y].next = IF x # l.head /\ y = l.node[x].prev THEN l.node[x].next ELSE l.node[y].next
       /\ l2.node[y].prev = IF x # l.tail /\ y = l.node[x].next THEN l.node[x].prev ELSE l.node[y].prev

(* The unlinking does that ... *)
LEMMA UnlinkCuts ==
  ASSUME NEW D, NEW l, NEW S, NEW f \in [S -> ListNode(D)], l.node = f, NEW x \in S,
         x # l.head => f[x].prev \in S, x # l.tail => f[x].next \in S
  PROVE  Cut(l, x, Counts!Unlinked(l, x)) /\ Counts!Unlinked(l, x).node \in [S \ {x} -> ListNode(D)]
<1> DEFINE p == f[x].prev
           q == f[x].next
           forward == IF x = l.head THEN f ELSE WithNext(f, p, q)
           both == IF x = l.tail THEN forward ELSE WithPrev(forward, q, p)
<1>1. p \in Link /\ q \in Link
  BY DEF ListNode
<1>2. /\ forward \in [S -> ListNode(D)]
      /\ \A y \in S : /\ forward[y].elem = f[y].elem
                      /\ forward[y].prev = f[y].prev
                      /\ forward[y].next = IF x # l.head /\ y = p THEN q ELSE f[y].next
  <2>1. CASE x = l.head
    BY <2>1
  <2>2. CASE x # l.head
    <3>1. p \in S
      BY <2>2
    <3>2. /\ WithNext(f, p, q) \in [S -> ListNode(D)]
          /\ \A y \in S : y # p => WithNext(f, p, q)[y] = f[y]
          /\ WithNext(f, p, q)[p] = [elem |-> f[p].elem, prev |-> f[p].prev, next |-> q]
      <4> HIDE DEF p, q
      <4> QED BY <1>1, <3>1, NextLinked
    <3>3. forward = WithNext(f, p, q)
      BY <2>2
    <3> HIDE DEF p, q, forward
    <3>4. forward[p].elem = f[p].elem /\ forward[p].prev = f[p].prev /\ forward[p].next = q
      BY <3>2, <3>3
    <3> QED BY <2>2, <3>2, <3>3, <3>4
  <2> QED BY <2>1, <2>2
<1>3. /\ both \in [S -> ListNode(D)]
      /\ \A y \in S : /\ both[y].elem = forward[y].elem
                      /\ both[y].next = forward[y].next
                      /\ both[y].prev = IF x # l.tail /\ y = q THEN p ELSE forward[y].prev
  <2>1. CASE x = l.tail
    BY <1>2, <2>1
  <2>2. CASE x # l.tail
    <3>1. q \in S
      BY <2>2
    <3>2. /\ WithPrev(forward, q, p) \in [S -> ListNode(D)]
          /\ \A y \in S : y # q => WithPrev(forward, q, p)[y] = forward[y]
          /\ WithPrev(forward, q, p)[q] = [elem |-> forward[q].elem, prev |-> p, next |-> forward[q].next]
      <4> HIDE DEF p, q, forward
      <4> QED BY <1>1, <1>2, <3>1, PrevLinked
    <3>3. both = WithPrev(forward, q, p)
      BY <2>2
    <3> HIDE DEF p, q, forward, both
    <3>4. both[q].elem = forward[q].elem /\ both[q].next = forward[q].next /\ both[q].prev = p
      BY <3>2, <3>3
    <3> QED BY <2>2, <3>2, <3>3, <3>4
  <2> HIDE DEF both
  <2> QED BY <2>1, <2>2
<1>4. Counts!Unlinked(l, x) = [head |-> IF x = l.head THEN q ELSE l.head,
                               tail |-> IF x = l.tail THEN p ELSE l.tail,
                               node |-> Counts!Without(both, x)]
  BY DEF Counts!Unlinked, WithNext, WithPrev
<1> HIDE DEF p, q, forward, both
<1>5. PICK l2 : l2 = Counts!Unlinked(l, x)
  OBVIOUS
<1>6. /\ l2.head = IF x = l.head THEN q ELSE l.head
      /\ l2.tail = IF x = l.tail THEN p ELSE l.tail
      /\ l2.node = Counts!Without(both, x)
  BY <1>4, <1>5
<1>7. l2.node = [y \in S \ {x} |-> both[y]]
  BY <1>3, <1>6 DEF Counts!Without
<1>8. l2.node \in [S \ {x} -> ListNode(D)]
  BY <1>3, <1>7
<1>9. \A y \in S \ {x} : l2.node[y] = both[y]
  BY <1>7
<1>10. Cut(l, x, l2)
  BY <1>2, <1>3, <1>6, <1>8, <1>9 DEF Cut, p, q
<1> QED BY <1>5, <1>8, <1>10

(* ... and leaves the chain without the node, wherever it was. *)
LEMMA ChainCut ==
  ASSUME NEW l, NEW B \in Nat, NEW s, Chain(l, s, B), NULL \notin Nodes, NEW c \in 1..B,
         NEW l2, Cut(l, s[c], l2), NEW a \in [1..(B - 1) -> Nodes],
         \A k \in 1..(B - 1) : a[k] = IF k < c THEN s[k] ELSE s[k + 1]
  PROVE  Chain(l2, a, B - 1)
<1>1. /\ \A k, m \in 1..B : s[k] = s[m] => k = m
      /\ \A y : y \in DOMAIN l.node <=> \E k \in 1..B : s[k] = y
      /\ l.head = s[1] /\ l.tail = s[B]
      /\ \A k \in 1..B : s[k] \in Nodes
      /\ \A k \in 1..B : /\ l.node[s[k]].prev = IF k = 1 THEN NULL ELSE s[k - 1]
                         /\ l.node[s[k]].next = IF k = B THEN NULL ELSE s[k + 1]
  <2>1. B # 0
    OBVIOUS
  <2>2. l.head = s[1] /\ l.tail = s[B]
    BY <2>1 DEF Chain
  <2> QED BY <2>2 DEF Chain
<1>2. PICK x : x = s[c]
  OBVIOUS
<1>3. 1 \in 1..B /\ B \in 1..B /\ B - 1 \in Nat
  OBVIOUS
<1>4. (x = l.head <=> c = 1) /\ (x = l.tail <=> c = B)
  BY <1>1, <1>2, <1>3
<1>5. /\ l.node[x].prev = IF c = 1 THEN NULL ELSE s[c - 1]
      /\ l.node[x].next = IF c = B THEN NULL ELSE s[c + 1]
  BY <1>1, <1>2
<1>6. /\ l2.head = IF c = 1 THEN IF c = B THEN NULL ELSE s[c + 1] ELSE s[1]
      /\ l2.tail = IF c = B THEN IF c = 1 THEN NULL ELSE s[c - 1] ELSE s[B]
      /\ DOMAIN l2.node = DOMAIN l.node \ {x}
  BY <1>1, <1>2, <1>4, <1>5 DEF Cut
<1>7. ASSUME NEW k \in 1..B, k # c
      PROVE  /\ l2.node[s[k]].next = IF k = c - 1 THEN (IF c = B THEN NULL ELSE s[c + 1])
                                     ELSE IF k = B THEN NULL ELSE s[k + 1]
             /\ l2.node[s[k]].prev = IF k = c + 1 THEN (IF c = 1 THEN NULL ELSE s[c - 1])
                                     ELSE IF k = 1 THEN NULL ELSE s[k - 1]
  <2>1. s[k] \in DOMAIN l.node \ {x}
    BY <1>1, <1>2, <1>7
  <2>2. c # 1 => (s[k] = l.node[x].prev <=> k = c - 1)
    <3>1. c # 1 => c - 1 \in 1..B
      OBVIOUS
    <3> QED BY <1>1, <1>5, <3>1
  <2>3. c # B => (s[k] = l.node[x].next <=> k = c + 1)
    <3>1. c # B => c + 1 \in 1..B
      OBVIOUS
    <3> QED BY <1>1, <1>5, <3>1
  <2>4. c = 1 => k # c - 1
    OBVIOUS
  <2>5. c = B => k # c + 1
    OBVIOUS
  <2>6. /\ l2.node[s[k]].next = IF x # l.head /\ s[k] = l.node[x].prev THEN l.node[x].next ELSE l.node[s[k]].next
        /\ l2.node[s[k]].prev = IF x # l.tail /\ s[k] = l.node[x].next THEN l.node[x].prev ELSE l.node[s[k]].prev
    BY <1>2, <2>1 DEF Cut
  <2>7. /\ l.node[s[k]].prev = IF k = 1 THEN NULL ELSE s[k - 1]
        /\ l.node[s[k]].next = IF k = B THEN NULL ELSE s[k + 1]
    BY <1>1
  <2>8. l2.node[s[k]].next = IF k = c - 1 THEN (IF c = B THEN NULL ELSE s[c + 1])
                             ELSE IF k = B THEN NULL ELSE s[k + 1]
    BY <1>4, <1>5, <2>2, <2>4, <2>6, <2>7
  <2>9. l2.node[s[k]].prev = IF k = c + 1 THEN (IF c = 1 THEN NULL ELSE s[c - 1])
                             ELSE IF k = 1 THEN NULL ELSE s[k - 1]
    BY <1>4, <1>5, <2>3, <2>5, <2>6, <2>7
  <2> QED BY <2>8, <2>9
<1>8. ASSUME NEW k \in 1..(B - 1)
      PROVE  /\ l2.node[a[k]].prev = IF k = 1 THEN NULL ELSE a[k - 1]
             /\ l2.node[a[k]].next = IF k = B - 1 THEN NULL ELSE a[k + 1]
  <2>1. CASE k < c
    <3>1. k \in 1..B /\ k # c /\ k # B /\ k # c + 1 /\ a[k] = s[k]
      BY <2>1
    <3>2. k # 1 => a[k - 1] = s[k - 1]
      <4>1. k # 1 => k - 1 \in 1..(B - 1) /\ k - 1 < c
        BY <2>1
      <4> QED BY <4>1
    <3>3. ASSUME k # B - 1 PROVE a[k + 1] = IF k = c - 1 THEN s[c + 1] ELSE s[k + 1]
      <4>1. k + 1 \in 1..(B - 1) /\ (k + 1 < c <=> k # c - 1) /\ (k = c - 1 => k + 1 = c)
        BY <2>1, <3>3
      <4>2. a[k + 1] = IF k + 1 < c THEN s[k + 1] ELSE s[(k + 1) + 1]
        BY <4>1
      <4> QED BY <4>1, <4>2
    <3>4. k = c - 1 => (c = B <=> k = B - 1)
      OBVIOUS
    <3>5. k = B - 1 => k = c - 1
      BY <2>1
    <3>6. /\ l2.node[s[k]].next = IF k = c - 1 THEN (IF c = B THEN NULL ELSE s[c + 1]) ELSE s[k + 1]
          /\ l2.node[s[k]].prev = IF k = 1 THEN NULL ELSE s[k - 1]
      BY <1>7, <3>1
    <3> QED BY <3>1, <3>2, <3>3, <3>4, <3>5, <3>6
  <2>2. CASE k >= c
    <3>1. PICK m \in 1..B : m = k + 1
      OBVIOUS
    <3>2. m # c /\ m # c - 1 /\ m # 1 /\ m - 1 = k /\ a[k] = s[m] /\ (m = B <=> k = B - 1) /\ (m = c + 1 <=> k = c)
      BY <2>2, <3>1
    <3>3. k # B - 1 => a[k + 1] = s[m + 1]
      <4>1. k # B - 1 => k + 1 \in 1..(B - 1) /\ ~(k + 1 < c)
        BY <2>2
      <4> QED BY <3>1, <4>1
    <3>4. ASSUME k # 1 PROVE a[k - 1] = IF k = c THEN s[c - 1] ELSE s[k]
      <4>1. k - 1 \in 1..(B - 1) /\ (k - 1 < c <=> k = c) /\ (k - 1) + 1 = k
        BY <2>2, <3>4
      <4> QED BY <4>1
    <3>5. /\ l2.node[s[m]].next = IF m = B THEN NULL ELSE s[m + 1]
          /\ l2.node[s[m]].prev = IF m = c + 1 THEN (IF c = 1 THEN NULL ELSE s[c - 1]) ELSE s[m - 1]
      BY <1>7, <3>2
    <3>6. k = 1 => c = 1 /\ k = c
      BY <2>2
    <3> QED BY <3>2, <3>3, <3>4, <3>5, <3>6
  <2> QED BY <2>1, <2>2
<1>9. \A y : y \in DOMAIN l2.node <=> \E k \in 1..(B - 1) : a[k] = y
  <2>1. ASSUME NEW y \in DOMAIN l2.node PROVE \E k \in 1..(B - 1) : a[k] = y
    <3>1. PICK k \in 1..B : s[k] = y /\ k # c
      BY <1>1, <1>2, <1>6
    <3>2. CASE k < c
      <4>1. k \in 1..(B - 1)
        BY <3>2
      <4> QED BY <3>1, <3>2, <4>1
    <3>3. CASE k > c
      <4>1. k - 1 \in 1..(B - 1) /\ ~(k - 1 < c) /\ (k - 1) + 1 = k
        BY <3>3
      <4> QED BY <3>1, <4>1
    <3> QED BY <3>1, <3>2, <3>3
  <2>2. ASSUME NEW k \in 1..(B - 1) PROVE a[k] \in DOMAIN l2.node
    <3>1. PICK m \in 1..B : a[k] = s[m] /\ m # c
      <4>1. k \in 1..B /\ k + 1 \in 1..B /\ (k < c => k # c) /\ (~(k < c) => k + 1 # c)
        OBVIOUS
      <4> QED BY <4>1
    <3> QED BY <1>1, <1>2, <1>6, <3>1
  <2> QED BY <2>1, <2>2
<1>10. ASSUME NEW k \in 1..(B - 1), NEW m \in 1..(B - 1), a[k] = a[m] PROVE k = m
  <2>1. PICK k2 \in 1..B, m2 \in 1..B : /\ k2 = IF k < c THEN k ELSE k + 1
                                        /\ m2 = IF m < c THEN m ELSE m + 1
    OBVIOUS
  <2>2. a[k] = s[k2] /\ a[m] = s[m2]
    BY <2>1
  <2>3. s[k2] = s[m2]
    BY <1>10, <2>2
  <2>4. k2 = m2
    BY <1>1, <2>3
  <2> QED BY <2>1, <2>4
<1>11. l2.head = IF B - 1 = 0 THEN NULL ELSE a[1]
  <2>1. CASE B = 1
    BY <1>6, <2>1
  <2>2. CASE B # 1
    <3>1. 1 \in 1..(B - 1) /\ (1 < c <=> c # 1)
      BY <2>2
    <3> QED BY <1>6, <2>2, <3>1
  <2> QED BY <2>1, <2>2
<1>12. l2.tail = IF B - 1 = 0 THEN NULL ELSE a[B - 1]
  <2>1. CASE B = 1
    BY <1>6, <2>1
  <2>2. CASE B # 1
    <3>1. B - 1 \in 1..(B - 1) /\ (B - 1 < c <=> c = B) /\ (B - 1) + 1 = B
      BY <2>2
    <3>2. a[B - 1] = IF c = B THEN s[c - 1] ELSE s[B]
      BY <3>1
    <3> QED BY <1>6, <2>2, <3>2
  <2> QED BY <2>1, <2>2
<1> QED BY <1>3, <1>8, <1>9, <1>10, <1>11, <1>12 DEF Chain

(* The instance has its own names for what the library defines. *)
LEMMA SameCardinality == \A S : Counts!Cardinality(S) = Cardinality(S) /\ (Counts!IsFiniteSet(S) <=> IsFiniteSet(S))
<1> SUFFICES ASSUME NEW S
             PROVE  Counts!Cardinality(S) = Cardinality(S) /\ (Counts!IsFiniteSet(S) <=> IsFiniteSet(S))
  OBVIOUS
<1>1. Counts!Cardinality(S) = Cardinality(S)
  BY DEF Counts!Cardinality, Cardinality
<1>2. Counts!IsFiniteSet(S) <=> IsFiniteSet(S)
  BY DEF Counts!IsFiniteSet, IsFiniteSet
<1> QED BY <1>1, <1>2

(* A way of one step. *)
LEMMA FirstOf == ASSUME NEW S, NEW s \in Seq(S), s # <<>> PROVE SubSeq(s, 1, 1) = <<s[1]>>
<1>1. Len(s) >= 1 /\ s[1] \in S
  OBVIOUS
<1>2. SubSeq(s, 1, 1) \in Seq(S) /\ Len(SubSeq(s, 1, 1)) = 1 /\ SubSeq(s, 1, 1)[1] = s[1]
  BY <1>1
<1>3. PICK v \in S : v = s[1]
  BY <1>1
<1>4. <<v>> \in Seq(S) /\ Len(<<v>>) = 1 /\ <<v>>[1] = v
  OBVIOUS
<1>5. \A a, b \in Seq(S) : Len(a) = 1 /\ Len(b) = 1 /\ a[1] = b[1] => a = b
  OBVIOUS
<1> QED BY <1>2, <1>3, <1>4, <1>5

(* A walk from the head of the list along next. *)
Walking(l, N) ==
  CHOOSE f : f = [k \in 0..N |-> IF k = 0 THEN <<l.head>>
                                 ELSE IF Counts!Last(f[k - 1]) = NULL THEN f[k - 1]
                                      ELSE Append(f[k - 1], l.node[Counts!Last(f[k - 1])].next)]

(* It meets the nodes of the chain in turn, and stays at the end. *)
LEMMA WalkingMeets ==
  ASSUME NEW l, NEW s \in Seq(Nodes), NULL \notin Nodes, NEW N \in Nat, Len(s) <= N,
         l.head = IF s = <<>> THEN NULL ELSE s[1],
         \A k \in 1..Len(s) : l.node[s[k]].next = IF k = Len(s) THEN NULL ELSE s[k + 1]
  PROVE  Walking(l, N)[N] = Append(s, NULL)
<1> DEFINE G == [k \in 0..N |-> IF k < Len(s) THEN SubSeq(s, 1, k + 1) ELSE Append(s, NULL)]
           Going(g) == IF Counts!Last(g) = NULL THEN g ELSE Append(g, l.node[Counts!Last(g)].next)
           Steps(f) == f = [k \in 0..N |-> IF k = 0 THEN <<l.head>> ELSE Going(f[k - 1])]
           F == CHOOSE f : Steps(f)
<1>1. \A k \in 0..N : G[k] = IF k < Len(s) THEN SubSeq(s, 1, k + 1) ELSE Append(s, NULL)
  OBVIOUS
<1>2. G[0] = <<l.head>>
  <2>1. CASE s = <<>>
    <3>1. ~(0 < Len(s)) /\ l.head = NULL /\ Append(s, NULL) = <<NULL>>
      BY <2>1
    <3> QED BY <1>1, <3>1
  <2>2. CASE s # <<>>
    <3>1. 0 < Len(s) /\ SubSeq(s, 1, 1) = <<s[1]>>
      BY <2>2, FirstOf
    <3>2. 0 \in 0..N /\ 0 + 1 = 1
      OBVIOUS
    <3> QED BY <1>1, <2>2, <3>1, <3>2
  <2> QED BY <2>1, <2>2
<1>3. ASSUME NEW k \in Nat, k < N PROVE G[k + 1] = Going(G[k])
  <2>1. k \in 0..N /\ k + 1 \in 0..N
    BY <1>3
  <2>2. CASE k + 1 < Len(s)
    <3>1. G[k] = SubSeq(s, 1, k + 1) /\ G[k + 1] = SubSeq(s, 1, (k + 1) + 1)
      BY <1>1, <2>1, <2>2
    <3>2. SubSeq(s, 1, k + 1)[Len(SubSeq(s, 1, k + 1))] = s[k + 1] /\ s[k + 1] \in Nodes
      BY <2>2
    <3>3. Counts!Last(G[k]) = s[k + 1]
      BY <3>1, <3>2 DEF Counts!Last
    <3>4. l.node[s[k + 1]].next = s[(k + 1) + 1]
      BY <2>2
    <3>5. Append(SubSeq(s, 1, k + 1), s[(k + 1) + 1]) = SubSeq(s, 1, (k + 1) + 1)
      BY <2>2
    <3> HIDE DEF G
    <3> QED BY <3>1, <3>2, <3>3, <3>4, <3>5
  <2>3. CASE k + 1 = Len(s)
    <3>1. G[k] = SubSeq(s, 1, k + 1) /\ G[k + 1] = Append(s, NULL)
      BY <1>1, <2>1, <2>3
    <3>2. SubSeq(s, 1, k + 1) = s /\ s[Len(s)] \in Nodes
      BY <2>3
    <3>3. Counts!Last(G[k]) = s[Len(s)]
      BY <3>1, <3>2 DEF Counts!Last
    <3>4. l.node[s[Len(s)]].next = NULL
      BY <2>3
    <3> HIDE DEF G
    <3> QED BY <3>1, <3>2, <3>3, <3>4
  <2>4. CASE k >= Len(s)
    <3>1. G[k] = Append(s, NULL) /\ G[k + 1] = Append(s, NULL)
      BY <1>1, <2>1, <2>4
    <3>2. Append(s, NULL)[Len(Append(s, NULL))] = NULL
      OBVIOUS
    <3>3. Counts!Last(G[k]) = NULL
      BY <3>1, <3>2 DEF Counts!Last
    <3> HIDE DEF G
    <3> QED BY <3>1, <3>3
  <2>5. Len(s) \in Nat
    OBVIOUS
  <2> QED BY <2>2, <2>3, <2>4, <2>5
<1> HIDE DEF Going
<1>4. Steps(G)
  <2>1. \A k \in 0..N : G[k] = IF k = 0 THEN <<l.head>> ELSE Going(G[k - 1])
    <3> SUFFICES ASSUME NEW k \in 0..N PROVE G[k] = IF k = 0 THEN <<l.head>> ELSE Going(G[k - 1])
      OBVIOUS
    <3> HIDE DEF G
    <3>1. CASE k = 0
      BY <1>2, <3>1
    <3>2. CASE k # 0
      <4>1. k - 1 \in Nat /\ k - 1 < N /\ (k - 1) + 1 = k
        BY <3>2
      <4> QED BY <1>3, <3>2, <4>1
    <3> QED BY <3>1, <3>2
  <2>2. G = [k \in 0..N |-> G[k]]
    OBVIOUS
  <2> HIDE DEF G
  <2> QED BY <2>1, <2>2
<1>5. Steps(F)
  <2> HIDE DEF Steps, G
  <2> QED BY <1>4
<1>6. Walking(l, N) = F
  BY DEF Walking, Going
<1> DEFINE Same == {m \in Nat : m <= N => F[m] = G[m]}
<1>7. \A m \in Nat : m \in Same
  <2> HIDE DEF F, G
  <2>0. \A k \in 0..N : F[k] = IF k = 0 THEN <<l.head>> ELSE Going(F[k - 1])
    BY <1>5
  <2>1. 0 \in Same
    BY <1>2, <2>0
  <2>2. ASSUME NEW m \in Nat, m \in Same PROVE m + 1 \in Same
    <3> SUFFICES ASSUME m + 1 <= N PROVE F[m + 1] = G[m + 1]
      OBVIOUS
    <3>1. m + 1 \in 0..N /\ m + 1 # 0 /\ (m + 1) - 1 = m /\ m < N
      OBVIOUS
    <3>2. F[m] = G[m]
      BY <2>2, <3>1
    <3>3. F[m + 1] = Going(F[m])
      BY <2>0, <3>1
    <3> QED BY <1>3, <3>1, <3>2, <3>3
  <2> HIDE DEF Same
  <2> QED BY <2>1, <2>2, Upward
<1>8. F[N] = G[N]
  <2> HIDE DEF F, G
  <2> QED BY <1>7
<1>9. G[N] = Append(s, NULL)
  BY <1>1
<1> QED BY <1>6, <1>8, <1>9

(* So does the walk of list_delete, which no node can stop early. *)
LEMMA WalkMeets ==
  ASSUME NEW l, NEW s \in Seq(Nodes), CountsAssumption, Len(s) <= Cardinality(Nodes),
         l.head = IF s = <<>> THEN NULL ELSE s[1],
         \A k \in 1..Len(s) : l.node[s[k]].next = IF k = Len(s) THEN NULL ELSE s[k + 1]
  PROVE  Counts!Walk(l) = Append(s, NULL)
<1>1. NULL \notin Nodes /\ Cardinality(Nodes) \in Nat
  <2>1. NULL \notin Nodes /\ IsFiniteSet(Nodes)
    BY SameCardinality DEF CountsAssumption, Counts!CountsAssumption
  <2> QED BY <2>1, FS_CardinalityType
<1>2. Walking(l, Cardinality(Nodes))[Cardinality(Nodes)] = Append(s, NULL)
  BY <1>1, WalkingMeets
<1>3. Counts!Walk(l) = Walking(l, Counts!Cardinality(Nodes))[Counts!Cardinality(Nodes)]
  BY DEF Counts!Walk, Walking
<1> QED BY <1>2, <1>3, SameCardinality

-----------------------------------------------------------------------------
(* The comparisons of the tree depend on what an element is, not on who has it. *)
LEMMA SameCompare ==
  ASSUME NEW a, NEW b, NEW c, NEW d, a.class = c.class, a.value = c.value, b.class = d.class, b.value = d.value
  PROVE  Counts!compare(a, b) = Counts!compare(c, d)
BY DEF Counts!compare, Counts!int_compare, Counts!str_compare, Counts!strcmp,
       Counts!is_int_element, Counts!is_str_element

(* A place of the tree is a sequence of ways down. *)
Ways == {"left", "right"}

LEMMA PlaceIsPath ==
  ASSUME CountsAssumption
  PROVE  \A p : p \in Counts!Places <=> p \in Seq(Ways) /\ Len(p) <= Height - 1
<1>1. Height - 1 \in Nat
  BY DEF CountsAssumption, Counts!CountsAssumption
<1>2. ASSUME NEW p \in Counts!Places PROVE p \in Seq(Ways) /\ Len(p) <= Height - 1
  <2>1. PICK m \in 0..(Height - 1) : p \in [1..m -> Ways]
    BY DEF Counts!Places, Counts!SeqOf, Ways
  <2> QED BY <1>1, <2>1
<1>3. ASSUME NEW p \in Seq(Ways), Len(p) <= Height - 1 PROVE p \in Counts!Places
  <2>1. Len(p) \in 0..(Height - 1) /\ p \in [1..Len(p) -> Ways]
    BY <1>1, <1>3
  <2> QED BY <2>1 DEF Counts!Places, Counts!SeqOf, Ways
<1> QED BY <1>2, <1>3

(* Where an element goes below the node at p. *)
Side(e, p) == IF Counts!compare(heap[e], heap[tree[p]]) <= 0 THEN "left" ELSE "right"

(* p leads from node to node, as the comparisons of e say. *)
Leads(e, p) == \A k \in 1..Len(p) : /\ SubSeq(p, 1, k - 1) \in DOMAIN tree
                                    /\ p[k] = Side(e, SubSeq(p, 1, k - 1))

(* As long as the tree is not too high, tree_insert_node_helper finds a place for e. *)
LEMMA PlaceFound ==
  ASSUME NEW e, CountsAssumption, \A p \in DOMAIN tree : p \in Seq(Ways) /\ Len(p) < Height - 1
  PROVE  LET p == Counts!PlaceOf(e)
         IN  p \in Seq(Ways) /\ Len(p) <= Height - 1 /\ p \notin DOMAIN tree /\ Leads(e, p)
<1> DEFINE Place(p) == p \in Seq(Ways) /\ Len(p) <= Height - 1 /\ p \notin DOMAIN tree /\ Leads(e, p)
           Reached == {m \in Nat : m <= Height - 1 => \E p \in Seq(Ways) : Len(p) = m /\ Leads(e, p)}
<1>1. Height - 1 \in Nat
  BY DEF CountsAssumption, Counts!CountsAssumption
<1>2. \E p : Place(p)
  <2> SUFFICES ASSUME \A p : ~Place(p) PROVE FALSE
    OBVIOUS
  <2>1. 0 \in Reached
    <3>0. <<>> \in Seq(Ways)
      OBVIOUS
    <3>1. PICK p \in Seq(Ways) : p = <<>>
      BY <3>0, Zenon
    <3>2. Len(p) = 0 /\ 1..Len(p) = {}
      BY <3>1
    <3>3. Leads(e, p)
      BY <3>2 DEF Leads
    <3> QED BY <3>2, <3>3
  <2>2. ASSUME NEW m \in Nat, m \in Reached PROVE m + 1 \in Reached
    <3> SUFFICES ASSUME m + 1 <= Height - 1
                 PROVE  \E p \in Seq(Ways) : Len(p) = m + 1 /\ Leads(e, p)
      OBVIOUS
    <3>1. PICK p \in Seq(Ways) : Len(p) = m /\ Leads(e, p)
      BY <1>1, <2>2
    <3>2. p \in DOMAIN tree
      BY <1>1, <3>1
    <3>3. PICK w \in Ways : w = Side(e, p)
      BY DEF Side, Ways
    <3>4. Append(p, w) \in Seq(Ways) /\ Len(Append(p, w)) = m + 1
      BY <3>1
    <3>5. ASSUME NEW k \in 1..(m + 1)
          PROVE  /\ SubSeq(Append(p, w), 1, k - 1) \in DOMAIN tree
                 /\ Append(p, w)[k] = Side(e, SubSeq(Append(p, w), 1, k - 1))
      <4>1. CASE k = m + 1
        <5>1. SubSeq(Append(p, w), 1, k - 1) = p /\ Append(p, w)[k] = w
          BY <3>1, <4>1
        <5> QED BY <3>2, <3>3, <5>1
      <4>2. CASE k # m + 1
        <5>1. k \in 1..Len(p) /\ SubSeq(Append(p, w), 1, k - 1) = SubSeq(p, 1, k - 1) /\ Append(p, w)[k] = p[k]
          BY <3>1, <4>2
        <5>2. SubSeq(p, 1, k - 1) \in DOMAIN tree /\ p[k] = Side(e, SubSeq(p, 1, k - 1))
          BY <3>1, <5>1 DEF Leads
        <5> QED BY <5>1, <5>2
      <4> QED BY <4>1, <4>2
    <3>6. Leads(e, Append(p, w))
      BY <3>4, <3>5 DEF Leads
    <3> QED BY <3>4, <3>6
  <2>3. \A m \in Nat : m \in Reached
    <3> HIDE DEF Reached
    <3> QED BY <2>1, <2>2, Upward
  <2>4. Height - 1 \in Reached
    BY <1>1, <2>3
  <2>5. PICK p \in Seq(Ways) : Len(p) = Height - 1 /\ Leads(e, p)
    BY <1>1, <2>4
  <2>6. p \notin DOMAIN tree
    BY <1>1, <2>5
  <2> QED BY <1>1, <2>5, <2>6
<1> DEFINE Spot(p) == /\ p \in Counts!Places /\ p \notin DOMAIN tree
                      /\ \A k \in DOMAIN p :
                           LET above == SubSeq(p, 1, k - 1)
                           IN /\ above \in DOMAIN tree
                              /\ p[k] = IF Counts!compare(heap[e], heap[tree[above]]) <= 0 THEN "left" ELSE "right"
<1>3. \A p : Place(p) <=> Spot(p)
  <2> SUFFICES ASSUME NEW p PROVE Place(p) <=> Spot(p)
    OBVIOUS
  <2>1. p \in Seq(Ways) => DOMAIN p = 1..Len(p)
    OBVIOUS
  <2>2. p \in Counts!Places <=> p \in Seq(Ways) /\ Len(p) <= Height - 1
    BY PlaceIsPath
  <2> QED BY <2>1, <2>2 DEF Leads, Side
<1>4. Counts!PlaceOf(e) = CHOOSE p \in Counts!Places : Spot(p)
  BY DEF Counts!PlaceOf
<1>5. Spot(CHOOSE p \in Counts!Places : Spot(p))
  <2>1. \E p \in Counts!Places : Spot(p)
    BY <1>2, <1>3
  <2> HIDE DEF Spot
  <2> QED BY <2>1
<1>6. Place(Counts!PlaceOf(e))
  <2> HIDE DEF Place, Spot
  <2> QED BY <1>3, <1>4, <1>5
<1> QED BY <1>6

-----------------------------------------------------------------------------
(* Nothing given back, and one reference given back. *)
LEMMA LeftNone ==
  ASSUME NEW D, NEW h \in [D -> Counted], NEW c \in [D -> Nat], \A e \in D : c[e] = 0 /\ 0 < h[e].refcount
  PROVE  Left(h, c) = h
<1>1. {d \in DOMAIN h : h[d].refcount > c[d]} = D
  OBVIOUS
<1>2. ASSUME NEW e \in D
      PROVE  h[e] = [class |-> h[e].class, value |-> h[e].value, refcount |-> h[e].refcount - c[e]]
  <2>1. h[e] = [class |-> h[e].class, value |-> h[e].value, refcount |-> h[e].refcount - 0]
    BY DEF Counted
  <2> QED BY <2>1
<1> QED BY <1>1, <1>2 DEF Left

LEMMA LeftOne ==
  ASSUME NEW D, NEW h \in [D -> Counted], NEW x \in D, \A e \in D : 0 < h[e].refcount
  PROVE  Counts!rc_free_ref(h, x) = Left(h, [e \in D |-> IF x = e THEN 1 ELSE 0])
<1>1. PICK c \in [D -> Nat] : c = [e \in D |-> 0]
  OBVIOUS
<1>2. Left(h, c) = h
  BY <1>1, LeftNone
<1>3. c[x] < h[x].refcount
  BY <1>1
<1>4. Counts!rc_free_ref(Left(h, c), x) = Left(h, [e \in D |-> c[e] + (IF x = e THEN 1 ELSE 0)])
  BY <1>3, LeftStep
<1>5. [e \in D |-> c[e] + (IF x = e THEN 1 ELSE 0)] = [e \in D |-> IF x = e THEN 1 ELSE 0]
  BY <1>1
<1> QED BY <1>2, <1>4, <1>5

(* Where a sequence names each place once, an element is used as often as it has places. *)
Having(S, g, e) == {x \in S : g[x] = e}

LEMMA UsesOnce ==
  ASSUME NEW S, NEW B \in Nat, NEW f \in [1..B -> S], NEW g, NEW es, NEW e,
         \A k, m \in 1..B : f[k] = f[m] => k = m,
         \A x \in S : \E k \in 1..B : f[k] = x,
         \A k \in 1..B : es[k] = g[f[k]]
  PROVE  Uses(es, e, B) = Cardinality(Having(S, g, e))
<1> DEFINE K == {k \in 1..B : es[k] = e}
           T == {x \in S : g[x] = e}
           r == [k \in K |-> f[k]]
<1>1. IsFiniteSet(K)
  <2>1. IsFiniteSet(1..B)
    BY FS_Interval
  <2>2. K \in SUBSET (1..B)
    OBVIOUS
  <2> HIDE DEF K
  <2> QED BY <2>1, <2>2, FS_Subset
<1>2. r \in [K -> T]
  OBVIOUS
<1>3. \A x \in T : \E k \in K : r[k] = x
  OBVIOUS
<1>4. \A k, m \in K : r[k] = r[m] => k = m
  OBVIOUS
<1>5. r \in Bijection(K, T)
  <2> HIDE DEF K, T, r
  <2>1. DOMAIN r = K
    BY <1>2
  <2> QED BY <1>2, <1>3, <1>4, <2>1 DEF Bijection, Injection, Surjection, IsInjective
<1>6. Cardinality(T) = Cardinality(K)
  <2> HIDE DEF K, T, r
  <2> QED BY <1>1, <1>5, FS_Bijection DEF ExistsBijection
<1> QED BY <1>6 DEF Uses, Having

(* SetToSeq lists a finite set, each member once. *)
LEMMA ListsOnce ==
  ASSUME NEW S, IsFiniteSet(S)
  PROVE  LET f == Counts!SetToSeq(S)
         IN  /\ f \in [1..Cardinality(S) -> S]
             /\ \A k, m \in 1..Cardinality(S) : f[k] = f[m] => k = m
             /\ \A x \in S : \E k \in 1..Cardinality(S) : f[k] = x
<1> DEFINE B == Cardinality(S)
           f == Counts!SetToSeq(S)
<1>1. B \in Nat /\ ExistsBijection(1..B, S)
  BY FS_CardinalityType
<1>2. f = CHOOSE g \in [1..B -> S] : Counts!IsInjective(g)
  BY SameCardinality DEF Counts!SetToSeq
<1>3. \E g \in [1..B -> S] : Counts!IsInjective(g)
  BY <1>1 DEF ExistsBijection, Bijection, Injection, IsInjective, Counts!IsInjective
<1>4. f \in [1..B -> S] /\ Counts!IsInjective(f)
  <2> HIDE DEF B, f
  <2> QED BY <1>2, <1>3
<1> HIDE DEF f
<1>5. \A k, m \in 1..B : f[k] = f[m] => k = m
  BY <1>4 DEF Counts!IsInjective
<1>6. f \in Injection(1..B, S)
  BY <1>4 DEF Injection, IsInjective, Counts!IsInjective
<1>7. IsFiniteSet(1..B) /\ Cardinality(1..B) = B
  BY <1>1, FS_Interval
<1>8. f \in Surjection(1..B, S)
  BY <1>6, <1>7, FS_Injection
<1>9. \A x \in S : \E k \in 1..B : f[k] = x
  BY <1>8 DEF Surjection
<1> QED BY <1>4, <1>5, <1>9 DEF f

-----------------------------------------------------------------------------
(* The owners of an element: the client, nodes of the list, nodes of the tree. *)
OnList(e) == {x \in DOMAIN list.node : list.node[x].elem = e}
OnTree(e) == {p \in DOMAIN tree : tree[p] = e}
Shares(e) == held[e] + Cardinality(OnList(e)) + Cardinality(OnTree(e))

(* Each reference is held by somebody, and whatever somebody holds is allocated. *)
HeapCounts ==
  /\ DOMAIN heap \subseteq Elements
  /\ heap \in [DOMAIN heap -> Counted]
  /\ held \in [Elements -> Nat]
  /\ \A e \in Elements : held[e] > 0 => e \in DOMAIN heap
  /\ \A e \in DOMAIN heap : heap[e].refcount > 0 /\ heap[e].refcount = Shares(e)

(* The list is the chain of the nodes that were added, of allocated elements. *)
ListLinked ==
  /\ added \in Seq(Nodes)
  /\ Chain(list, added, Len(added))
  /\ list.node \in [DOMAIN list.node -> ListNode(DOMAIN heap)]

(* The way to a node of the tree leads through nodes, and its element compares with theirs
   as the way says. *)
TreeGrown ==
  /\ IsFiniteSet(DOMAIN tree)
  /\ tree \in [DOMAIN tree -> DOMAIN heap]
  /\ \A p \in DOMAIN tree : p \in Seq(Ways) /\ \A k \in 0..Len(p) : SubSeq(p, 1, k) \in DOMAIN tree
  /\ \A p \in DOMAIN tree : \A k \in 1..Len(p) : p[k] = Side(tree[p], SubSeq(p, 1, k - 1))

(* What the interfaces keep true together: the counts are those of the owners, and the owners
   are found by the list's links and the tree's comparisons. *)
CountsInv == HeapCounts /\ ListLinked /\ TreeGrown

(* It holds when nothing is allocated. *)
LEMMA CountsInit == ASSUME CountsAssumption, Counts!Init PROVE CountsInv
<1>1. heap = <<>> /\ held = [e \in Elements |-> 0] /\ tree = <<>> /\ added = <<>>
      /\ list = [head |-> NULL, tail |-> NULL, node |-> <<>>]
  BY DEF Counts!Init, Counts!list_new
<1>2. DOMAIN heap = {} /\ DOMAIN tree = {} /\ DOMAIN list.node = {} /\ Len(added) = 0 /\ added \in Seq(Nodes)
      /\ list.head = NULL /\ list.tail = NULL
  BY <1>1
<1>3. heap \in [{} -> Counted] /\ tree \in [{} -> {}] /\ list.node \in [{} -> ListNode({})]
      /\ added \in [1..0 -> Nodes]
  BY <1>1
<1>4. HeapCounts
  BY <1>1, <1>2, <1>3 DEF HeapCounts
<1>5. Chain(list, added, 0)
  BY <1>2, <1>3 DEF Chain
<1>6. TreeGrown
  BY <1>2, <1>3, FS_EmptySet DEF TreeGrown
<1> QED BY <1>2, <1>3, <1>4, <1>5, <1>6 DEF CountsInv, ListLinked

LEMMA ChainNodes == ASSUME NEW l, NEW s, NEW B, Chain(l, s, B) PROVE DOMAIN l.node \subseteq Nodes
BY DEF Chain

(* The sets of owners are finite, and whoever has an owner is counted. *)
LEMMA FiniteOwners ==
  ASSUME CountsAssumption, CountsInv, NEW e
  PROVE  /\ IsFiniteSet(OnList(e)) /\ IsFiniteSet(OnTree(e)) 
         /\ Cardinality(OnList(e)) \in Nat /\ Cardinality(OnTree(e)) \in Nat
         /\ OnList(e) # {} => Cardinality(OnList(e)) > 0
         /\ OnTree(e) # {} => Cardinality(OnTree(e)) > 0
         /\ e \in Elements => Shares(e) \in Nat
<1>1. IsFiniteSet(Nodes)
  BY SameCardinality DEF CountsAssumption, Counts!CountsAssumption
<1>2. DOMAIN list.node \subseteq Nodes
  BY ChainNodes DEF CountsInv, ListLinked
<1>3. IsFiniteSet(OnList(e))
  <2>1. OnList(e) \in SUBSET Nodes
    BY <1>2 DEF OnList
  <2> QED BY <1>1, <2>1, FS_Subset
<1>4. IsFiniteSet(OnTree(e))
  <2>1. OnTree(e) \in SUBSET (DOMAIN tree) /\ IsFiniteSet(DOMAIN tree)
    BY DEF OnTree, CountsInv, TreeGrown
  <2> QED BY <2>1, FS_Subset
<1>5. \A S : IsFiniteSet(S) => Cardinality(S) \in Nat /\ (S # {} => Cardinality(S) > 0)
  BY FS_CardinalityType, FS_EmptySet
<1>6. e \in Elements => held[e] \in Nat
  BY DEF CountsInv, HeapCounts
<1> QED BY <1>3, <1>4, <1>5, <1>6 DEF Shares

(* Elements that stay allocated stay what they are. *)
Stays == \A e \in DOMAIN heap \cap DOMAIN heap' : heap'[e].class = heap[e].class /\ heap'[e].value = heap[e].value

(* A list and a tree that are left alone, when what they own stays allocated. *)
LEMMA ListKept ==
  ASSUME CountsInv, UNCHANGED <<list, added>>, \A e \in DOMAIN heap : OnList(e) # {} => e \in DOMAIN heap'
  PROVE  ListLinked'
<1>1. list.node \in [DOMAIN list.node -> ListNode(DOMAIN heap)]
  BY DEF CountsInv, ListLinked
<1>2. ASSUME NEW x \in DOMAIN list.node PROVE list.node[x] \in ListNode(DOMAIN heap')
  <2>1. list.node[x] \in ListNode(DOMAIN heap) /\ x \in OnList(list.node[x].elem)
    BY <1>1 DEF OnList
  <2>2. list.node[x].elem \in DOMAIN heap
    BY <2>1 DEF ListNode
  <2>3. list.node[x].elem \in DOMAIN heap'
    BY <2>1, <2>2
  <2> QED BY <2>1, <2>3 DEF ListNode
<1>3. list.node \in [DOMAIN list.node -> ListNode(DOMAIN heap')]
  BY <1>1, <1>2
<1> QED BY <1>3 DEF CountsInv, ListLinked

LEMMA TreeKept ==
  ASSUME CountsInv, UNCHANGED tree, Stays, \A e \in DOMAIN heap : OnTree(e) # {} => e \in DOMAIN heap'
  PROVE  TreeGrown'
<1>1. tree \in [DOMAIN tree -> DOMAIN heap]
  BY DEF CountsInv, TreeGrown
<1>2. \A p \in DOMAIN tree : tree[p] \in DOMAIN heap /\ tree[p] \in DOMAIN heap'
  <2> SUFFICES ASSUME NEW p \in DOMAIN tree PROVE tree[p] \in DOMAIN heap /\ tree[p] \in DOMAIN heap'
    OBVIOUS
  <2>1. p \in OnTree(tree[p])
    BY DEF OnTree
  <2> QED BY <1>1, <2>1
<1>3. tree' \in [DOMAIN tree' -> DOMAIN heap']
  BY <1>1, <1>2
<1>4. ASSUME NEW p \in DOMAIN tree, NEW k \in 1..Len(p)
      PROVE  p[k] = Side(tree[p], SubSeq(p, 1, k - 1))'
  <2>1. PICK q \in DOMAIN tree : q = SubSeq(p, 1, k - 1)
    <3>1. p \in Seq(Ways) /\ \A m \in 0..Len(p) : SubSeq(p, 1, m) \in DOMAIN tree
      BY DEF CountsInv, TreeGrown
    <3>2. k - 1 \in 0..Len(p)
      BY <3>1
    <3> QED BY <3>1, <3>2
  <2>2. p[k] = Side(tree[p], q)
    BY <2>1 DEF CountsInv, TreeGrown
  <2>3. Counts!compare(heap[tree[p]], heap[tree[q]]) = Counts!compare(heap'[tree[p]], heap'[tree[q]])
    BY <1>2, SameCompare DEF Stays
  <2>4. Side(tree[p], q)' = Side(tree[p], q)
    BY <2>3 DEF Side
  <2> QED BY <2>1, <2>2, <2>4 DEF Side
<1> QED BY <1>3, <1>4 DEF CountsInv, TreeGrown

(* What is given back is no longer counted, and nothing else changes. *)
LEMMA GivenBack ==
  ASSUME CountsAssumption, CountsInv, NEW c \in [DOMAIN heap -> Nat], heap' = Left(heap, c),
         held' \in [Elements -> Nat], \A e \in Elements : held'[e] <= held[e],
         \A e \in DOMAIN heap : /\ Cardinality(OnList(e))' \in Nat /\ Cardinality(OnTree(e))' \in Nat
                                /\ Shares(e)' = Shares(e) - c[e]
  PROVE  /\ HeapCounts' /\ Stays
         /\ \A e \in DOMAIN heap : Shares(e)' > 0 => e \in DOMAIN heap'
<1>1. /\ DOMAIN heap' = {d \in DOMAIN heap : heap[d].refcount > c[d]}
      /\ \A e \in DOMAIN heap' : heap'[e] = [class |-> heap[e].class, value |-> heap[e].value,
                                             refcount |-> heap[e].refcount - c[e]]
  BY DEF Left
<1>2. /\ DOMAIN heap \subseteq Elements
      /\ \A e \in DOMAIN heap : /\ heap[e].class \in {"int", "str"} /\ heap[e].value \in Int
                                /\ heap[e].refcount \in Nat
                                /\ heap[e].refcount = Shares(e)
      /\ \A e \in Elements : held[e] \in Nat /\ (held[e] > 0 => e \in DOMAIN heap)
  BY DEF CountsInv, HeapCounts, Counted
<1>a. ASSUME NEW e \in DOMAIN heap'
      PROVE  /\ e \in DOMAIN heap /\ heap[e].refcount > c[e] /\ c[e] \in Nat
             /\ heap'[e].class = heap[e].class /\ heap'[e].value = heap[e].value
             /\ heap'[e].refcount = heap[e].refcount - c[e]
             /\ heap'[e] = [class |-> heap[e].class, value |-> heap[e].value,
                            refcount |-> heap[e].refcount - c[e]]
  <2>1. e \in DOMAIN heap /\ heap[e].refcount > c[e] /\ c[e] \in Nat
    BY <1>1
  <2>2. heap'[e] = [class |-> heap[e].class, value |-> heap[e].value,
                    refcount |-> heap[e].refcount - c[e]]
    BY <1>1
  <2> QED BY <2>1, <2>2
<1>3. \A e \in DOMAIN heap : Shares(e)' > 0 => e \in DOMAIN heap'
  BY <1>1, <1>2
<1>4. Stays
  BY <1>a DEF Stays
<1>5. ASSUME NEW e \in DOMAIN heap' PROVE heap'[e].refcount > 0 /\ heap'[e].refcount = Shares(e)'
  <2>1. Shares(e)' = Shares(e) - c[e] /\ heap[e].refcount = Shares(e) /\ heap[e].refcount \in Nat
    BY <1>2, <1>a
  <2> QED BY <1>a, <2>1
<1>6. heap' \in [DOMAIN heap' -> Counted]
  <2>1. ASSUME NEW e \in DOMAIN heap' PROVE heap'[e] \in Counted
    <3>1. heap[e].class \in {"int", "str"} /\ heap[e].value \in Int /\ heap[e].refcount - c[e] \in Nat
      BY <1>2, <1>a
    <3> QED BY <1>a, <3>1 DEF Counted
  <2>2. heap' = [e \in DOMAIN heap' |-> heap'[e]]
    BY DEF Left
  <2> QED BY <2>1, <2>2
<1>7. ASSUME NEW e \in Elements, held'[e] > 0 PROVE e \in DOMAIN heap'
  <2>1. e \in DOMAIN heap
    BY <1>2, <1>7
  <2>2. Cardinality(OnList(e))' \in Nat /\ Cardinality(OnTree(e))' \in Nat /\ held'[e] \in Nat
    BY <2>1
  <2>3. Shares(e)' = held'[e] + Cardinality(OnList(e))' + Cardinality(OnTree(e))'
    BY DEF Shares
  <2>4. Shares(e)' > 0
    BY <1>7, <2>2, <2>3
  <2> QED BY <1>3, <2>1, <2>4
<1>8. HeapCounts'
  BY <1>1, <1>2, <1>5, <1>6, <1>7 DEF HeapCounts
<1> QED BY <1>3, <1>4, <1>8

(* One owner more, one reference more. *)
LEMMA OneMore ==
  ASSUME CountsInv, NEW e \in DOMAIN heap, heap' = Counts!rc_keep_ref(heap, e),
         held' \in [Elements -> Nat], \A d \in Elements : held'[d] > 0 => held[d] > 0 \/ d = e,
         \A d \in DOMAIN heap : Shares(d) \in Nat /\ Shares(d)' = Shares(d) + IF d = e THEN 1 ELSE 0
  PROVE  HeapCounts' /\ Stays /\ DOMAIN heap' = DOMAIN heap
<1>1. heap \in [DOMAIN heap -> Counted] /\ DOMAIN heap \subseteq Elements
  BY DEF CountsInv, HeapCounts
<1>2. heap[e] = [class |-> heap[e].class, value |-> heap[e].value, refcount |-> heap[e].refcount]
      /\ heap[e].class \in {"int", "str"} /\ heap[e].value \in Int /\ heap[e].refcount \in Nat
  BY <1>1 DEF Counted
<1>3. heap' = [d \in DOMAIN heap |-> IF d = e THEN [heap[e] EXCEPT !.refcount = heap[e].refcount + 1] ELSE heap[d]]
  BY DEF Counts!rc_keep_ref
<1>4. [heap[e] EXCEPT !.refcount = heap[e].refcount + 1]
        = [class |-> heap[e].class, value |-> heap[e].value, refcount |-> heap[e].refcount + 1]
  BY <1>2
<1>5. heap' = [d \in DOMAIN heap |->
                 IF d = e THEN [class |-> heap[e].class, value |-> heap[e].value, refcount |-> heap[e].refcount + 1]
                 ELSE heap[d]]
  BY <1>3, <1>4
<1>6. /\ DOMAIN heap' = DOMAIN heap
      /\ \A d \in DOMAIN heap : d # e => heap'[d] = heap[d]
      /\ heap'[e] = [class |-> heap[e].class, value |-> heap[e].value, refcount |-> heap[e].refcount + 1]
  BY <1>5
<1>7. heap'[e] \in Counted /\ heap'[e].class = heap[e].class /\ heap'[e].value = heap[e].value
      /\ heap'[e].refcount = heap[e].refcount + 1
  BY <1>2, <1>6 DEF Counted
<1>8. heap' \in [DOMAIN heap' -> Counted]
  <2>1. \A d \in DOMAIN heap : heap'[d] \in Counted
    BY <1>1, <1>6, <1>7
  <2>2. heap' = [d \in DOMAIN heap' |-> heap'[d]]
    BY <1>5
  <2> QED BY <1>6, <2>1, <2>2
<1>9. Stays
  BY <1>6, <1>7 DEF Stays
<1>10. \A d \in DOMAIN heap : heap[d].refcount \in Nat /\ heap[d].refcount > 0 /\ heap[d].refcount = Shares(d)
  BY <1>1 DEF CountsInv, HeapCounts, Counted
<1>11. \A d \in DOMAIN heap : heap'[d].refcount > 0 /\ heap'[d].refcount = Shares(d)'
  <2> SUFFICES ASSUME NEW d \in DOMAIN heap
               PROVE heap'[d].refcount > 0 /\ heap'[d].refcount = Shares(d)'
    OBVIOUS
  <2>1. CASE d = e
    BY <1>7, <1>10, <2>1
  <2>2. CASE d # e
    BY <1>6, <1>10, <2>2
  <2> QED BY <2>1, <2>2
<1>12. \A d \in Elements : held'[d] > 0 => d \in DOMAIN heap'
  BY <1>6 DEF CountsInv, HeapCounts
<1> QED BY <1>1, <1>6, <1>8, <1>9, <1>11, <1>12 DEF HeapCounts

(* The sequence with one more. *)
LEMMA AppendPlaces ==
  ASSUME NEW S, NEW s \in Seq(S), NEW x \in S
  PROVE  /\ Append(s, x) \in [1..(Len(s) + 1) -> S] /\ Append(s, x)[Len(s) + 1] = x
         /\ \A k \in 1..Len(s) : Append(s, x)[k] = s[k]
         /\ Append(s, x) \in Seq(S) /\ Len(Append(s, x)) = Len(s) + 1 /\ Len(s) \in Nat
<1>1. /\ Append(s, x) \in Seq(S) /\ Len(Append(s, x)) = Len(s) + 1 /\ Len(s) \in Nat
      /\ Append(s, x)[Len(s) + 1] = x
  OBVIOUS
<1>2. \A k \in 1..Len(s) : Append(s, x)[k] = s[k]
  OBVIOUS
<1>3. Append(s, x) \in [1..(Len(s) + 1) -> S]
  <2>1. PICK a \in Seq(S) : a = Append(s, x)
    BY <1>1
  <2>2. a \in [1..Len(a) -> S]
    OBVIOUS
  <2> QED BY <1>1, <2>1, <2>2
<1> QED BY <1>1, <1>2, <1>3

(* The sequence without an element that is there once. *)
LEMMA DroppedPlaces ==
  ASSUME NEW S, NEW s \in Seq(S), NEW c \in 1..Len(s), \A k, m \in 1..Len(s) : s[k] = s[m] => k = m
  PROVE  LET a == Counts!Dropped(s, s[c])
         IN  /\ a \in [1..(Len(s) - 1) -> S] /\ a \in Seq(S) /\ Len(a) = Len(s) - 1
             /\ \A k \in 1..(Len(s) - 1) : a[k] = IF k < c THEN s[k] ELSE s[k + 1]
<1>1. (CHOOSE k \in DOMAIN s : s[k] = s[c]) = c
  BY DOMAIN s = 1..Len(s)
<1>2. Counts!Dropped(s, s[c]) = SubSeq(s, 1, c - 1) \o SubSeq(s, c + 1, Len(s))
  BY <1>1 DEF Counts!Dropped, Counts!RemoveAt
<1>3. PICK a : a = SubSeq(s, 1, c - 1) \o SubSeq(s, c + 1, Len(s))
  OBVIOUS
<1>4. /\ SubSeq(s, 1, c - 1) \in Seq(S) /\ Len(SubSeq(s, 1, c - 1)) = c - 1
      /\ \A k \in 1..(c - 1) : SubSeq(s, 1, c - 1)[k] = s[k]
  OBVIOUS
<1>5. /\ SubSeq(s, c + 1, Len(s)) \in Seq(S) /\ Len(SubSeq(s, c + 1, Len(s))) = Len(s) - c
      /\ \A k \in 1..(Len(s) - c) : SubSeq(s, c + 1, Len(s))[k] = s[c + k]
  OBVIOUS
<1>6. /\ a \in Seq(S) /\ Len(a) = Len(s) - 1
      /\ \A k \in 1..(Len(s) - 1) : a[k] = IF k < c THEN s[k] ELSE s[k + 1]
  <2>1. PICK u \in Seq(S), v \in Seq(S) : u = SubSeq(s, 1, c - 1) /\ v = SubSeq(s, c + 1, Len(s))
    BY <1>4, <1>5
  <2>2. a = u \o v /\ Len(u) = c - 1 /\ Len(v) = Len(s) - c
        /\ (\A k \in 1..(c - 1) : u[k] = s[k]) /\ \A k \in 1..(Len(s) - c) : v[k] = s[c + k]
    BY <1>3, <1>4, <1>5, <2>1
  <2>3. a \in Seq(S) /\ Len(a) = Len(s) - 1
    BY <2>2
  <2>4. ASSUME NEW k \in 1..(Len(s) - 1) PROVE a[k] = IF k < c THEN s[k] ELSE s[k + 1]
    <3>1. CASE k < c
      <4>1. k \in 1..Len(u) /\ k \in 1..(c - 1)
        BY <2>2, <3>1
      <4> QED BY <2>2, <3>1, <4>1
    <3>2. CASE ~(k < c)
      <4>1. PICK m \in 1..(Len(s) - c) : k = (c - 1) + m
        BY <3>2
      <4>2. (u \o v)[Len(u) + m] = v[m]
        BY <2>2, <4>1
      <4>3. c + m = k + 1 /\ Len(u) + m = k
        BY <2>2, <4>1
      <4> QED BY <2>2, <3>2, <4>1, <4>2, <4>3
    <3> QED BY <3>1, <3>2
  <2> QED BY <2>3, <2>4
<1>7. a \in [1..(Len(s) - 1) -> S]
  BY <1>6
<1> QED BY <1>2, <1>3, <1>6, <1>7

(* What is not allocated has no owner. *)
LEMMA Unowned ==
  ASSUME CountsInv, NEW e, e \notin DOMAIN heap
  PROVE  OnList(e) = {} /\ OnTree(e) = {} /\ (e \in Elements => held[e] = 0)
<1>1. \A x \in DOMAIN list.node : list.node[x].elem \in DOMAIN heap
  BY DEF CountsInv, ListLinked, ListNode
<1>2. \A p \in DOMAIN tree : tree[p] \in DOMAIN heap
  BY DEF CountsInv, TreeGrown
<1>3. e \in Elements => held[e] \in Nat /\ ~(held[e] > 0)
  BY DEF CountsInv, HeapCounts
<1> QED BY <1>1, <1>2, <1>3 DEF OnList, OnTree

(* The counts, in the terms the steps use. *)
LEMMA SharesNow ==
  ASSUME CountsAssumption, CountsInv
  PROVE  /\ DOMAIN heap \subseteq Elements /\ heap \in [DOMAIN heap -> Counted] /\ held \in [Elements -> Nat]
         /\ \A e \in Elements : /\ Shares(e) \in Nat /\ held[e] \in Nat
                                /\ Cardinality(OnList(e)) \in Nat /\ Cardinality(OnTree(e)) \in Nat
                                /\ Shares(e) = held[e] + Cardinality(OnList(e)) + Cardinality(OnTree(e))
                                /\ Shares(e) > 0 <=> e \in DOMAIN heap
                                /\ OnList(e) # {} => Cardinality(OnList(e)) > 0
                                /\ OnTree(e) # {} => Cardinality(OnTree(e)) > 0
         /\ \A e \in DOMAIN heap : heap[e].refcount = Shares(e) /\ heap[e].refcount > 0
<1>1. /\ DOMAIN heap \subseteq Elements /\ heap \in [DOMAIN heap -> Counted] /\ held \in [Elements -> Nat]
      /\ \A e \in DOMAIN heap : heap[e].refcount = Shares(e) /\ heap[e].refcount > 0
  BY DEF CountsInv, HeapCounts
<1>2. ASSUME NEW e \in Elements
      PROVE  /\ Shares(e) \in Nat /\ held[e] \in Nat
             /\ Cardinality(OnList(e)) \in Nat /\ Cardinality(OnTree(e)) \in Nat
             /\ Shares(e) = held[e] + Cardinality(OnList(e)) + Cardinality(OnTree(e))
             /\ OnList(e) # {} => Cardinality(OnList(e)) > 0
             /\ OnTree(e) # {} => Cardinality(OnTree(e)) > 0
  BY <1>1, FiniteOwners DEF Shares
<1>3. ASSUME NEW e \in Elements PROVE Shares(e) > 0 <=> e \in DOMAIN heap
  <2>1. CASE e \in DOMAIN heap
    BY <1>1, <2>1
  <2>2. CASE e \notin DOMAIN heap
    <3>1. held[e] = 0 /\ OnList(e) = {} /\ OnTree(e) = {}
      BY <2>2, Unowned
    <3>2. Cardinality(OnList(e)) = 0 /\ Cardinality(OnTree(e)) = 0
      BY <3>1, FS_EmptySet
    <3>3. Shares(e) = held[e] + Cardinality(OnList(e)) + Cardinality(OnTree(e))
      BY <1>2
    <3> QED BY <2>2, <3>1, <3>2, <3>3
  <2> QED BY <2>1, <2>2
<1> QED BY <1>1, <1>2, <1>3

(* malloc finds an element that nobody owns. *)
LEMMA Allocates ==
  ASSUME CountsAssumption, CountsInv, NEW v \in Values, Counts!rc_malloc(v)
  PROVE  CountsInv'
<1>1. PICK e \in Elements \ DOMAIN heap : e = Counts!Min(Elements \ DOMAIN heap)
  BY LeastOf DEF Counts!rc_malloc, CountsAssumption, Counts!CountsAssumption
<1>2. /\ heap' = Counts!With(heap, e, [class |-> v.class, value |-> v.value, refcount |-> 1])
      /\ held' = [held EXCEPT ![e] = 1] /\ UNCHANGED <<list, tree, added>>
  BY <1>1 DEF Counts!rc_malloc
<1>3. v.class \in {"int", "str"} /\ v.value \in Int
  BY DEF CountsAssumption, Counts!CountsAssumption
<1>4. /\ DOMAIN heap' = DOMAIN heap \cup {e}
      /\ \A d \in DOMAIN heap : heap'[d] = heap[d]
      /\ heap'[e] = [class |-> v.class, value |-> v.value, refcount |-> 1]
      /\ heap' = [d \in DOMAIN heap' |-> heap'[d]]
  BY <1>1, <1>2 DEF Counts!With
<1>5. heap'[e] \in Counted /\ heap'[e].refcount = 1
  BY <1>3, <1>4 DEF Counted
<1>6. /\ DOMAIN heap \subseteq Elements /\ heap \in [DOMAIN heap -> Counted] /\ held \in [Elements -> Nat]
      /\ \A d \in DOMAIN heap : heap[d].refcount = Shares(d) /\ heap[d].refcount > 0
  BY SharesNow
<1>7. heap' \in [DOMAIN heap' -> Counted] /\ DOMAIN heap' \subseteq Elements
  BY <1>4, <1>5, <1>6
<1>8. held' \in [Elements -> Nat] /\ held'[e] = 1 /\ \A d \in Elements : d # e => held'[d] = held[d]
  BY <1>1, <1>2, <1>6
<1>9. \A d : OnList(d)' = OnList(d) /\ OnTree(d)' = OnTree(d)
  BY <1>2 DEF OnList, OnTree
<1>10. Shares(e)' = 1
  <2>1. OnList(e) = {} /\ OnTree(e) = {}
    BY <1>1, Unowned
  <2>2. Cardinality({}) = 0
    BY FS_EmptySet
  <2>3. Shares(e)' = 1 + 0 + 0
    BY <1>8, <1>9, <2>1, <2>2 DEF Shares
  <2> QED BY <2>3
<1>11. ASSUME NEW d \in DOMAIN heap' PROVE heap'[d].refcount > 0 /\ heap'[d].refcount = Shares(d)'
  <2>1. CASE d = e
    BY <1>5, <1>10, <2>1
  <2>2. CASE d # e
    <3>1. d \in DOMAIN heap /\ heap'[d] = heap[d] /\ d \in Elements
      BY <1>4, <1>6, <2>2
    <3>2. Shares(d)' = Shares(d)
      BY <1>8, <1>9, <2>2, <3>1 DEF Shares
    <3> QED BY <1>6, <3>1, <3>2
  <2> QED BY <2>1, <2>2
<1>12. ASSUME NEW d \in Elements, held'[d] > 0 PROVE d \in DOMAIN heap'
  BY <1>4, <1>8, <1>12 DEF CountsInv, HeapCounts
<1>13. HeapCounts'
  BY <1>7, <1>8, <1>11, <1>12 DEF HeapCounts
<1>14. Stays
  BY <1>4 DEF Stays
<1> QED BY <1>2, <1>4, <1>13, <1>14, ListKept, TreeKept DEF CountsInv

(* A client keeps a reference that it has, or that a node of the list has. *)
LEMMA Keeps ==
  ASSUME CountsAssumption, CountsInv, NEW e \in DOMAIN heap, heap' = Counts!rc_keep_ref(heap, e),
         held' = [held EXCEPT ![e] = @ + 1], UNCHANGED <<list, tree, added>>
  PROVE  CountsInv'
<1>1. e \in Elements /\ held \in [Elements -> Nat] /\ DOMAIN heap \subseteq Elements
  BY SharesNow
<1>2. held' \in [Elements -> Nat] /\ held'[e] = held[e] + 1 /\ \A d \in Elements : d # e => held'[d] = held[d]
  <2>1. held[e] \in Nat
    BY <1>1
  <2>2. held[e] + 1 \in Nat
    BY <2>1
  <2>3. held' = [held EXCEPT ![e] = held[e] + 1]
    OBVIOUS
  <2> QED BY <1>1, <2>2, <2>3
<1>3. \A d : OnList(d)' = OnList(d) /\ OnTree(d)' = OnTree(d)
  BY DEF OnList, OnTree
<1>4. ASSUME NEW d \in DOMAIN heap PROVE Shares(d) \in Nat /\ Shares(d)' = Shares(d) + IF d = e THEN 1 ELSE 0
  <2>1. /\ Shares(d) \in Nat /\ held[d] \in Nat /\ Cardinality(OnList(d)) \in Nat /\ Cardinality(OnTree(d)) \in Nat
        /\ Shares(d) = held[d] + Cardinality(OnList(d)) + Cardinality(OnTree(d))
    BY <1>1, SharesNow
  <2>2. Shares(d)' = held'[d] + Cardinality(OnList(d)) + Cardinality(OnTree(d))
    BY <1>3 DEF Shares
  <2> QED BY <1>1, <1>2, <2>1, <2>2
<1>5. HeapCounts' /\ Stays /\ DOMAIN heap' = DOMAIN heap
  BY <1>2, <1>4, OneMore
<1> QED BY <1>5, ListKept, TreeKept DEF CountsInv

(* rc_keep_ref by a client, and after list_node_get_element. *)
LEMMA KeepKeeps ==
  ASSUME CountsAssumption, CountsInv, NEW e \in Elements, Counts!Keep(e)
  PROVE  CountsInv'
<1>1. held[e] > 0
  BY DEF Counts!Keep, CountsAssumption, Counts!CountsAssumption
<1>2. e \in DOMAIN heap
  BY <1>1 DEF CountsInv, HeapCounts
<1> QED BY <1>2, Keeps DEF Counts!Keep

LEMMA GetElementKeeps ==
  ASSUME CountsAssumption, CountsInv, NEW x \in DOMAIN list.node, Counts!list_node_get_element(x)
  PROVE  CountsInv'
<1>1. PICK e \in DOMAIN heap : e = list.node[x].elem
  BY DEF CountsInv, ListLinked, ListNode
<1> QED BY <1>1, Keeps DEF Counts!list_node_get_element

(* rc_free_ref by a client: the last reference frees the element. *)
LEMMA FreeRefGives ==
  ASSUME CountsAssumption, CountsInv, NEW e \in Elements, Counts!FreeRef(e)
  PROVE  CountsInv'
<1>1. /\ held[e] > 0 /\ heap' = Counts!rc_free_ref(heap, e) /\ held' = [held EXCEPT ![e] = @ - 1]
      /\ UNCHANGED <<list, tree, added>>
  BY DEF Counts!FreeRef
<1>2. e \in DOMAIN heap
  BY <1>1 DEF CountsInv, HeapCounts
<1>3. PICK c : c = [d \in DOMAIN heap |-> IF e = d THEN 1 ELSE 0]
  OBVIOUS
<1>4. c \in [DOMAIN heap -> Nat]
  BY <1>3
<1>5. heap' = Left(heap, c)
  <2>1. PICK D : D = DOMAIN heap
    OBVIOUS
  <2>2. heap \in [D -> Counted] /\ e \in D /\ \A d \in D : 0 < heap[d].refcount
    <3>1. \A d \in DOMAIN heap : heap[d].refcount > 0
      BY SharesNow
    <3>2. ASSUME NEW d \in DOMAIN heap PROVE 0 < heap[d].refcount
      <4>1. heap[d].refcount \in Nat
        BY SharesNow DEF Counted
      <4> QED BY <3>1, <4>1
    <3> QED BY <1>2, <2>1, <3>2, SharesNow
  <2>3. Counts!rc_free_ref(heap, e) = Left(heap, [d \in D |-> IF e = d THEN 1 ELSE 0])
    BY <2>2, LeftOne
  <2> QED BY <1>1, <1>3, <2>1, <2>3
<1>6. held \in [Elements -> Nat] /\ DOMAIN heap \subseteq Elements
  BY SharesNow
<1>7. /\ held' \in [Elements -> Nat] /\ held'[e] = held[e] - 1
      /\ \A d \in Elements : held'[d] <= held[d] /\ (d # e => held'[d] = held[d])
  BY <1>1, <1>6
<1>8. \A d : OnList(d)' = OnList(d) /\ OnTree(d)' = OnTree(d)
  BY <1>1 DEF OnList, OnTree
<1>9. ASSUME NEW d \in DOMAIN heap
      PROVE  /\ Cardinality(OnList(d))' \in Nat /\ Cardinality(OnTree(d))' \in Nat
             /\ Shares(d)' = Shares(d) - c[d]
             /\ OnList(d) # {} => Shares(d)' > 0
             /\ OnTree(d) # {} => Shares(d)' > 0
  <2>1. /\ Shares(d) \in Nat /\ held[d] \in Nat /\ Cardinality(OnList(d)) \in Nat /\ Cardinality(OnTree(d)) \in Nat
        /\ Shares(d) = held[d] + Cardinality(OnList(d)) + Cardinality(OnTree(d))
        /\ OnList(d) # {} => Cardinality(OnList(d)) > 0
        /\ OnTree(d) # {} => Cardinality(OnTree(d)) > 0
    BY <1>6, SharesNow
  <2>2. Shares(d)' = held'[d] + Cardinality(OnList(d)) + Cardinality(OnTree(d))
    BY <1>8 DEF Shares
  <2>3. Cardinality(OnList(d))' = Cardinality(OnList(d)) /\ Cardinality(OnTree(d))' = Cardinality(OnTree(d))
    BY <1>8
  <2>4. held'[d] \in Nat /\ d \in Elements
    BY <1>6, <1>7
  <2>5. c[d] = IF e = d THEN 1 ELSE 0
    BY <1>3
  <2>6. held'[d] = held[d] - c[d]
    <3>1. CASE d = e
      BY <1>7, <2>5, <3>1
    <3>2. CASE d # e
      <4>1. held'[d] = held[d] /\ c[d] = 0 /\ held[d] \in Nat
        BY <1>7, <2>1, <2>4, <2>5, <3>2
      <4> QED BY <4>1
    <3> QED BY <3>1, <3>2
  <2>7. Shares(d)' = Shares(d) - c[d]
    BY <2>1, <2>2, <2>4, <2>5, <2>6
  <2> QED BY <2>1, <2>2, <2>3, <2>4, <2>7
<1>10. /\ HeapCounts' /\ Stays
       /\ \A d \in DOMAIN heap : Shares(d)' > 0 => d \in DOMAIN heap'
  BY <1>4, <1>5, <1>7, <1>9, GivenBack
<1> QED BY <1>1, <1>9, <1>10, ListKept, TreeKept DEF CountsInv

(* The nodes of a list own what is allocated. *)
LEMMA NodesOwn ==
  ASSUME NEW S, NEW D, NEW D2, NEW f \in [S -> ListNode(D)], \A y \in S : f[y].elem \in D2
  PROVE  f \in [S -> ListNode(D2)]
<1>1. ASSUME NEW y \in S PROVE f[y] \in ListNode(D2)
  BY DEF ListNode
<1> QED BY <1>1

(* The list's nodes, by the sequence of what was added. *)
LEMMA AddedSpells ==
  ASSUME CountsAssumption, CountsInv
  PROVE  /\ added \in Seq(Nodes) /\ Len(added) \in Nat /\ NULL \notin Nodes
         /\ \A k \in 1..Len(added) : added[k] \in DOMAIN list.node
         /\ \A k, m \in 1..Len(added) : added[k] = added[m] => k = m
         /\ \A x \in DOMAIN list.node : \E k \in 1..Len(added) : added[k] = x
         /\ added \in [1..Len(added) -> DOMAIN list.node]
         /\ Len(added) <= Cardinality(Nodes)
         /\ list.head = IF added = <<>> THEN NULL ELSE added[1]
         /\ list.tail = IF added = <<>> THEN NULL ELSE added[Len(added)]
         /\ \A k \in 1..Len(added) : list.node[added[k]].next = IF k = Len(added) THEN NULL ELSE added[k + 1]
         /\ \A k \in 1..Len(added) : list.node[added[k]].prev = IF k = 1 THEN NULL ELSE added[k - 1]
<1>1. added \in Seq(Nodes) /\ Chain(list, added, Len(added))
  BY DEF CountsInv, ListLinked
<1>2. Len(added) \in Nat /\ (added = <<>> <=> Len(added) = 0)
  BY <1>1
<1>3. NULL \notin Nodes /\ IsFiniteSet(Nodes)
  BY SameCardinality DEF CountsAssumption, Counts!CountsAssumption
<1>4. PICK B \in Nat : B = Len(added)
  BY <1>2
<1>5. Chain(list, added, B)
  BY <1>1, <1>4
<1>6. /\ added \in [1..B -> Nodes]
      /\ \A k, m \in 1..B : added[k] = added[m] => k = m
      /\ \A x : x \in DOMAIN list.node <=> \E k \in 1..B : added[k] = x
      /\ list.head = IF B = 0 THEN NULL ELSE added[1]
      /\ list.tail = IF B = 0 THEN NULL ELSE added[B]
      /\ \A k \in 1..B : /\ list.node[added[k]].prev = IF k = 1 THEN NULL ELSE added[k - 1]
                         /\ list.node[added[k]].next = IF k = B THEN NULL ELSE added[k + 1]
  BY <1>5 DEF Chain
<1>7. added \in [1..B -> DOMAIN list.node] /\ \A k \in 1..B : added[k] \in DOMAIN list.node
  BY <1>6
<1>8. B <= Cardinality(Nodes)
  <2>1. added \in Injection(1..B, Nodes)
    BY <1>6 DEF Injection, IsInjective
  <2>2. Cardinality(1..B) <= Cardinality(Nodes)
    BY <1>3, <2>1, FS_Injection
  <2>3. Cardinality(1..B) = B
    BY FS_Interval
  <2> QED BY <2>2, <2>3
<1> QED BY <1>1, <1>2, <1>3, <1>4, <1>6, <1>7, <1>8

(* Who deletes the list meets every node once. *)
LEMMA WalksAdded ==
  ASSUME CountsAssumption, CountsInv
  PROVE  Counts!Walk(list) = Append(added, NULL)
<1>1. added \in Seq(Nodes) /\ Len(added) <= Cardinality(Nodes)
  BY AddedSpells
<1>2. list.head = IF added = <<>> THEN NULL ELSE added[1]
  BY AddedSpells
<1>3. \A k \in 1..Len(added) : list.node[added[k]].next = IF k = Len(added) THEN NULL ELSE added[k + 1]
  BY AddedSpells
<1> QED BY <1>1, <1>2, <1>3, WalkMeets

(* list_add_element: the new tail owns its element. *)
LEMMA AddOwns ==
  ASSUME CountsAssumption, CountsInv, NEW e \in Elements, Counts!list_add_element(e)
  PROVE  CountsInv'
<1>1. PICK x \in Nodes \ DOMAIN list.node : x = Counts!Min(Nodes \ DOMAIN list.node)
  BY LeastOf DEF Counts!list_add_element, CountsAssumption, Counts!CountsAssumption
<1>2. PICK new : new = Counts!With(list.node, x, [elem |-> e, prev |-> list.tail, next |-> NULL])
  OBVIOUS
<1>3. PICK g : g = WithNext(new, list.tail, x)
  OBVIOUS
<1>4. /\ held[e] > 0 /\ heap' = Counts!rc_keep_ref(heap, e)
      /\ list' = IF list.head = NULL THEN [head |-> x, tail |-> x, node |-> new]
                 ELSE [head |-> list.head, tail |-> x, node |-> g]
      /\ added' = Append(added, x) /\ UNCHANGED <<held, tree>>
  BY <1>1, <1>2, <1>3, Zenon DEF Counts!list_add_element, WithNext
<1>5. e \in DOMAIN heap
  BY <1>4 DEF CountsInv, HeapCounts
<1>6. added \in Seq(Nodes) /\ Chain(list, added, Len(added)) /\ list.node \in [DOMAIN list.node -> ListNode(DOMAIN heap)]
      /\ NULL \notin Nodes /\ Len(added) \in Nat
  BY AddedSpells DEF CountsInv, ListLinked
<1>7. Extended(list, x, e, list') /\ list'.node \in [DOMAIN list'.node -> ListNode(DOMAIN heap)]
  <2>1. PICK l2 : l2 = list'
    OBVIOUS
  <2>2. Extended(list, x, e, l2) /\ l2.node \in [DOMAIN l2.node -> ListNode(DOMAIN heap)]
    BY <1>2, <1>3, <1>4, <1>5, <1>6, <2>1, AddExtends
  <2> QED BY <2>1, <2>2
<1>8. /\ added' \in [1..(Len(added) + 1) -> Nodes] /\ added'[Len(added) + 1] = x
      /\ \A k \in 1..Len(added) : added'[k] = added[k]
      /\ added' \in Seq(Nodes) /\ Len(added') = Len(added) + 1
  BY <1>4, <1>6, AppendPlaces
<1>9. Chain(list', added', Len(added) + 1)
  <2>1. PICK a \in [1..(Len(added) + 1) -> Nodes] : a = added'
    BY <1>8
  <2>2. PICK B \in Nat : B = Len(added)
    BY <1>6
  <2>3. Chain(list, added, B) /\ a \in [1..(B + 1) -> Nodes] /\ a[B + 1] = x /\ \A k \in 1..B : a[k] = added[k]
    BY <1>6, <1>8, <2>1, <2>2
  <2>4. Chain(list', a, B + 1)
    BY <1>6, <1>7, <2>3, ChainAdd
  <2> QED BY <2>1, <2>2, <2>4
<1>10. \A d : OnList(d)' = (IF d = e THEN OnList(d) \cup {x} ELSE OnList(d)) /\ OnTree(d)' = OnTree(d)
  <2>1. DOMAIN list'.node = DOMAIN list.node \cup {x} /\ list'.node[x].elem = e
        /\ \A y \in DOMAIN list.node : list'.node[y].elem = list.node[y].elem
    BY <1>7 DEF Extended
  <2>2. ASSUME NEW d PROVE OnList(d)' = IF d = e THEN OnList(d) \cup {x} ELSE OnList(d)
    BY <1>1, <2>1 DEF OnList
  <2> QED BY <1>4, <2>2 DEF OnTree
<1>11. ASSUME NEW d \in DOMAIN heap PROVE Shares(d) \in Nat /\ Shares(d)' = Shares(d) + IF d = e THEN 1 ELSE 0
  <2>1. d \in Elements
    BY SharesNow
  <2>2. /\ Shares(d) \in Nat /\ held[d] \in Nat /\ Cardinality(OnList(d)) \in Nat /\ Cardinality(OnTree(d)) \in Nat
        /\ Shares(d) = held[d] + Cardinality(OnList(d)) + Cardinality(OnTree(d))
    BY <2>1, SharesNow
  <2>3. Shares(d)' = held[d] + Cardinality(OnList(d)') + Cardinality(OnTree(d))
    BY <1>4, <1>10 DEF Shares
  <2>4. IsFiniteSet(OnList(d)) /\ x \notin OnList(d)
    BY <1>1, FiniteOwners DEF OnList
  <2>5. CASE d = e
    <3>1. Cardinality(OnList(d) \cup {x}) = Cardinality(OnList(d)) + 1
      BY <2>4, FS_AddElement
    <3>2. OnList(d)' = OnList(d) \cup {x}
      BY <1>10, <2>5
    <3> QED BY <2>2, <2>3, <2>5, <3>1, <3>2
  <2>6. CASE d # e
    <3>1. OnList(d)' = OnList(d)
      BY <1>10, <2>6
    <3> QED BY <2>2, <2>3, <2>6, <3>1
  <2> QED BY <2>5, <2>6
<1>12. HeapCounts' /\ Stays /\ DOMAIN heap' = DOMAIN heap
  <2>1. held' \in [Elements -> Nat] /\ \A d \in Elements : held'[d] > 0 => held[d] > 0
    BY <1>4, SharesNow
  <2> QED BY <1>4, <1>5, <1>11, <2>1, OneMore
<1>13. ListLinked'
  BY <1>7, <1>8, <1>9, <1>12 DEF ListLinked
<1> QED BY <1>4, <1>12, <1>13, TreeKept DEF CountsInv

(* list_delete_element: the node is unlinked, and its reference given back. *)
LEMMA DeleteElementGives ==
  ASSUME CountsAssumption, CountsInv, NEW x \in DOMAIN list.node, Counts!list_delete_element(x)
  PROVE  CountsInv'
<1>1. PICK e \in DOMAIN heap : e = list.node[x].elem
  BY DEF CountsInv, ListLinked, ListNode
<1>2. /\ heap' = Counts!rc_free_ref(heap, e) /\ list' = Counts!Unlinked(list, x)
      /\ added' = Counts!Dropped(added, x) /\ UNCHANGED <<held, tree>>
  BY <1>1 DEF Counts!list_delete_element
<1>3. PICK f : f = list.node
  OBVIOUS
<1>4. f \in [DOMAIN f -> ListNode(DOMAIN heap)] /\ x \in DOMAIN f
  BY <1>3 DEF CountsInv, ListLinked
<1>5. PICK c \in 1..Len(added) : added[c] = x
  BY AddedSpells
<1>6. (x # list.head => f[x].prev \in DOMAIN f) /\ (x # list.tail => f[x].next \in DOMAIN f)
  <2>1. /\ c # 1 => added[c - 1] \in DOMAIN list.node
        /\ c # Len(added) => added[c + 1] \in DOMAIN list.node
    <3>1. Len(added) \in Nat /\ \A k \in 1..Len(added) : added[k] \in DOMAIN list.node
      BY AddedSpells
    <3>2. (c # 1 => c - 1 \in 1..Len(added)) /\ (c # Len(added) => c + 1 \in 1..Len(added))
      BY <1>5, <3>1
    <3> QED BY <3>1, <3>2
  <2>2. list.head = added[1] /\ list.tail = added[Len(added)]
    <3>1. added # <<>>
      <4>1. Len(<<>>) = 0 /\ Len(added) # 0
        <5>1. Len(added) \in Nat
          BY AddedSpells
        <5> QED BY <1>5, <5>1
      <4> QED BY <4>1
    <3>2. list.head = IF added = <<>> THEN NULL ELSE added[1]
      BY AddedSpells
    <3>3. list.tail = IF added = <<>> THEN NULL ELSE added[Len(added)]
      BY AddedSpells
    <3> QED BY <3>1, <3>2, <3>3
  <2>3. /\ f[x].next = IF c = Len(added) THEN NULL ELSE added[c + 1]
        /\ f[x].prev = IF c = 1 THEN NULL ELSE added[c - 1]
    <3>1. \A k \in 1..Len(added) : f[added[k]].next = IF k = Len(added) THEN NULL ELSE added[k + 1]
      BY <1>3, AddedSpells
    <3>2. \A k \in 1..Len(added) : f[added[k]].prev = IF k = 1 THEN NULL ELSE added[k - 1]
      BY <1>3, AddedSpells
    <3> QED BY <1>5, <3>1, <3>2
  <2> QED BY <1>3, <1>5, <2>1, <2>2, <2>3
<1>7. Cut(list, x, list') /\ list'.node \in [DOMAIN f \ {x} -> ListNode(DOMAIN heap)]
  <2>1. PICK S : S = DOMAIN f
    OBVIOUS
  <2>2. f \in [S -> ListNode(DOMAIN heap)] /\ x \in S /\ (x # list.head => f[x].prev \in S) /\ (x # list.tail => f[x].next \in S)
    BY <1>4, <1>6, <2>1
  <2>3. Cut(list, x, Counts!Unlinked(list, x)) /\ Counts!Unlinked(list, x).node \in [S \ {x} -> ListNode(DOMAIN heap)]
    BY <1>3, <2>2, UnlinkCuts
  <2> QED BY <1>2, <2>1, <2>3
<1>8. /\ added' \in [1..(Len(added) - 1) -> Nodes] /\ added' \in Seq(Nodes) /\ Len(added') = Len(added) - 1
      /\ \A k \in 1..(Len(added) - 1) : added'[k] = IF k < c THEN added[k] ELSE added[k + 1]
  <2>1. added \in Seq(Nodes) /\ \A k, m \in 1..Len(added) : added[k] = added[m] => k = m
    BY AddedSpells
  <2> QED BY <1>2, <1>5, <2>1, DroppedPlaces
<1>9. Chain(list', added', Len(added'))
  <2>1. PICK B \in Nat : B = Len(added)
    BY AddedSpells
  <2>2. PICK a \in [1..(B - 1) -> Nodes] : a = added'
    BY <1>8, <2>1
  <2>3. Chain(list, added, B) /\ c \in 1..B /\ NULL \notin Nodes
    BY <1>5, <2>1, AddedSpells DEF CountsInv, ListLinked
  <2>4. \A k \in 1..(B - 1) : a[k] = IF k < c THEN added[k] ELSE added[k + 1]
    BY <1>8, <2>1, <2>2
  <2>5. Cut(list, added[c], list')
    BY <1>5, <1>7
  <2>6. Chain(list', a, B - 1)
    BY <2>3, <2>4, <2>5, ChainCut
  <2> QED BY <1>8, <2>1, <2>2, <2>6
<1>10. \A d : OnList(d)' = (IF d = e THEN OnList(d) \ {x} ELSE OnList(d)) /\ OnTree(d)' = OnTree(d)
  BY <1>1, <1>2, <1>3, <1>4, <1>7 DEF OnList, OnTree, Cut
<1>11. PICK D : D = DOMAIN heap
  OBVIOUS
<1>12. PICK u : u = [d \in D |-> IF e = d THEN 1 ELSE 0]
  OBVIOUS
<1>13. u \in [DOMAIN heap -> Nat] /\ \A d \in DOMAIN heap : u[d] = IF e = d THEN 1 ELSE 0
  BY <1>11, <1>12
<1>14. heap' = Left(heap, u)
  <2>1. heap \in [D -> Counted] /\ e \in D
    BY <1>11, SharesNow
  <2>2. \A d \in D : 0 < heap[d].refcount
    <3>1. ASSUME NEW d \in DOMAIN heap PROVE 0 < heap[d].refcount
      BY SharesNow DEF Counted
    <3> QED BY <1>11, <3>1
  <2>3. Counts!rc_free_ref(heap, e) = Left(heap, [d \in D |-> IF e = d THEN 1 ELSE 0])
    BY <2>1, <2>2, LeftOne
  <2> QED BY <1>2, <1>12, <2>3
<1>15. ASSUME NEW d \in DOMAIN heap
       PROVE  /\ Cardinality(OnList(d))' \in Nat /\ Cardinality(OnTree(d))' \in Nat
              /\ Shares(d)' = Shares(d) - u[d]
              /\ OnList(d)' # {} => Shares(d)' > 0
              /\ OnTree(d) # {} => Shares(d)' > 0
  <2>1. d \in Elements
    BY SharesNow
  <2>2. /\ Shares(d) \in Nat /\ held[d] \in Nat /\ Cardinality(OnList(d)) \in Nat /\ Cardinality(OnTree(d)) \in Nat
        /\ Shares(d) = held[d] + Cardinality(OnList(d)) + Cardinality(OnTree(d))
        /\ OnTree(d) # {} => Cardinality(OnTree(d)) > 0
    BY <2>1, SharesNow
  <2>3. Shares(d)' = held[d] + Cardinality(OnList(d)') + Cardinality(OnTree(d))
    BY <1>2, <1>10 DEF Shares
  <2>4. IsFiniteSet(OnList(d))
    BY FiniteOwners
  <2>5. Cardinality(OnList(d)') \in Nat /\ Cardinality(OnList(d)') = Cardinality(OnList(d)) - u[d]
        /\ (OnList(d)' # {} => Cardinality(OnList(d)') > 0)
    <3>1. \A S : IsFiniteSet(S) => Cardinality(S) \in Nat /\ (S # {} => Cardinality(S) > 0)
      BY FS_CardinalityType, FS_EmptySet
    <3>2. CASE d = e
      <4>1. x \in OnList(d)
        BY <1>1, <3>2 DEF OnList
      <4>2. IsFiniteSet(OnList(d) \ {x}) /\ Cardinality(OnList(d) \ {x}) = Cardinality(OnList(d)) - 1
        BY <2>4, <4>1, FS_RemoveElement
      <4>3. OnList(d)' = OnList(d) \ {x} /\ u[d] = 1
        BY <1>10, <1>13, <3>2
      <4>4. /\ Cardinality(OnList(d) \ {x}) \in Nat
            /\ OnList(d) \ {x} # {} => Cardinality(OnList(d) \ {x}) > 0
        BY <3>1, <4>2
      <4> QED BY <4>2, <4>3, <4>4
    <3>3. CASE d # e
      <4>1. OnList(d)' = OnList(d) /\ u[d] = 0
        BY <1>10, <1>13, <3>3
      <4> QED BY <2>2, <2>4, <3>1, <4>1
    <3> QED BY <3>2, <3>3
  <2>6. Cardinality(OnTree(d))' = Cardinality(OnTree(d)) /\ u[d] \in Nat
    BY <1>10, <1>13
  <2>7. Shares(d)' = Shares(d) - u[d]
    <3>1. \A a, b, c1, m, k \in Nat : m = a - k => b + m + c1 = b + a + c1 - k
      OBVIOUS
    <3> QED BY <2>2, <2>3, <2>5, <2>6, <3>1
  <2>8. (OnList(d)' # {} => Shares(d)' > 0) /\ (OnTree(d) # {} => Shares(d)' > 0)
    BY <2>2, <2>3, <2>5
  <2>9. Cardinality(OnList(d))' \in Nat /\ Cardinality(OnTree(d))' \in Nat
    BY <2>2, <2>5, <2>6
  <2> QED BY <2>7, <2>8, <2>9
<1>16. /\ HeapCounts' /\ Stays
       /\ \A d \in DOMAIN heap : Shares(d)' > 0 => d \in DOMAIN heap'
  <2>1. held' \in [Elements -> Nat] /\ \A d \in Elements : held'[d] <= held[d]
    BY <1>2, SharesNow
  <2> QED BY <1>13, <1>14, <1>15, <2>1, GivenBack
<1>17. ListLinked'
  <2>1. PICK g : g = list'.node
    OBVIOUS
  <2>2. ASSUME NEW y \in DOMAIN g PROVE g[y].elem \in DOMAIN heap'
    <3>1. g[y].elem \in DOMAIN heap
      BY <1>7, <2>1 DEF ListNode
    <3>2. y \in OnList(g[y].elem)'
      BY <2>1 DEF OnList
    <3> QED BY <1>15, <1>16, <3>1, <3>2
  <2>3. g \in [DOMAIN g -> ListNode(DOMAIN heap)]
    BY <1>7, <2>1
  <2>4. g \in [DOMAIN g -> ListNode(DOMAIN heap')]
    BY <2>2, <2>3, NodesOwn
  <2> QED BY <1>8, <1>9, <2>1, <2>4 DEF ListLinked
<1> QED BY <1>2, <1>15, <1>16, <1>17, TreeKept DEF CountsInv

(* A sequence that lists a set, each member once; the elements that stand for its members;
   and elements that may be given back. *)
Lists(f, B, S) == /\ f \in [1..B -> S]
                  /\ \A k, m \in 1..B : f[k] = f[m] => k = m
                  /\ \A x \in S : \E k \in 1..B : f[k] = x

StandFor(es, g, f, B) == \A k \in 1..B : es[k] = g[f[k]]

Payable(h, D, es, B) == /\ h \in [D -> Counted]
                        /\ \A k \in 1..B : es[k] \in D
                        /\ \A e \in D : Uses(es, e, B) <= h[e].refcount /\ 0 < h[e].refcount

(* The two lemmas about them, in these terms. *)
LEMMA UsesHaving ==
  ASSUME NEW S, NEW B \in Nat, NEW f, Lists(f, B, S), NEW g, NEW es, StandFor(es, g, f, B), NEW e
  PROVE  Uses(es, e, B) = Cardinality(Having(S, g, e))
BY UsesOnce DEF Lists, StandFor

LEMMA PaidLeft ==
  ASSUME NEW D, NEW h, NEW B \in Nat, NEW es, Payable(h, D, es, B)
  PROVE  Len(es) = B => Counts!Released(h, es) = Left(h, [e \in D |-> Uses(es, e, B)])
BY ReleasedLeft DEF Payable

(* The elements of a container are given back as a whole. *)
LEMMA ReleaseCounts ==
  ASSUME CountsAssumption, CountsInv, NEW S, NEW g, NEW B \in Nat, NEW f, Lists(f, B, S),
         NEW es, StandFor(es, g, f, B), \A x \in S : g[x] \in DOMAIN heap,
         \A e \in DOMAIN heap : /\ Cardinality(Having(S, g, e)) \in Nat
                                /\ Cardinality(Having(S, g, e)) <= Shares(e),
         NEW c, c = [e \in DOMAIN heap |-> Cardinality(Having(S, g, e))]
  PROVE  c \in [DOMAIN heap -> Nat] /\ (Len(es) = B => Counts!Released(heap, es) = Left(heap, c))
<1>1. PICK D : D = DOMAIN heap
  OBVIOUS
<1>2. PICK h : h = heap
  OBVIOUS
<1>3. h \in [D -> Counted]
  BY <1>1, <1>2, SharesNow
<1>4. \A k \in 1..B : es[k] \in D
  BY <1>1 DEF StandFor, Lists
<1>5. ASSUME NEW e \in D PROVE Uses(es, e, B) = Cardinality(Having(S, g, e))
  BY UsesHaving
<1>6. ASSUME NEW e \in D PROVE Uses(es, e, B) <= h[e].refcount /\ 0 < h[e].refcount
  <2>1. h[e].refcount \in Nat
    BY <1>3 DEF Counted
  <2>2. h[e].refcount = Shares(e) /\ h[e].refcount > 0
    BY <1>1, <1>2, SharesNow
  <2>3. Cardinality(Having(S, g, e)) <= Shares(e)
    BY <1>1
  <2> QED BY <1>5, <2>1, <2>2, <2>3
<1>7. Len(es) = B => Counts!Released(h, es) = Left(h, [e \in D |-> Uses(es, e, B)])
  <2>1. Payable(h, D, es, B)
    BY <1>3, <1>4, <1>6 DEF Payable
  <2> QED BY <2>1, PaidLeft
<1>8. [e \in D |-> Uses(es, e, B)] = [e \in D |-> Cardinality(Having(S, g, e))]
  BY <1>5
<1>9. c = [e \in D |-> Uses(es, e, B)]
  BY <1>1, <1>8
<1> QED BY <1>1, <1>2, <1>7, <1>9

(* Without the NULL at its end a walk is the nodes. *)
LEMMA FrontOfAppend ==
  ASSUME NEW S, NEW s \in Seq(S), NEW x
  PROVE  Counts!Front(Append(s, x)) = s
<1>1. PICK a : a = Append(s, x)
  OBVIOUS
<1>2. /\ Len(a) = Len(s) + 1 /\ Len(s) \in Nat /\ a \in Seq(S \cup {x})
      /\ \A k \in 1..Len(s) : a[k] = s[k]
  BY <1>1
<1>3. Counts!Front(a) = SubSeq(a, 1, Len(s))
  BY <1>2 DEF Counts!Front
<1>4. SubSeq(a, 1, Len(s)) = s
  BY <1>2
<1> QED BY <1>1, <1>3, <1>4

(* list_delete: each node gives its reference back. *)
LEMMA DeleteListGives ==
  ASSUME CountsAssumption, CountsInv, Counts!list_delete
  PROVE  CountsInv'
<1>1. PICK es : es = [k \in 1..Len(added) |-> list.node[added[k]].elem]
  OBVIOUS
<1>2. /\ heap' = Counts!Released(heap, es) /\ list' = [head |-> NULL, tail |-> NULL, node |-> <<>>]
      /\ added' = <<>> /\ UNCHANGED <<held, tree>>
  <2>1. added \in Seq(Nodes)
    BY AddedSpells
  <2>2. Counts!Front(Counts!Walk(list)) = added
    BY <2>1, WalksAdded, FrontOfAppend
  <2> QED BY <1>1, <2>2 DEF Counts!list_delete, Counts!list_new
<1>3. PICK B \in Nat : B = Len(added)
  BY AddedSpells
<1>4. PICK S : S = DOMAIN list.node
  OBVIOUS
<1>5. PICK g : g = [x \in S |-> list.node[x].elem]
  OBVIOUS
<1>6. PICK f \in [1..B -> S] : f = added
  BY <1>3, <1>4, AddedSpells
<1>7. /\ \A k, m \in 1..B : f[k] = f[m] => k = m
      /\ \A x \in S : \E k \in 1..B : f[k] = x
      /\ \A k \in 1..B : added[k] \in S /\ f[k] = added[k]
  BY <1>3, <1>4, <1>6, AddedSpells
<1>8. Len(es) = B /\ \A k \in 1..B : es[k] = g[f[k]]
  <2>1. \A k \in 1..B : es[k] = list.node[added[k]].elem
    BY <1>1, <1>3
  <2>2. Len(es) = B
    BY <1>1, <1>3
  <2> QED BY <1>5, <1>7, <2>1, <2>2
<1>9. \A e : Having(S, g, e) = OnList(e)
  BY <1>4, <1>5 DEF OnList, Having
<1>10. \A x \in S : g[x] \in DOMAIN heap
  BY <1>4, <1>5 DEF CountsInv, ListLinked, ListNode
<1>11. ASSUME NEW e \in DOMAIN heap
       PROVE  /\ Cardinality(OnList(e)) \in Nat /\ Cardinality(OnTree(e)) \in Nat /\ held[e] \in Nat
              /\ Shares(e) = held[e] + Cardinality(OnList(e)) + Cardinality(OnTree(e))
              /\ Cardinality(OnList(e)) <= Shares(e)
              /\ OnTree(e) # {} => Cardinality(OnTree(e)) > 0
  <2>1. e \in Elements
    BY SharesNow
  <2>2. /\ Cardinality(OnList(e)) \in Nat /\ Cardinality(OnTree(e)) \in Nat /\ held[e] \in Nat
        /\ Shares(e) = held[e] + Cardinality(OnList(e)) + Cardinality(OnTree(e))
        /\ OnTree(e) # {} => Cardinality(OnTree(e)) > 0
    BY <2>1, SharesNow
  <2> QED BY <2>2
<1>12. PICK c : c = [e \in DOMAIN heap |-> Cardinality(Having(S, g, e))]
  OBVIOUS
<1>13. heap' = Left(heap, c) /\ c \in [DOMAIN heap -> Nat]
  <2>1. ASSUME NEW e \in DOMAIN heap
        PROVE  /\ Cardinality(Having(S, g, e)) \in Nat
               /\ Cardinality(Having(S, g, e)) <= Shares(e)
    BY <1>9, <1>11
  <2>2. Lists(f, B, S) /\ StandFor(es, g, f, B)
    BY <1>7, <1>8 DEF Lists, StandFor
  <2>3. c \in [DOMAIN heap -> Nat] /\ (Len(es) = B => Counts!Released(heap, es) = Left(heap, c))
    BY <1>10, <1>12, <2>1, <2>2, ReleaseCounts
  <2> QED BY <1>2, <1>8, <2>3
<1>14. \A d : OnList(d)' = {} /\ OnTree(d)' = OnTree(d)
  BY <1>2 DEF OnList, OnTree
<1>15. ASSUME NEW d \in DOMAIN heap
       PROVE  /\ Cardinality(OnList(d))' \in Nat /\ Cardinality(OnTree(d))' \in Nat
              /\ Shares(d)' = Shares(d) - c[d]
              /\ OnTree(d) # {} => Shares(d)' > 0
  <2>1. c[d] = Cardinality(OnList(d))
    BY <1>9, <1>12
  <2>2. OnList(d)' = {} /\ OnTree(d)' = OnTree(d) /\ Cardinality({}) = 0
    BY <1>14, FS_EmptySet
  <2>3. Shares(d)' = held[d] + 0 + Cardinality(OnTree(d))
    BY <1>2, <2>2 DEF Shares
  <2> QED BY <1>11, <2>1, <2>2, <2>3
<1>16. /\ HeapCounts' /\ Stays
       /\ \A d \in DOMAIN heap : Shares(d)' > 0 => d \in DOMAIN heap'
  <2>1. held' \in [Elements -> Nat] /\ \A d \in Elements : held'[d] <= held[d]
    BY <1>2, SharesNow
  <2> QED BY <1>13, <1>15, <2>1, GivenBack
<1>17. ListLinked'
  <2>1. /\ DOMAIN list'.node = {} /\ Len(added') = 0 /\ added' \in Seq(Nodes)
        /\ list'.head = NULL /\ list'.tail = NULL
        /\ list'.node \in [{} -> ListNode(DOMAIN heap')] /\ added' \in [1..0 -> Nodes]
    BY <1>2
  <2>2. Chain(list', added', 0)
    BY <2>1 DEF Chain
  <2> QED BY <2>1, <2>2 DEF ListLinked
<1> QED BY <1>2, <1>15, <1>16, <1>17, TreeKept DEF CountsInv

(* tree_delete: each node gives its reference back. *)
LEMMA DeleteTreeGives ==
  ASSUME CountsAssumption, CountsInv, Counts!tree_delete
  PROVE  CountsInv'
<1>1. PICK S : S = DOMAIN tree
  OBVIOUS
<1>2. IsFiniteSet(S) /\ \A x \in S : tree[x] \in DOMAIN heap
  BY <1>1 DEF CountsInv, TreeGrown
<1>3. PICK ps : ps = Counts!SetToSeq(S)
  OBVIOUS
<1>4. PICK B \in Nat : B = Cardinality(S)
  BY <1>2, FS_CardinalityType
<1>5. PICK f \in [1..B -> S] : f = ps
  BY <1>2, <1>3, <1>4, ListsOnce
<1>6. /\ \A k, m \in 1..B : f[k] = f[m] => k = m
      /\ \A x \in S : \E k \in 1..B : f[k] = x
  BY <1>2, <1>3, <1>4, <1>5, ListsOnce
<1>7. PICK es : es = [k \in 1..Len(ps) |-> tree[ps[k]]]
  OBVIOUS
<1>8. Len(es) = B /\ \A k \in 1..B : es[k] = tree[f[k]]
  <2>1. Len(ps) = B
    BY <1>5
  <2>2. Len(es) = B
    BY <1>7, <2>1
  <2> QED BY <1>5, <1>7, <2>1, <2>2
<1>9. heap' = Counts!Released(heap, es) /\ tree' = <<>> /\ UNCHANGED <<held, list, added>>
  BY <1>1, <1>3, <1>7 DEF Counts!tree_delete
<1>10. \A e : Having(S, tree, e) = OnTree(e)
  BY <1>1 DEF OnTree, Having
<1>11. ASSUME NEW e \in DOMAIN heap
       PROVE  /\ Cardinality(OnList(e)) \in Nat /\ Cardinality(OnTree(e)) \in Nat /\ held[e] \in Nat
              /\ Shares(e) = held[e] + Cardinality(OnList(e)) + Cardinality(OnTree(e))
              /\ Cardinality(OnTree(e)) <= Shares(e)
              /\ OnList(e) # {} => Cardinality(OnList(e)) > 0
  <2>1. e \in Elements
    BY SharesNow
  <2>2. /\ Cardinality(OnList(e)) \in Nat /\ Cardinality(OnTree(e)) \in Nat /\ held[e] \in Nat
        /\ Shares(e) = held[e] + Cardinality(OnList(e)) + Cardinality(OnTree(e))
        /\ OnList(e) # {} => Cardinality(OnList(e)) > 0
    BY <2>1, SharesNow
  <2> QED BY <2>2
<1>12. PICK c : c = [e \in DOMAIN heap |-> Cardinality(Having(S, tree, e))]
  OBVIOUS
<1>13. heap' = Left(heap, c) /\ c \in [DOMAIN heap -> Nat]
  <2>1. ASSUME NEW e \in DOMAIN heap
        PROVE  /\ Cardinality(Having(S, tree, e)) \in Nat
               /\ Cardinality(Having(S, tree, e)) <= Shares(e)
    BY <1>10, <1>11
  <2>2. Lists(f, B, S) /\ StandFor(es, tree, f, B)
    BY <1>6, <1>8 DEF Lists, StandFor
  <2>3. PICK g : g = tree
    OBVIOUS
  <2>4. /\ StandFor(es, g, f, B) /\ \A x \in S : g[x] \in DOMAIN heap
        /\ c = [e \in DOMAIN heap |-> Cardinality(Having(S, g, e))]
        /\ \A e \in DOMAIN heap : /\ Cardinality(Having(S, g, e)) \in Nat
                                 /\ Cardinality(Having(S, g, e)) <= Shares(e)
    BY <1>2, <1>12, <2>1, <2>2, <2>3
  <2>5. c \in [DOMAIN heap -> Nat] /\ (Len(es) = B => Counts!Released(heap, es) = Left(heap, c))
    BY <2>2, <2>4, ReleaseCounts
  <2> QED BY <1>8, <1>9, <2>5
<1>14. \A d : OnTree(d)' = {} /\ OnList(d)' = OnList(d)
  BY <1>9 DEF OnList, OnTree
<1>15. ASSUME NEW d \in DOMAIN heap
       PROVE  /\ Cardinality(OnList(d))' \in Nat /\ Cardinality(OnTree(d))' \in Nat
              /\ Shares(d)' = Shares(d) - c[d]
              /\ OnList(d) # {} => Shares(d)' > 0
  <2>1. c[d] = Cardinality(OnTree(d))
    BY <1>10, <1>12
  <2>2. OnTree(d)' = {} /\ OnList(d)' = OnList(d) /\ Cardinality({}) = 0
    BY <1>14, FS_EmptySet
  <2>3. Shares(d)' = held[d] + Cardinality(OnList(d)) + 0
    BY <1>9, <2>2 DEF Shares
  <2> QED BY <1>11, <2>1, <2>2, <2>3
<1>16. /\ HeapCounts' /\ Stays
       /\ \A d \in DOMAIN heap : Shares(d)' > 0 => d \in DOMAIN heap'
  <2>1. held' \in [Elements -> Nat] /\ \A d \in Elements : held'[d] <= held[d]
    BY <1>9, SharesNow
  <2> QED BY <1>13, <1>15, <2>1, GivenBack
<1>17. TreeGrown'
  <2>1. DOMAIN tree' = {} /\ tree' \in [{} -> DOMAIN heap'] /\ IsFiniteSet({})
    BY <1>9, FS_EmptySet
  <2> QED BY <2>1 DEF TreeGrown
<1> QED BY <1>9, <1>15, <1>16, <1>17, ListKept DEF CountsInv

(* A comparison says what it said as long as the elements are allocated. *)
LEMMA SideKept ==
  ASSUME Stays, NEW d \in DOMAIN heap, d \in DOMAIN heap', NEW q, tree'[q] = tree[q],
         tree[q] \in DOMAIN heap, tree[q] \in DOMAIN heap'
  PROVE  Side(d, q)' = Side(d, q)
<1>1. Counts!compare(heap[d], heap[tree[q]]) = Counts!compare(heap'[d], heap'[tree[q]])
  BY SameCompare DEF Stays
<1> QED BY <1>1 DEF Side

(* The nodes above a node. *)
LEMMA WaysUp ==
  ASSUME CountsInv, NEW p \in DOMAIN tree
  PROVE  /\ p \in Seq(Ways) /\ tree[p] \in DOMAIN heap
         /\ \A k \in 0..Len(p) : SubSeq(p, 1, k) \in DOMAIN tree
         /\ \A k \in 1..Len(p) : SubSeq(p, 1, k - 1) \in DOMAIN tree /\ p[k] = Side(tree[p], SubSeq(p, 1, k - 1))
<1>1. /\ p \in Seq(Ways) /\ tree[p] \in DOMAIN heap
      /\ \A k \in 0..Len(p) : SubSeq(p, 1, k) \in DOMAIN tree
      /\ \A k \in 1..Len(p) : p[k] = Side(tree[p], SubSeq(p, 1, k - 1))
  BY DEF CountsInv, TreeGrown
<1>2. \A k \in 1..Len(p) : k - 1 \in 0..Len(p)
  BY <1>1
<1> QED BY <1>1, <1>2

(* tree_insert_node: the new node owns its element, at the place the comparisons lead to. *)
LEMMA InsertOwns ==
  ASSUME CountsAssumption, CountsInv, NEW e \in Elements, Counts!tree_insert_node(e)
  PROVE  CountsInv'
<1>1. PICK p : p = Counts!PlaceOf(e)
  OBVIOUS
<1>2. /\ held[e] > 0 /\ \A q \in DOMAIN tree : Len(q) < Height - 1
      /\ heap' = Counts!rc_keep_ref(heap, e) /\ tree' = Counts!With(tree, p, e)
      /\ UNCHANGED <<held, list, added>>
  BY <1>1 DEF Counts!tree_insert_node
<1>3. e \in DOMAIN heap
  BY <1>2 DEF CountsInv, HeapCounts
<1>4. p \in Seq(Ways) /\ p \notin DOMAIN tree /\ Leads(e, p)
  <2>1. \A q \in DOMAIN tree : q \in Seq(Ways) /\ Len(q) < Height - 1
    BY <1>2, WaysUp
  <2> QED BY <1>1, <2>1, PlaceFound
<1>5. /\ DOMAIN tree' = DOMAIN tree \cup {p} /\ tree'[p] = e
      /\ \A q \in DOMAIN tree : tree'[q] = tree[q]
      /\ tree' = [q \in DOMAIN tree' |-> tree'[q]]
  BY <1>2, <1>4 DEF Counts!With
<1>6. \A d : OnTree(d)' = (IF d = e THEN OnTree(d) \cup {p} ELSE OnTree(d)) /\ OnList(d)' = OnList(d)
  BY <1>2, <1>4, <1>5 DEF OnTree, OnList
<1>7. ASSUME NEW d \in DOMAIN heap PROVE Shares(d) \in Nat /\ Shares(d)' = Shares(d) + IF d = e THEN 1 ELSE 0
  <2>1. d \in Elements
    BY SharesNow
  <2>2. /\ Shares(d) \in Nat /\ held[d] \in Nat /\ Cardinality(OnList(d)) \in Nat /\ Cardinality(OnTree(d)) \in Nat
        /\ Shares(d) = held[d] + Cardinality(OnList(d)) + Cardinality(OnTree(d))
    BY <2>1, SharesNow
  <2>3. Shares(d)' = held[d] + Cardinality(OnList(d)) + Cardinality(OnTree(d)')
    BY <1>2, <1>6 DEF Shares
  <2>4. IsFiniteSet(OnTree(d)) /\ p \notin OnTree(d)
    BY <1>4, FiniteOwners DEF OnTree
  <2>5. CASE d = e
    <3>1. Cardinality(OnTree(d) \cup {p}) = Cardinality(OnTree(d)) + 1
      BY <2>4, FS_AddElement
    <3>2. OnTree(d)' = OnTree(d) \cup {p}
      BY <1>6, <2>5
    <3> QED BY <2>2, <2>3, <2>5, <3>1, <3>2
  <2>6. CASE d # e
    <3>1. OnTree(d)' = OnTree(d)
      BY <1>6, <2>6
    <3> QED BY <2>2, <2>3, <2>6, <3>1
  <2> QED BY <2>5, <2>6
<1>8. HeapCounts' /\ Stays /\ DOMAIN heap' = DOMAIN heap
  <2>1. held' \in [Elements -> Nat] /\ \A d \in Elements : held'[d] > 0 => held[d] > 0
    BY <1>2, SharesNow
  <2> QED BY <1>2, <1>3, <1>7, <2>1, OneMore
<1>9. IsFiniteSet(DOMAIN tree')
  BY <1>5, FS_AddElement DEF CountsInv, TreeGrown
<1>10. tree' \in [DOMAIN tree' -> DOMAIN heap']
  <2>1. \A q \in DOMAIN tree : tree[q] \in DOMAIN heap
    BY WaysUp
  <2>2. \A q \in DOMAIN tree' : tree'[q] \in DOMAIN heap'
    BY <1>3, <1>5, <1>8, <2>1
  <2> QED BY <1>5, <2>2
<1>11. ASSUME NEW q \in DOMAIN tree'
       PROVE  q \in Seq(Ways) /\ \A k \in 0..Len(q) : SubSeq(q, 1, k) \in DOMAIN tree'
  <2>1. CASE q \in DOMAIN tree
    BY <1>5, <2>1, WaysUp
  <2>2. CASE q = p
    <3>1. ASSUME NEW k \in 0..Len(p), k # Len(p) PROVE SubSeq(p, 1, k) \in DOMAIN tree
      <4>1. k + 1 \in 1..Len(p) /\ (k + 1) - 1 = k
        BY <1>4, <3>1
      <4>2. SubSeq(p, 1, (k + 1) - 1) \in DOMAIN tree
        BY <1>4, <4>1 DEF Leads
      <4> QED BY <4>1, <4>2
    <3>2. SubSeq(p, 1, Len(p)) = p
      BY <1>4
    <3> QED BY <1>4, <1>5, <2>2, <3>1, <3>2
  <2> QED BY <1>5, <2>1, <2>2
<1>12. ASSUME NEW q \in DOMAIN tree', NEW k \in 1..Len(q)
       PROVE  q[k] = Side(tree[q], SubSeq(q, 1, k - 1))'
  <2>1. PICK r : r = SubSeq(q, 1, k - 1)
    OBVIOUS
  <2>2. PICK d : d = tree'[q]
    OBVIOUS
  <2>3. r \in DOMAIN tree /\ q[k] = Side(d, r) /\ d \in DOMAIN heap
    <3>1. CASE q \in DOMAIN tree
      BY <1>5, <2>1, <2>2, <3>1, WaysUp
    <3>2. CASE q = p
      BY <1>3, <1>4, <1>5, <2>1, <2>2, <3>2 DEF Leads
    <3> QED BY <1>5, <3>1, <3>2
  <2>4. tree'[r] = tree[r] /\ tree[r] \in DOMAIN heap
    BY <1>5, <2>3, WaysUp
  <2>5. Side(d, r)' = Side(d, r)
    BY <1>8, <2>3, <2>4, SideKept
  <2> QED BY <2>1, <2>2, <2>3, <2>5 DEF Side
<1>13. TreeGrown'
  BY <1>9, <1>10, <1>11, <1>12 DEF TreeGrown
<1> QED BY <1>2, <1>8, <1>13, ListKept DEF CountsInv

-----------------------------------------------------------------------------
(* Every call keeps the invariant. *)
LEMMA CountsStep ==
  ASSUME CountsAssumption, CountsInv, [Counts!Next]_(Counts!vars)
  PROVE  CountsInv'
<1>1. CASE UNCHANGED Counts!vars
  <2>1. UNCHANGED <<heap, held, list, tree, added>>
    BY <1>1 DEF Counts!vars
  <2>2. \A d : OnList(d)' = OnList(d) /\ OnTree(d)' = OnTree(d)
    BY <2>1 DEF OnList, OnTree
  <2>3. \A d : Shares(d)' = Shares(d)
    BY <2>1, <2>2 DEF Shares
  <2>4. HeapCounts' /\ Stays
    BY <2>1, <2>3 DEF CountsInv, HeapCounts, Stays
  <2> QED BY <2>1, <2>4, ListKept, TreeKept DEF CountsInv
<1>2. ASSUME NEW v \in Values, Counts!int_element_new(v) \/ Counts!str_element_new(v) PROVE CountsInv'
  BY <1>2, Allocates DEF Counts!int_element_new, Counts!str_element_new
<1>3. ASSUME NEW e \in Elements,
             \/ Counts!Keep(e) \/ Counts!FreeRef(e)
             \/ Counts!list_add_element(e) \/ Counts!tree_insert_node(e)
      PROVE  CountsInv'
  BY <1>3, KeepKeeps, FreeRefGives, AddOwns, InsertOwns
<1>4. ASSUME NEW x \in DOMAIN list.node, Counts!list_node_get_element(x) \/ Counts!list_delete_element(x)
      PROVE  CountsInv'
  BY <1>4, GetElementKeeps, DeleteElementGives
<1>5. CASE Counts!list_delete
  BY <1>5, DeleteListGives
<1>6. CASE Counts!tree_delete
  BY <1>6, DeleteTreeGives
<1> QED BY <1>1, <1>2, <1>3, <1>4, <1>5, <1>6 DEF Counts!Next

(* The parts of OwnersCounted follow from it. *)
LEMMA WithOwners ==
  ASSUME CountsAssumption, CountsInv, NEW e \in DOMAIN heap
  PROVE  Counts!Owners(e)
<1>1. heap[e].refcount > 0 /\ heap[e].refcount = held[e] + Cardinality(OnList(e)) + Cardinality(OnTree(e))
  BY DEF CountsInv, HeapCounts, Shares
<1>2. /\ Counts!Quantify(DOMAIN list.node, LAMBDA x : list.node[x].elem = e) = Cardinality(OnList(e))
      /\ Counts!Quantify(DOMAIN tree, LAMBDA p : tree[p] = e) = Cardinality(OnTree(e))
  BY SameCardinality DEF Counts!Quantify, OnList, OnTree
<1> QED BY <1>1, <1>2, SameCardinality DEF Counts!Owners, Counts!Quantify, OnList, OnTree

LEMMA WithLinks ==
  ASSUME CountsAssumption, CountsInv
  PROVE  Counts!LinksSpellAdded
<1>1. Counts!Walk(list) = Append(added, NULL)
  BY WalksAdded
<1>2. added \in Seq(Nodes) /\ DOMAIN added = 1..Len(added)
  BY AddedSpells
<1>3. DOMAIN list.node = Counts!Range(added)
  <2>1. Counts!Range(added) = {added[k] : k \in DOMAIN added}
    BY DEF Counts!Range
  <2>2. \A k \in 1..Len(added) : added[k] \in DOMAIN list.node
    BY AddedSpells
  <2>3. \A x \in DOMAIN list.node : \E k \in 1..Len(added) : added[k] = x
    BY AddedSpells
  <2> QED BY <1>2, <2>1, <2>2, <2>3
<1>4. list.tail = IF added = <<>> THEN NULL ELSE Counts!Last(added)
  BY AddedSpells DEF Counts!Last
<1>5. \A k \in DOMAIN added : list.node[added[k]].prev = IF k = 1 THEN NULL ELSE added[k - 1]
  BY <1>2, AddedSpells
<1> QED BY <1>1, <1>3, <1>4, <1>5 DEF Counts!LinksSpellAdded

LEMMA WithOrder ==
  ASSUME CountsAssumption, CountsInv
  PROVE  Counts!TreeSorted
<1> SUFFICES ASSUME NEW p \in DOMAIN tree, NEW q \in DOMAIN tree, Counts!IsStrictPrefix(p, q)
             PROVE  Counts!compare(heap[tree[q]], heap[tree[p]]) <= 0 <=> q[Len(p) + 1] = "left"
  BY DEF Counts!TreeSorted
<1>1. p \in Seq(Ways) /\ q \in Seq(Ways)
  BY WaysUp
<1>2. Len(p) < Len(q) /\ SubSeq(q, 1, Len(p)) = p
  <2>1. Counts!IsPrefix(p, q) /\ p # q
    BY DEF Counts!IsStrictPrefix
  <2>2. Len(p) <= Len(q) /\ SubSeq(p, 1, Len(p)) = SubSeq(q, 1, Len(p))
    BY <2>1 DEF Counts!IsPrefix
  <2>3. SubSeq(p, 1, Len(p)) = p /\ SubSeq(q, 1, Len(q)) = q
    BY <1>1
  <2>4. Len(p) # Len(q)
    BY <2>1, <2>2, <2>3
  <2>5. Len(p) \in Nat /\ Len(q) \in Nat
    BY <1>1
  <2>6. Len(p) < Len(q)
    BY <2>2, <2>4, <2>5
  <2>7. SubSeq(q, 1, Len(p)) = p
    BY <2>2, <2>3
  <2> QED BY <2>6, <2>7
<1>3. PICK k \in 1..Len(q) : k = Len(p) + 1
  BY <1>1, <1>2
<1>4. q[k] = Side(tree[q], SubSeq(q, 1, k - 1)) /\ SubSeq(q, 1, k - 1) = p
  BY <1>1, <1>2, <1>3, WaysUp
<1>5. q[Len(p) + 1] = Side(tree[q], p)
  BY <1>3, <1>4
<1> QED BY <1>5 DEF Side

LEMMA WithCounts ==
  ASSUME CountsAssumption, CountsInv
  PROVE  Counts!OwnersCounted
<1>1. \A x \in DOMAIN list.node : list.node[x].elem \in DOMAIN heap
  BY DEF CountsInv, ListLinked, ListNode
<1>2. Counts!Range(tree) \subseteq DOMAIN heap
  BY WaysUp DEF Counts!Range
<1>3. \A e \in Elements : held[e] > 0 => e \in DOMAIN heap
  BY DEF CountsInv, HeapCounts
<1>4. \A e \in DOMAIN heap : Counts!Owners(e)
  BY WithOwners
<1> QED BY <1>1, <1>2, <1>3, <1>4, WithLinks, WithOrder DEF Counts!OwnersCounted

(* The other structures leave the elements alone. *)
LEMMA CountsActs ==
  ASSUME [Next]_<<structure, queueVars, heapVars, testVars, countVars, listVars, programVars>>
  PROVE  [Counts!Next]_(Counts!vars)
BY Zenon DEF Next, Counts!vars, countVars

(* refcount.c, list.c:19-92, tree.c:26-91: for any contents and any number of elements, nodes and
   references, and whatever order the client calls the interfaces in, an allocated element is
   counted once for each of its owners; who owns an element finds it allocated; and the links
   and comparisons reach every node, so that deleting a list or a tree gives all it owns back. *)
THEOREM OwnersCountedCorrect == Spec => []OwnersCounted
<1>1. Init => CountsInv
  <2>1. Init => Counts!Init
    BY Zenon DEF Init
  <2> QED BY <2>1, CountsAssumption, CountsInit
<1>2. CountsInv /\ [Next]_<<structure, queueVars, heapVars, testVars, countVars, listVars, programVars>>
        => CountsInv'
  BY CountsAssumption, CountsActs, CountsStep
<1>3. CountsInv => OwnersCounted
  BY CountsAssumption, WithCounts DEF OwnersCounted
<1> QED BY <1>1, <1>2, <1>3, PTL DEF Spec
=============================================================================
