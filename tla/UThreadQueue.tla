---------------------------- MODULE UThreadQueue ----------------------------
(***************************************************************************)
(* uthread_queue_t of a10/uthreads/uthread.c: queues linked through the one *)
(* `next` field of a thread control block, so that a thread can be on one   *)
(* queue at a time.  The library moves threads between the ready queue and  *)
(* the queues of mutexes, condition variables and semaphores this way.      *)
(***************************************************************************)
EXTENDS Naturals, Sequences, Functions

CONSTANTS Threads, Queues, Null

NullAssumption == Null \notin Threads

VARIABLES
  next,     \* thread->next
  head,     \* queue->head
  tail,     \* queue->tail
  content   \* ghost: the FIFO queues the callers believe in

links == <<next, head, tail>>
vars == <<links, content>>

(* uthread_initqueue, and next = NULL in uthread_alloc *)
Init ==
  /\ next = [t \in Threads |-> Null]
  /\ head = [q \in Queues |-> Null]
  /\ tail = [q \in Queues |-> Null]
  /\ content = [q \in Queues |-> <<>>]

ListedByNext(q, t) == next[t] # Null
AlreadyEnqueued(q, t) == next[t] # Null \/ t = tail[q]

(* uthread_enqueue *)
Link(q, t) ==
  IF AlreadyEnqueued(q, t) THEN UNCHANGED links
  ELSE /\ next' = [u \in Threads |-> IF u = tail[q] THEN t ELSE IF u = t THEN Null ELSE next[u]]
       /\ tail' = [tail EXCEPT ![q] = t]
       /\ head' = [head EXCEPT ![q] = IF @ = Null THEN t ELSE @]

KeepTail(q) == tail
TailAfter(q) == IF next[head[q]] = Null THEN [tail EXCEPT ![q] = Null] ELSE tail

(* uthread_dequeue, from a queue that is not empty *)
Unlink(q) ==
  /\ head' = [head EXCEPT ![q] = next[head[q]]]
  /\ next' = [next EXCEPT ![head[q]] = Null]
  /\ tail' = TailAfter(q)

OnSome(t) == \E q \in Queues : t \in Range(content[q])

(* The callers enqueue a thread that is on no queue, or once more on the same one
   (uthread_unblock of a thread that is ready already). *)
Enqueue(q, t) ==
  \/ /\ ~OnSome(t) /\ Link(q, t)
     /\ content' = [content EXCEPT ![q] = Append(@, t)]
  \/ /\ t \in Range(content[q]) /\ Link(q, t)
     /\ UNCHANGED content

Dequeue(q) ==
  /\ head[q] # Null /\ Unlink(q)
  /\ content' = [content EXCEPT ![q] = IF @ = <<>> THEN <<>> ELSE Tail(@)]

Next == \E q \in Queues : Dequeue(q) \/ \E t \in Threads : Enqueue(q, t)

Spec == Init /\ [][Next]_vars

(***************************************************************************)
(* Properties.                                                              *)
(***************************************************************************)
(* The links of every queue spell out the FIFO queue of its callers: head to tail along
   next, in order, and no link left over on a thread that is on no queue.  The test for
   a thread that is there already, made without walking the list, rests on it. *)
LinksSpellContent ==
  /\ \A q \in Queues : LET c == content[q] IN
       IF c = <<>> THEN head[q] = Null /\ tail[q] = Null
       ELSE /\ head[q] = c[1] /\ tail[q] = c[Len(c)]
            /\ \A i \in 1 .. Len(c) : next[c[i]] = IF i < Len(c) THEN c[i + 1] ELSE Null
  /\ \A t \in Threads : ~OnSome(t) => next[t] = Null
=============================================================================
