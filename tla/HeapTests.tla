----------------------------- MODULE HeapTests -----------------------------
(***************************************************************************)
(* The test program of a05/main.c, which drives the allocator.  A test is a *)
(* script of steps on numbered pointers; the tests of the program have      *)
(* thousands of steps on a megabyte, these have fewer of each kind on a     *)
(* heap that they fill as those fill theirs.                                *)
(***************************************************************************)
EXTENDS Heap, Integers, Sequences

CONSTANTS Buckets,  \* SIMPLE_, FIXED_NBUCKETS, COALESCE1_, COALESCE2_COUNT
          Iters     \* SIMPLE_, FIXED_, RAND_ITERS

(* test_coalesce1 frees its third chunk. *)
TestsAssumption == Buckets \in Nat /\ Buckets >= 3 /\ Iters \in Nat

VARIABLES test, step,  \* the test that runs, and where in its script
          ptrs, sizes,
          bucket,      \* what the pointer under way will be in ptrs
          failed       \* a test returned -1

testVars == <<test, step, ptrs, sizes, bucket, failed>>

Chunk == HEADER_SIZE
Pointers == 1..(Buckets + 2)

(* malloc to bucket, checked against the pointers in others; for a freelist test, it must
   be one of those in reused *)
Take(b, size, others, reused) ==
  [op |-> "malloc", at |-> {b}, size |-> size, others |-> others, reused |-> reused]
(* free, and set the pointer to NULL or not *)
Drop(B) == [op |-> "free", at |-> B]
Release(b) == [op |-> "release", at |-> {b}]
(* free what is allocated, allocate what is not *)
Toggle(B) == [op |-> "toggle", at |-> B, others |-> 1..Buckets, reused |-> {}]

test_sanity == <<Take(1, 16, {}, {}), Release(1)>>

test_freelist1 == <<Take(1, 16, {}, {}), Release(1), Take(2, 16, {}, {1})>>

test_freelist2 == <<Take(1, 16, {1, 2}, {}), Take(2, 16, {1, 2}, {}), Release(1), Release(2),
                    Take(3, 16, {3, 4}, {1, 2}), Take(4, 16, {3, 4}, {1, 2}),
                    Release(3), Release(4)>>

test_simple == [i \in 1..Iters |-> Toggle({((i - 1) % Buckets) + 1})]
test_fixedsize == [i \in 1..Iters |-> Toggle({((i - 1) % Buckets) + 1})]

(* one bucket less, so that whatever is allocated would fit several times *)
test_random == [i \in 1..Iters |-> Toggle(1..(Buckets - 1))]

test_coalesce1 ==
  LET all == 1..Buckets
  IN [i \in all |-> Take(i, Chunk, all, {})]
     \o <<Drop({2}), Drop({3}), Take(Buckets + 1, 2 * Chunk, all, {}),
          Drop({Buckets + 1}), Drop({1}), Take(Buckets + 2, 3 * Chunk, all, {}),
          Drop({Buckets + 2})>>

(* the pointers are shuffled: they are freed in any order *)
test_coalesce2 ==
  LET all == 1..Buckets
  IN [i \in all |-> Take(i, Chunk, all, {})] \o [i \in all |-> Drop(all)]
     \o <<Take(Buckets + 1, Buckets * Chunk, {}, {})>>

testfuncs == [sanity |-> test_sanity, freelist1 |-> test_freelist1,
              freelist2 |-> test_freelist2, simple |-> test_simple,
              fixedsize |-> test_fixedsize, random |-> test_random,
              coalesce1 |-> test_coalesce1, coalesce2 |-> test_coalesce2]

SizesOf(name) ==
  CASE name = "simple" -> {[b \in Pointers |-> (b - 1) * 8]}
    [] name = "random" -> {[b \in Pointers |-> IF b < Buckets THEN s[b] ELSE 0] :
                                s \in [1..(Buckets - 1) -> {0, 4, 16}]}
    [] OTHER           -> {[b \in Pointers |-> Chunk]}

-----------------------------------------------------------------------------
TestsInit == /\ test = NULL /\ step = 1
             /\ ptrs = [b \in Pointers |-> NULL] /\ sizes = [b \in Pointers |-> Chunk]
             /\ bucket = 1 /\ failed = FALSE

(* the argument names a test; "all" is each of them, on a heap of its own *)
main == /\ test = NULL
        /\ test' \in DOMAIN testfuncs
        /\ sizes' \in SizesOf(test')
        /\ UNCHANGED <<step, ptrs, bucket, failed, vars>>

Script == testfuncs[test]
Doing == Script[step]

Exits == test # NULL /\ step > Len(Script) /\ UNCHANGED <<testVars, vars>>

Allocates(b, size) == /\ Malloc(size)
                      /\ bucket' = b
                      /\ sizes' = [sizes EXCEPT ![b] = size]
                      /\ UNCHANGED <<test, step, ptrs, failed>>

Frees(b, ptr) == /\ Free(ptrs[b])
                 /\ ptrs' = [ptrs EXCEPT ![b] = ptr]
                 /\ step' = step + 1
                 /\ UNCHANGED <<test, sizes, bucket, failed>>

Steps == /\ test # NULL /\ pos = NULL /\ step <= Len(Script)
         /\ \E b \in Doing.at :
              \/ Doing.op = "malloc" /\ Allocates(b, Doing.size)
              \/ Doing.op = "toggle" /\ ptrs[b] = NULL /\ Allocates(b, sizes[b])
              \/ Doing.op \in {"toggle", "free"} /\ ptrs[b] # NULL /\ Frees(b, NULL)
              \/ Doing.op = "release" /\ Frees(b, ptrs[b])

check_alloc(ptr) ==
  /\ ptr # NULL
  /\ ptr % 4 = 0
  /\ ptr + sizes[bucket] <= Size
  /\ \A b \in Doing.others :
       ptrs[b] # NULL => ~(ptr >= ptrs[b] /\ ptr < ptrs[b] + sizes[b])
  /\ Doing.reused # {} => \E b \in Doing.reused : ptr = ptrs[b]

Gets == /\ test # NULL
        /\ TryNext
        /\ UNCHANGED testVars

Checks == /\ test # NULL
          /\ MallocReturns \/ MallocFails
          /\ IF check_alloc(result')
             THEN /\ ptrs' = [ptrs EXCEPT ![bucket] = result']
                  /\ step' = step + 1
                  /\ UNCHANGED <<test, sizes, bucket, failed>>
             ELSE /\ failed' = TRUE
                  /\ step' = Len(Script) + 1
                  /\ UNCHANGED <<test, ptrs, sizes, bucket>>

TestsNext == main \/ Steps \/ Gets \/ Checks \/ Exits

-----------------------------------------------------------------------------
(* main.c:371: "All tests passed!".  A freed block is found again, neighbours are joined in
   whatever order they are freed (main.c:280-281), and no request of these fails. *)
TestsPass == ~failed
=============================================================================
