-------------------------------- MODULE Heap --------------------------------
(***************************************************************************)
(* The allocator of a05/myheap.c.  Every block has its size and whether it  *)
(* is in use in its first word and again in its last; blocks are found by   *)
(* walking from header to header, and free neighbours are joined.           *)
(*                                                                          *)
(* Addresses are byte offsets from h->start.  The client fills what it      *)
(* asked for, as check_alloc of main.c does, and frees what it was given.   *)
(***************************************************************************)
EXTENDS Naturals

CONSTANTS Size,      \* h->size: bytes of the heap area
          Requests,  \* the sizes that the client asks for
          NULL

HEADER_SIZE == 8

MaxInt == 2147483647

(* Sizes of blocks are ints: of a larger request get_size_to_allocate overflows. *)
SizesAssumption == /\ Size \in 2 * HEADER_SIZE .. MaxInt /\ Size % HEADER_SIZE = 0
                   /\ Requests \subseteq 0 .. MaxInt - (3 * HEADER_SIZE - 1)
                   /\ NULL \notin Nat

VARIABLES mem,      \* the words of the area: headers, and data of the client
          request,  \* the user_size of a malloc that is under way
          pos,      \* the block it looks at, NULL when no malloc is under way
          result,   \* the payload of the last malloc
          live      \* the client: the size it asked for, by the payload it was given

vars == <<mem, request, pos, result, live>>

Words == {w \in 0..(Size - 1) : w % HEADER_SIZE = 0}

Header(size, in_use) == [size |-> size, in_use |-> in_use]
Data(payload) == [of |-> payload]

set_block_header(m, b, size, in_use) ==
  [m EXCEPT ![b] = Header(size, in_use), ![b + size - HEADER_SIZE] = Header(size, in_use)]

get_next_block(m, b) == b + m[b].size
get_previous_block(m, b) == b - m[b - HEADER_SIZE].size

(* joins whatever follows *)
CoalesceAny(m, b) ==
  IF m[b].in_use \/ get_next_block(m, b) = Size
  THEN m
  ELSE set_block_header(m, b, m[b].size + m[get_next_block(m, b)].size, FALSE)

coalesce(m, b) ==
  IF m[b].in_use \/ get_next_block(m, b) = Size \/ m[get_next_block(m, b)].in_use
  THEN m
  ELSE set_block_header(m, b, m[b].size + m[get_next_block(m, b)].size, FALSE)

get_size_to_allocate(user_size) ==
  LET total == user_size + 2 * HEADER_SIZE
  IN total + (IF total % HEADER_SIZE = 0 THEN 0 ELSE HEADER_SIZE - (total % HEADER_SIZE))

split_and_mark_used(m, b, needed_size) ==
  LET wasted_space == m[b].size - needed_size
  IN IF wasted_space >= 3 * HEADER_SIZE
     THEN set_block_header(set_block_header(m, b, needed_size, TRUE),
                           b + needed_size, wasted_space, FALSE)
     ELSE set_block_header(m, b, m[b].size, TRUE)

-----------------------------------------------------------------------------
(* heap_create: zeroed memory and one free block *)
Init == /\ mem = set_block_header([w \in Words |-> Data(NULL)], 0, Size, FALSE)
        /\ request = 0 /\ pos = NULL
        /\ result = NULL
        /\ live = <<>>

Malloc(user_size) == /\ pos = NULL
                     /\ request' = user_size
                     /\ pos' = 0
                     /\ UNCHANGED <<mem, result, live>>

Searching == pos # NULL /\ pos < Size

Fits(b) == ~mem[b].in_use /\ mem[b].size >= get_size_to_allocate(request)

(* continue with the next block *)
TryNext == /\ Searching /\ ~Fits(pos)
           /\ pos' = get_next_block(mem, pos)
           /\ UNCHANGED <<mem, request, result, live>>

Filled(m, payload, size) ==
  [w \in Words |-> IF payload <= w /\ w < payload + size THEN Data(payload) ELSE m[w]]

MallocReturns ==
  /\ Searching /\ Fits(pos)
  /\ LET payload == pos + HEADER_SIZE
     IN /\ result' = payload
        /\ live' = [p \in DOMAIN live \cup {payload} |-> IF p = payload THEN request ELSE live[p]]
        /\ mem' = Filled(split_and_mark_used(mem, pos, get_size_to_allocate(request)), payload, request)
  /\ pos' = NULL /\ request' = 0

MallocFails == /\ pos = Size
               /\ result' = NULL
               /\ pos' = NULL /\ request' = 0
               /\ UNCHANGED <<mem, live>>

(* free that clears the first word only *)
FreedAtFront(b) ==
  LET m == coalesce([mem EXCEPT ![b].in_use = FALSE], b)
  IN IF b = 0 THEN m ELSE coalesce(m, get_previous_block(m, b))

(* free that joins with the next block only *)
FreedForward(b) ==
  coalesce(set_block_header(mem, b, mem[b].size, FALSE), b)

(* both neighbours, the next one first *)
Freed(b) ==
  LET m == coalesce(set_block_header(mem, b, mem[b].size, FALSE), b)
  IN IF b = 0 THEN m ELSE coalesce(m, get_previous_block(m, b))

Free(payload) == /\ pos = NULL
                 /\ payload \in DOMAIN live
                 /\ mem' = Freed(payload - HEADER_SIZE)
                 /\ live' = [p \in DOMAIN live \ {payload} |-> live[p]]
                 /\ UNCHANGED <<request, pos, result>>

Searches == TryNext \/ MallocReturns \/ MallocFails

Next == \/ \E user_size \in Requests : Malloc(user_size)
        \/ Searches
        \/ \E payload \in DOMAIN live : Free(payload)

Spec == Init /\ [][Next]_vars

-----------------------------------------------------------------------------
(* The blocks that a walk from header to header comes by. *)
BlocksOf(m) ==
  LET reached[n \in Nat] ==
        IF n = 0 THEN {0}
        ELSE LET before == reached[n - 1]
             IN before \cup {get_next_block(m, b) : b \in before \ {Size}}
  IN reached[Size \div (2 * HEADER_SIZE)] \ {Size}

Blocks == BlocksOf(mem)

(* B are blocks that tile the area, each with one and the same header in its first and in
   its last word, no two free ones side by side. *)
Tiles(B) ==
  /\ 0 \in B
  /\ \A b \in B :
       LET size == mem[b].size IN
       /\ size >= 2 * HEADER_SIZE
       /\ b + size \in B \cup {Size}
       /\ mem[b + size - HEADER_SIZE] = mem[b]
       /\ \A c \in B : c <= b \/ b + size <= c
       /\ mem[b].in_use \/ b + size = Size \/ mem[b + size].in_use

InUse == {b \in Blocks : mem[b].in_use}

(* Whatever was split and joined in whatever order: the blocks tile the heap, what the
   last word of a block says agrees with its first (get_previous_block, myheap.c:79, rests
   on it), no free neighbours are left apart, and in use is exactly what the client has
   and with room for what it asked for. *)
BlocksTile == /\ Tiles(Blocks)
              /\ InUse = {payload - HEADER_SIZE : payload \in DOMAIN live}
              /\ \A payload \in DOMAIN live :
                   live[payload] + 2 * HEADER_SIZE <= mem[payload - HEADER_SIZE].size

(* check_alloc (main.c:44-58): allocations do not overlap, and neither a header nor another
   client's data is ever written over what a client put into its own. *)
DataKept == \A payload \in DOMAIN live : \A w \in Words :
              payload <= w /\ w < payload + live[payload] => mem[w] = Data(payload)

(* myheap.h: the heap is a first-fit allocator that fails only when there is no hole, joined
   from whatever was freed, that is large enough (myheap.c:202). *)
(* A request is rounded up to whole words, and fails if it is not below Size. *)
Holes == INSTANCE FirstFit WITH Requests <- Words,
                                used <- {[start |-> b, size |-> mem[b].size] : b \in InUse}
ImplementsFirstFit == Holes!Spec
=============================================================================
