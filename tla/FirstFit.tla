------------------------------ MODULE FirstFit ------------------------------
(***************************************************************************)
(* What a05/myheap.h promises of a heap, without headers, trailers, free    *)
(* blocks or coalescing: blocks of an area of memory are handed out, each   *)
(* at the lowest address where it fits, and given back.                     *)
(***************************************************************************)
EXTENDS Naturals

CONSTANTS Size,      \* bytes of the area
          Requests,  \* the sizes that are asked for
          NULL

VARIABLES used,   \* the blocks handed out
          result  \* the payload of the last malloc

vars == <<used, result>>

Init == used = {} /\ result = NULL

(* All of the memory between two of these blocks, however it came to be free. *)
Holes(blocks) ==
  LET starts == {0} \cup {b.start + b.size : b \in blocks}
      ends   == {Size} \cup {b.start : b \in blocks}
  IN {[start |-> x[1], size |-> x[2] - x[1]] : x \in
        {x \in starts \X ends : /\ x[1] < x[2]
                               /\ \A b \in blocks : b.start + b.size <= x[1] \/ x[2] <= b.start}}

(* Two header words and a payload of whole words. *)
BlockSize(request) == ((request + 23) \div 8) * 8

(* What is left over goes with the block when it could not be a block with a payload. *)
Taken(hole, need) == IF hole.size - need >= 24 THEN need ELSE hole.size

Malloc(request, blocks, holes) ==
  LET need == BlockSize(request)
      large == {h \in holes : h.size >= need}
  IN IF large = {}
     THEN result' = NULL /\ UNCHANGED used
     ELSE \E h \in large :
            /\ result' = h.start + 8
            /\ \A other \in large : h.start <= other.start
            /\ used' = blocks \cup {[start |-> h.start, size |-> Taken(h, need)]}

Free(blocks) == UNCHANGED result /\ \E b \in blocks : used' = blocks \ {b}

Next == LET blocks == used
            holes  == Holes(blocks)
        IN \/ Free(blocks)
           \/ \E request \in Requests : Malloc(request, blocks, holes)

Spec == Init /\ [][Next]_vars
=============================================================================
