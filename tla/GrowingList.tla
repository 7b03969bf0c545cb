---------------------------- MODULE GrowingList ----------------------------
(***************************************************************************)
(* The list of a08/q4-5/list.c: an array that is reallocated when it is     *)
(* full, with shifting insertion and removal, and functions that map,       *)
(* filter and fold one list into another.  A list is a record [data, len,   *)
(* size]; data is a block of size words of memory.                          *)
(***************************************************************************)
EXTENDS Integers, Sequences, SequencesExt

CONSTANTS INITIAL_SIZE, GROWTH_FACTOR,
          NULL   \* what memory holds before it is written

list_create == [data |-> [i \in 0..(INITIAL_SIZE - 1) |-> NULL], len |-> 0, size |-> INITIAL_SIZE]

(* realloc: the words that there were, and new ones *)
expand_list(a) ==
  LET size == a.size * GROWTH_FACTOR
  IN [a EXCEPT !.size = size,
               !.data = [i \in 0..(size - 1) |-> IF i < a.size THEN a.data[i] ELSE NULL]]

WithRoom(a) == IF a.len = a.size THEN expand_list(a) ELSE a

(* A write past the block is lost. *)
Appended(a, x) ==
  LET r == WithRoom(a) IN [r EXCEPT !.data[a.len] = x, !.len = a.len + 1]

AppendedAll(a, s) == FoldLeft(Appended, a, s)

ShiftedIn(a, pos, x) ==
  LET r == WithRoom(a)
  IN [r EXCEPT !.data = [i \in DOMAIN r.data |->
                           CASE i = pos -> x
                             [] pos < i /\ i <= a.len -> r.data[i - 1]
                             [] OTHER -> r.data[i]],
               !.len = a.len + 1]

ShiftedOut(a, pos) ==
  [a EXCEPT !.data = [i \in DOMAIN a.data |->
                        IF pos <= i /\ i < a.len - 1 THEN a.data[i + 1] ELSE a.data[i]],
            !.len = a.len - 1]

list_get(a, pos) == a.data[pos]

(* what list_foreach visits *)
Contents(a) == [i \in 1..a.len |-> list_get(a, i - 1)]

list_index(a, x) == LET at == {i \in 0..(a.len - 1) : a.data[i] = x}
                    IN IF at = {} THEN -1 ELSE CHOOSE i \in at : \A j \in at : i <= j

(* the length of what is mapped: of the shorter list *)
Shorter(a, b) == IF a.len < b.len THEN a.len ELSE b.len

(* f, keep: what the function that is passed returns, a TLA+ function *)
list_map1(f, out, a) == AppendedAll(out, [i \in 1..a.len |-> f[list_get(a, i - 1)]])

list_map2(f, out, a, b) ==
  AppendedAll(out, [i \in 1..Shorter(a, b) |-> f[list_get(a, i - 1), list_get(b, i - 1)]])

list_filter(keep, out, a) == AppendedAll(out, SelectSeq(Contents(a), LAMBDA x : keep[x]))

list_foldl(f, base, a) == FoldLeft(LAMBDA x, y : f[x, y], base, Contents(a))
=============================================================================
