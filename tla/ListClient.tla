----------------------------- MODULE ListClient -----------------------------
(***************************************************************************)
(* A client of the list of a08/q4-5/list.c that calls the interface in any  *)
(* order, on one list after another.                                        *)
(***************************************************************************)
EXTENDS GrowingList

CONSTANTS Items,
          MaxLen  \* of a list

VARIABLES array,  \* the list
          items   \* history: what the calls made of it

Init == array = list_create /\ items = <<>>

list_append(x) == /\ array' = Appended(array, x)
                  /\ items' = Append(items, x)

list_append_array(s) == /\ array' = AppendedAll(array, s)
                        /\ items' = items \o s

list_insert(pos, x) == /\ array' = ShiftedIn(array, pos, x)
                       /\ items' = InsertAt(items, pos + 1, x)

list_remove(pos) == /\ array' = ShiftedOut(array, pos)
                    /\ items' = RemoveAt(items, pos + 1)

list_destroy == array.len > 0 /\ array' = list_create /\ items' = <<>>

(* filter, map1 and map2 into a new list, which takes the place of the old one *)
Filtered(x) == /\ array' = list_filter([y \in Items |-> y # x], list_create, array)
               /\ items' = SelectSeq(items, LAMBDA y : y # x)

Mapped(x) == /\ array' = list_map1([y \in Items |-> x], list_create, array)
             /\ items' = [i \in DOMAIN items |-> x]

(* of a list and what is left when its first element is removed *)
Zipped == LET second == [x, y \in Items |-> y]
          IN /\ array.len > 0
             /\ array' = list_map2(second, list_create, array, ShiftedOut(array, 0))
             /\ items' = Tail(items)

Next == \/ \E x \in Items :
             \/ array.len < MaxLen /\ list_append(x)
             \/ array.len < MaxLen /\ \E pos \in 0..(array.len - 1) : list_insert(pos, x)
             \/ array.len < MaxLen - 1 /\ \E y \in Items : list_append_array(<<x, y>>)
             \/ Filtered(x)
             \/ Mapped(x)
        \/ \E pos \in 0..(array.len - 1) : list_remove(pos)
        \/ list_destroy
        \/ Zipped

-----------------------------------------------------------------------------
(* list.c:17-108: a list has the elements that were put into it, in their order, however it
   grew and whatever was shifted, and list_index finds the first of those that are equal. *)
ArrayIsList ==
  /\ Contents(array) = items
  /\ list_foldl([s \in Seq(Items), x \in Items |-> Append(s, x)], <<>>, array) = items
  /\ \A x \in Items : list_index(array, x) =
                        IF x \in Range(items)
                        THEN SelectInSeq(items, LAMBDA y : y = x) - 1
                        ELSE -1
=============================================================================
