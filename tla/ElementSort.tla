---------------------------- MODULE ElementSort ----------------------------
(***************************************************************************)
(* a08/q2-3/q3/sortmain.c: makes an element of each argument, sorts them    *)
(* with qsort and their own compare, prints them and gives them back.       *)
(***************************************************************************)
EXTENDS Elements, Sequences, SequencesExt

CONSTANTS Values,   \* what the arguments may be, as parse_string takes them: [class, value]
          MaxElements

VARIABLES given,    \* the arguments
          elements, \* the array: [class, value]
          sorted,   \* whether qsort has returned
          shown,    \* what was printed
          counts    \* the reference count of each element of the array, and at 0 of the array

vars == <<given, elements, sorted, shown, counts>>

Init == /\ given \in SeqOf(Values, MaxElements)
        /\ elements = <<>> /\ sorted = FALSE /\ shown = <<>>
        /\ counts = [k \in 0..0 |-> 1]

(* parse_string: an int if all of it is a number, else a string; rc_malloc counts one. *)
parse_string == /\ Len(elements) < Len(given)
                /\ elements' = Append(elements, given[Len(elements) + 1])
                /\ counts' = [k \in DOMAIN counts \cup {Len(elements'), 0} |-> 1]
                /\ UNCHANGED <<given, sorted, shown>>

(* qsort arranges an array in some order that compare allows. *)
Arranged(s) == { t \in [1..Len(s) -> {s[k] : k \in 1..Len(s)}] :
                   /\ \A k \in 1..(Len(s) - 1) : compare(t[k], t[k + 1]) <= 0
                   /\ \A v \in Values : Len(SelectSeq(s, LAMBDA x : x = v))
                                          = Len(SelectSeq(t, LAMBDA x : x = v)) }

Sort == /\ Len(elements) = Len(given) /\ ~sorted
        /\ elements' \in Arranged(elements)
        /\ sorted' = TRUE
        /\ UNCHANGED <<given, shown, counts>>

(* print, rc_free_ref *)
PrintNext == LET k == Len(shown) + 1 IN
  /\ sorted /\ k <= Len(elements)
  /\ shown' = Append(shown, elements[k])
  /\ counts' = [counts EXCEPT ![k] = @ - 1]
  /\ UNCHANGED <<given, elements, sorted>>

(* The array goes last, without a finalizer: its elements are gone already. *)
FreeArray == /\ sorted /\ Len(shown) = Len(elements) /\ counts[0] > 0
             /\ counts' = [counts EXCEPT ![0] = @ - 1]
             /\ UNCHANGED <<given, elements, sorted, shown>>

Returned == counts[0] = 0 /\ UNCHANGED vars

Next == parse_string \/ Sort \/ PrintNext \/ FreeArray \/ Returned

-----------------------------------------------------------------------------
(* sortmain.c:46-53: what is printed is all of the arguments, ints first and each kind in
   its order; and in the end everything allocated has been given back once. *)
PrintsSorted ==
  /\ ComparesAsOrdered(Values)
  /\ \A k \in 1..(Len(shown) - 1) : ~Below(shown[k + 1], shown[k])
  /\ counts[0] = 0 =>
       /\ \A v \in Values : Len(SelectSeq(shown, LAMBDA x : x = v))
                              = Len(SelectSeq(given, LAMBDA x : x = v))
       /\ \A k \in DOMAIN counts : counts[k] = 0
=============================================================================
