------------------------------- MODULE Sorts -------------------------------
(***************************************************************************)
(* The programs of a03 that sort the numbers of their command line:         *)
(* bubble_sort_static.c, which takes four at most, and                      *)
(* bubble_sort_dynamic.c, from which bubble_sort_awesome.c differs in its   *)
(* notation only.                                                           *)
(***************************************************************************)
EXTENDS Integers

CONSTANTS Numbers, NotNumber,  \* what an argument may be
          MaxArgs

VARIABLES program,
          n, args,   \* argc - 1, and what follows the program's name
          val,       \* the array
          i, j,      \* the variables of the two loops
          status     \* "start", "sort", "print" or "failed"

vars == <<program, n, args, val, i, j, status>>

SortAssumption == Numbers \subseteq Int /\ NotNumber \notin Int /\ MaxArgs \in Nat

STATIC_LIMIT == 4

Init == /\ program \in {"static", "dynamic"}
        /\ n \in 0..MaxArgs
        /\ args \in [0..(n - 1) -> Numbers \cup {NotNumber}]
        /\ val = [k \in {} |-> 0]
        /\ i = 0 /\ j = 0
        /\ status = "start"

(* main gives up before it has sorted anything. *)
Refused == \/ program = "static" /\ n > STATIC_LIMIT
           \/ \E k \in 0..(n - 1) : args[k] = NotNumber

Refuse == /\ status = "start" /\ Refused
          /\ status' = "failed"
          /\ UNCHANGED <<program, n, args, val, i, j>>

Read == /\ status = "start" /\ ~Refused
        /\ val' = args
        /\ i' = n - 1 /\ j' = n - 2
        /\ status' = "sort"
        /\ UNCHANGED <<program, n, args>>

(* an exchange without t: one value is there twice *)
Overwritten(a, b) == [val EXCEPT ![a] = val[b]]

Swapped(a, b) == [val EXCEPT ![a] = val[b], ![b] = val[a]]

OutOfOrder == val[i] < val[j]

(* one round of the inner loop *)
Compare == /\ status = "sort" /\ i > 0 /\ j >= 0
           /\ val' = IF OutOfOrder THEN Swapped(i, j) ELSE val
           /\ j' = j - 1
           /\ UNCHANGED <<program, n, args, i, status>>

(* the end of the inner loop *)
NextPosition == /\ status = "sort" /\ i > 0 /\ j < 0
                /\ i' = i - 1 /\ j' = i - 2
                /\ UNCHANGED <<program, n, args, val, status>>

PrintAll == /\ status = "sort" /\ i <= 0
            /\ status' = "print"
            /\ UNCHANGED <<program, n, args, val, i, j>>

Returned == status \in {"print", "failed"} /\ UNCHANGED vars

Next == Refuse \/ Read \/ Compare \/ NextPosition \/ PrintAll \/ Returned

Spec == Init /\ [][Next]_vars

-----------------------------------------------------------------------------
(* bubble_sort_dynamic.c:43-44: what is printed ascends. *)
Ascends == status = "print" => \A k, m \in 0..(n - 1) : k <= m => val[k] <= val[m]

(* bubble_sort_dynamic.c:22-26: what is in the array, halfway through the sort too, is the
   arguments in another order: none lost, none twice. *)
Rearranged == status \in {"sort", "print"} =>
                \E p \in [0..(n - 1) -> 0..(n - 1)] :
                  /\ \A k, m \in 0..(n - 1) : p[k] = p[m] => k = m
                  /\ \A k \in 0..(n - 1) : val[k] = args[p[k]]
=============================================================================
