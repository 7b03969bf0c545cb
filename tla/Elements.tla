------------------------------ MODULE Elements ------------------------------
(***************************************************************************)
(* The elements of a08/q2-3: a record with the class table its object       *)
(* points to ("int" or "str") and its value.  Strings are numbered in the   *)
(* order of strcmp; ints are far apart from the limits, where a - b wraps.  *)
(***************************************************************************)
EXTENDS Integers

is_int_element(a) == a.class = "int"
is_str_element(a) == a.class = "str"

strcmp(a, b) == a.value - b.value

(* The compare of the int class: what is no int is taken for a string. *)
int_compare(a, b) == IF is_int_element(a)
                     THEN IF is_int_element(b) THEN a.value - b.value ELSE -1
                     ELSE IF is_int_element(b) THEN 1 ELSE strcmp(a, b)

(* The compare of the str class: what is no string is taken for an int. *)
str_compare(a, b) == IF is_str_element(a)
                     THEN IF is_str_element(b) THEN strcmp(a, b) ELSE 1
                     ELSE IF is_str_element(b) THEN -1 ELSE a.value - b.value

(* a->class->compare(a, b) *)
compare(a, b) == IF a.class = "int" THEN int_compare(a, b) ELSE str_compare(a, b)

(* element.h: ints by value, below all strings in their order. *)
Below(a, b) == \/ a.class = "int" /\ b.class = "str"
               \/ a.class = b.class /\ a.value < b.value

(* element.h:10-15, whichever class the table is that is asked: the comparison is negative,
   zero or positive as the order of elements says. *)
ComparesAsOrdered(S) ==
  \A a, b \in S : /\ compare(a, b) < 0 <=> Below(a, b)
                  /\ compare(a, b) > 0 <=> Below(b, a)
=============================================================================
