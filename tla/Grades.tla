------------------------------- MODULE Grades -------------------------------
(***************************************************************************)
(* a06/q3/q3.c: averages the grades of four students, and sorts the         *)
(* students, whole records of six ints, by their averages.                  *)
(***************************************************************************)
EXTENDS Integers, SequencesExt

VARIABLES s,        \* the students: records
          phase,    \* what main does next
          i, j      \* the variables of the two loops of the sort

vars == <<s, phase, i, j>>

n == 4
Unset == -1  \* the average of a student before it is computed: what malloc found

ids == <<1234, 3456, 4269, 8008>>
grades == <<10, 20, 30, 40, 50, 60, 70, 80, 0, 0, 0, 0, 100, 100, 100, 100>>

Student(k) == [sid |-> ids[k], grade |-> [g \in 1..4 |-> grades[(k - 1) * 4 + g]], average |-> Unset]

Init == /\ s = [k \in 1..n |-> Student(k)]
        /\ phase = "average"
        /\ i = 0 /\ j = 0

Total(student) == FoldFunction(LAMBDA x, y : x + y, 0, student.grade)

(* list_avg: total >> 2 *)
Average == /\ phase = "average"
           /\ s' = [k \in 1..n |-> [s[k] EXCEPT !.average = Total(s[k]) \div 4]]
           /\ phase' = "swap"
           /\ UNCHANGED <<i, j>>

(* all six ints of a student and of the one before *)
Swapped(k) == [s EXCEPT ![k] = s[k - 1], ![k - 1] = s[k]]

(* swap(s + 1), to try it *)
Try == /\ phase = "swap"
       /\ s' = Swapped(2)
       /\ phase' = "sort"
       /\ i' = n - 1 /\ j' = 1

(* The sort compares the sixth int of two neighbours. *)
OutOfOrder == s[j].average > s[j + 1].average

Compare == /\ phase = "sort" /\ i > 0 /\ j <= i
           /\ s' = IF OutOfOrder THEN Swapped(j + 1) ELSE s
           /\ j' = j + 1
           /\ UNCHANGED <<phase, i>>

NextSublist == /\ phase = "sort" /\ i > 0 /\ j > i
               /\ i' = i - 1 /\ j' = 1
               /\ UNCHANGED <<s, phase>>

printAllStudents == /\ phase = "sort" /\ i = 0
                    /\ phase' = "printed"
                    /\ UNCHANGED <<s, i, j>>

Returned == phase = "printed" /\ UNCHANGED vars

Next == Average \/ Try \/ Compare \/ NextSublist \/ printAllStudents \/ Returned

-----------------------------------------------------------------------------
(* q3.c:75-91: the students are printed by ascending average, all of them, and each with the
   grades and the average that go with the id. *)
StudentsSorted ==
  phase = "printed" =>
    /\ \A k \in 1..(n - 1) : s[k].average <= s[k + 1].average
    /\ {s[k] : k \in 1..n}
         = {[Student(k) EXCEPT !.average = (grades[4 * k - 3] + grades[4 * k - 2]
                                            + grades[4 * k - 1] + grades[4 * k]) \div 4] : k \in 1..n}
=============================================================================
