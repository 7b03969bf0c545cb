---------------------------- MODULE ListPrograms ----------------------------
(***************************************************************************)
(* The programs over the list of a08/q4-5: trunc.c, which truncates the     *)
(* strings of its command line to the numbers of its command line, and      *)
(* test.c.  An argument is a record: its text, its length, and the number   *)
(* that strtol reads at its front, -1 when there is none.  A C string that  *)
(* was cut keeps its text and has another length.                           *)
(***************************************************************************)
EXTENDS GrowingList

CONSTANTS Arguments, MaxArgs

VARIABLES argv,
          output  \* what the program printed

Init == argv \in SeqOf(Arguments, MaxArgs) /\ output = <<>>

string_to_int == [a \in Arguments |-> a.int]

set_null == [a \in Arguments, b \in Int |-> IF b < 0 THEN a ELSE NULL]

pos == [a \in Int |-> a >= 0]

not_null == [a \in Arguments \cup {NULL} |-> a # NULL]

truncate == [a \in Arguments, b \in Nat |-> [a EXCEPT !.len = IF a.len > b THEN b ELSE a.len]]

max == [a, b \in Int |-> IF a >= b THEN a ELSE b]

(* main of trunc.c *)
Truncates ==
  LET arg_list == AppendedAll(list_create, argv)
      int_list == list_map1(string_to_int, list_create, arg_list)
      null_list == list_map2(set_null, list_create, arg_list, int_list)
      pos_list == list_filter(pos, list_create, int_list)
      not_null_list == list_filter(not_null, list_create, null_list)
      trunc_list == list_map2(truncate, list_create, not_null_list, pos_list)
  IN /\ output = <<>>
     /\ output' = <<[strings |-> Contents(trunc_list),
                     greatest |-> list_foldl(max, 0, int_list)]>>
     /\ UNCHANGED argv

isEven == [a \in Int |-> a % 2 = 0]
add == [a, b \in Int |-> a + b]
inc == [a \in Int |-> a + 1]

(* main of test.c, which has no arguments *)
TestsList ==
  LET l0 == AppendedAll(list_create, [k \in 1..11 |-> k])
      l2 == list_filter(isEven, list_create, l0)
      l3 == list_map1(inc, list_create, l0)
      l4 == list_map2(add, list_create, l3, l2)
  IN /\ argv = <<>> /\ output = <<>>
     /\ output' = <<[filter |-> Contents(l2), map1 |-> Contents(l3), map2 |-> Contents(l4),
                     fold |-> list_foldl(add, 0, l4)]>>
     /\ UNCHANGED argv

Returned == output # <<>> /\ UNCHANGED <<argv, output>>

Next == Truncates \/ TestsList \/ Returned

-----------------------------------------------------------------------------
(* trunc.c:68-104: the strings of the command line, each cut to the number that has its place
   among the numbers, and no more than there are of both; the greatest of the numbers. *)
TruncPrints ==
  \A r \in Range(output) : "strings" \in DOMAIN r =>
    LET words == SelectSeq(argv, LAMBDA a : a.int < 0)
        numbers == SelectSeq(argv, LAMBDA a : a.int >= 0)
    IN /\ Len(r.strings) = Min({Len(words), Len(numbers)})
       /\ \A k \in DOMAIN r.strings :
            r.strings[k] = [words[k] EXCEPT !.len = Min({words[k].len, numbers[k].int})]
       /\ r.greatest = Max({0} \cup {a.int : a \in Range(argv)})

(* test.c:52-72: what the four functions make of 1 to 11. *)
TestPrints ==
  \A r \in Range(output) : "fold" \in DOMAIN r =>
    /\ r.filter = <<2, 4, 6, 8, 10>> /\ r.map1 = [k \in 1..11 |-> k + 1]
    /\ r.map2 = <<4, 7, 10, 13, 16>> /\ r.fold = 50
=============================================================================
