------------------------------ MODULE MCReaders ------------------------------
(* Instances of Readers for the model checker: a disk of five blocks. *)
EXTENDS Readers

SmallStory == <<3, 4, 0, 2, 1>>

Reader(name, blocks, nested) == [name |-> name, blocks |-> blocks, nested |-> nested]

AnyTiming == {Reader("sRead", 3, TRUE), Reader("aRead", 3, FALSE), Reader("aRead", 3, TRUE)}
             \cup {Reader("treasureHunt", b, TRUE) : b \in {0, 1, 3, 4}}

LateTimer == {Reader("aRead", 2, TRUE)}
=============================================================================
