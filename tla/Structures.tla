----------------------------- MODULE Structures -----------------------------
(***************************************************************************)
(* The sequential data structures and programs of the repository, side by   *)
(* side: the thread queues of a10/uthreads, the allocator of a05 with any   *)
(* client and with its test program, the elements with reference counts and *)
(* their sort, the growing list and the class tables of a08, the sorts of   *)
(* a03, the tree of a04 and the grades of a06.  They share nothing; a       *)
(* behaviour uses one of them and leaves the others alone.                  *)
(***************************************************************************)
EXTENDS Integers, Sequences

CONSTANTS Threads, Queues, NULL,                         \* of the thread queues
          Size, Requests,                                \* of the heap
          Buckets, Iters,                                \* of its tests
          Values, Elements, Nodes, Height, MaxRefs,      \* of the elements
          MaxElements,                                   \* of their sort
          Items, INITIAL_SIZE, GROWTH_FACTOR, MaxLen,    \* of the growing list
          Numbers, NotNumber, Arguments, MaxArgs         \* of the programs' command lines

VARIABLES structure,                                     \* the one that is used
          next, head, tail, content,                     \* the thread queues
          mem, request, pos, result, live,               \* the heap
          test, step, ptrs, sizes, bucket, failed,       \* its tests
          heap, held, list, tree, added,                 \* the elements
          array, items,                                  \* the growing list
          argv, output,                                  \* its programs
          program, n, args, val, i, j, status,           \* the sorts
          language, words, nodes, at, printed, path, lost, \* the ordered tree
          given, elements, sorted, shown, counts,        \* the sort of elements
          object, calls, lines,                          \* the class tables
          students, phase, sublist, pair                 \* the grades

queueVars == <<next, head, tail, content>>
heapVars == <<mem, request, pos, result, live>>
testVars == <<test, step, ptrs, sizes, bucket, failed>>
countVars == <<heap, held, list, tree, added>>
listVars == <<array, items>>
sortVars == <<program, n, args, val, i, j, status>>
treeVars == <<language, words, nodes, at, printed, path, lost>>
elementVars == <<given, elements, sorted, shown, counts>>
classVars == <<object, calls, lines>>
gradeVars == <<students, phase, sublist, pair>>
programVars == <<argv, output, sortVars, treeVars, elementVars, classVars, gradeVars>>

Queue == INSTANCE UThreadQueue WITH Null <- NULL
Heap == INSTANCE Heap
Tests == INSTANCE HeapTests
Counts == INSTANCE RefCount
Growing == INSTANCE ListClient
ListProgram == INSTANCE ListPrograms
Sort == INSTANCE Sorts
Tree == INSTANCE BinaryTree WITH args <- words
ElementSort == INSTANCE ElementSort
Classes == INSTANCE Dispatch WITH output <- lines
Grades == INSTANCE Grades WITH s <- students, i <- sublist, j <- pair

ASSUME NullAssumption == Queue!NullAssumption
ASSUME SizesAssumption == Heap!SizesAssumption
ASSUME TestsAssumption == Tests!TestsAssumption
ASSUME CountsAssumption == Counts!CountsAssumption
ASSUME SortAssumption == Sort!SortAssumption

Programs == {"list program", "sort", "tree", "element sort", "classes", "grades"}

Init == /\ structure \in {"queues", "heap", "tests", "elements", "list"} \cup Programs
        /\ Queue!Init
        /\ Heap!Init
        /\ Tests!TestsInit
        /\ Counts!Init
        /\ Growing!Init
        /\ ListProgram!Init /\ (structure # "list program" => argv = <<>>)
        /\ Sort!Init /\ (structure # "sort" => program = "static" /\ n = 0)
        /\ Tree!Init /\ (structure # "tree" => words = <<>> /\ language = "c")
        /\ ElementSort!Init /\ (structure # "element sort" => given = <<>>)
        /\ Classes!Init
        /\ Grades!Init

ProgramNext ==
  \/ /\ structure = "list program" /\ ListProgram!Next
     /\ UNCHANGED <<sortVars, treeVars, elementVars, classVars, gradeVars>>
  \/ /\ structure = "sort" /\ Sort!Next
     /\ UNCHANGED <<argv, output, treeVars, elementVars, classVars, gradeVars>>
  \/ /\ structure = "tree" /\ Tree!Next
     /\ UNCHANGED <<argv, output, sortVars, elementVars, classVars, gradeVars>>
  \/ /\ structure = "element sort" /\ ElementSort!Next
     /\ UNCHANGED <<argv, output, sortVars, treeVars, classVars, gradeVars>>
  \/ /\ structure = "classes" /\ Classes!Next
     /\ UNCHANGED <<argv, output, sortVars, treeVars, elementVars, gradeVars>>
  \/ /\ structure = "grades" /\ Grades!Next
     /\ UNCHANGED <<argv, output, sortVars, treeVars, elementVars, classVars>>

Next ==
  /\ \/ /\ structure = "queues" /\ Queue!Next
        /\ UNCHANGED <<heapVars, testVars, countVars, listVars, programVars>>
     \/ /\ structure = "heap" /\ Heap!Next
        /\ UNCHANGED <<queueVars, testVars, countVars, listVars, programVars>>
     \/ /\ structure = "tests" /\ Tests!TestsNext
        /\ UNCHANGED <<queueVars, countVars, listVars, programVars>>
     \/ /\ structure = "elements" /\ Counts!Next
        /\ UNCHANGED <<queueVars, heapVars, testVars, listVars, programVars>>
     \/ /\ structure = "list" /\ Growing!Next
        /\ UNCHANGED <<queueVars, heapVars, testVars, countVars, programVars>>
     \/ /\ structure \in Programs /\ ProgramNext
        /\ UNCHANGED <<queueVars, heapVars, testVars, countVars, listVars>>
  /\ UNCHANGED structure

Spec ==
  Init /\ [][Next]_<<structure, queueVars, heapVars, testVars, countVars, listVars, programVars>>

OnHeap == structure \in {"heap", "tests"}

(* See UThreadQueue and ListClient: the links of a queue, and the array of a list, spell
   the sequence that the calls made. *)
LinksSpellContent == /\ structure = "queues" => Queue!LinksSpellContent
                     /\ structure = "list" => Growing!ArrayIsList

(* See Heap. *)
BlocksTile == OnHeap => Heap!BlocksTile

(* See Heap. *)
DataKept == OnHeap => Heap!DataKept

(* See Heap. *)
ImplementsFirstFit == Heap!ImplementsFirstFit

(* See HeapTests. *)
TestsPass == Tests!TestsPass

(* See RefCount. *)
OwnersCounted == structure = "elements" => Counts!OwnersCounted

(* See Sorts, BinaryTree, ListPrograms, ElementSort, Dispatch and Grades: what the programs
   print of their command lines. *)
ResultsRight == /\ structure = "sort" => Sort!Ascends /\ Sort!Rearranged
                /\ structure = "tree" => Tree!InOrder /\ Tree!PathFound /\ Tree!NeverLost
                /\ structure = "list program" => ListProgram!TruncPrints /\ ListProgram!TestPrints
                /\ structure = "element sort" => ElementSort!PrintsSorted
                /\ structure = "classes" => Classes!DispatchesAsJava
                /\ structure = "grades" => Grades!StudentsSorted
=============================================================================
