----------------------------- MODULE BinaryTree -----------------------------
(***************************************************************************)
(* a04/p2: BinaryTree.java and its translation BinaryTree.c insert the      *)
(* numbers of the command line into an ordered tree, print them in order,   *)
(* and the path to the last.  A node is named by the argument it was made   *)
(* for; node 1 is the root.  A Java node starts with null links.  The C one *)
(* starts with what malloc finds, all zero or not: a program that follows   *)
(* a link nobody wrote is lost.                                             *)
(***************************************************************************)
EXTENDS Integers, Sequences, SequencesExt

CONSTANTS Numbers, MaxArgs

VARIABLES language,
          args,
          nodes,    \* node |-> [value, parent, left, right], in the order of creation
          at,       \* where insert has got to with the last node, None when it is linked
          printed, path,
          lost      \* a link that was never written has been followed

vars == <<language, args, nodes, at, printed, path, lost>>

None == 0
Wild == -1

Init == /\ language \in {"java", "c"}
        /\ args \in SeqOf(Numbers, MaxArgs)
        /\ nodes = <<>> /\ at = None
        /\ printed = <<>> /\ path = <<>> /\ lost = FALSE

New == Len(nodes)  \* lastNodeInserted

create(link) == [value |-> args[New + 1], parent |-> link, left |-> link, right |-> link]

NewNode == /\ at = None /\ New < Len(args) /\ printed = <<>> /\ ~lost
           /\ \E link \in IF language = "c" THEN {None, Wild} ELSE {None} :
                nodes' = Append(nodes, create(link))
           /\ at' = IF New = 0 THEN None ELSE 1
           /\ UNCHANGED <<language, args, printed, path, lost>>

Side == IF nodes[New].value <= nodes[at].value THEN "left" ELSE "right"

(* There is a child already, or what looks like one: the insert goes on below it. *)
Descend == /\ at # None /\ ~lost /\ nodes[at][Side] # None
           /\ IF nodes[at][Side] = Wild THEN lost' = TRUE /\ UNCHANGED at
                                        ELSE at' = nodes[at][Side] /\ UNCHANGED lost
           /\ UNCHANGED <<language, args, nodes, printed, path>>

Linked == [nodes EXCEPT ![at][Side] = New, ![New].parent = at]

Link == /\ at # None /\ ~lost /\ nodes[at][Side] = None
        /\ nodes' = Linked
        /\ at' = None
        /\ UNCHANGED <<language, args, printed, path, lost>>

insert == Descend \/ Link

printInOrder ==
  LET below[k \in None..New] ==
        IF k = None THEN <<>>
        ELSE below[nodes[k].left] \o <<nodes[k].value>> \o below[nodes[k].right]
  IN below[1]

(* how a node is reached from its parent *)
Direction(k) == CASE nodes[k].parent = None -> "from root"
                  [] nodes[nodes[k].parent].left = k -> "left to"
                  [] OTHER -> "right to"

printPath ==
  LET from[k \in None..New] ==
        IF k = None THEN <<>>
        ELSE Append(from[nodes[k].parent], [direction |-> Direction(k), value |-> nodes[k].value])
  IN from[New]

(* Printing visits every link of every node, and the path goes up through the root's. *)
Stray == \E k \in 1..New : Wild \in {nodes[k].left, nodes[k].right, nodes[1].parent}

PrintResults == /\ at = None /\ New = Len(args) /\ New > 0 /\ printed = <<>> /\ ~lost
                /\ IF Stray THEN lost' = TRUE /\ UNCHANGED <<printed, path>>
                            ELSE printed' = printInOrder /\ path' = printPath /\ UNCHANGED lost
                /\ UNCHANGED <<language, args, nodes, at>>

Returned == (args = <<>> \/ printed # <<>> \/ lost) /\ UNCHANGED vars

Next == NewNode \/ insert \/ PrintResults \/ Returned

-----------------------------------------------------------------------------
(* BinaryTree.java:50-52: all the arguments, in ascending order, equal ones as often as they
   were given. *)
InOrder ==
  /\ \A k \in 1..(Len(printed) - 1) : printed[k] <= printed[k + 1]
  /\ \A v \in Numbers :
       printed # <<>> => Len(SelectSeq(printed, LAMBDA x : x = v))
                           = Len(SelectSeq(args, LAMBDA x : x = v))

(* BinaryTree.java:39-42: no link of a Java node is read before it is null or a node. *)
NeverLost == language = "java" => ~lost

(* BinaryTree.java:61-66: the path leads from the root to the last argument, and names at
   each node the turn that a search for it takes. *)
PathFound ==
  path # <<>> =>
    /\ path[1] = [direction |-> "from root", value |-> args[1]]
    /\ Last(path).value = Last(args)
    /\ \A k \in 1..(Len(path) - 1) :
         path[k + 1].direction = IF Last(args) <= path[k].value THEN "left to" ELSE "right to"
=============================================================================
