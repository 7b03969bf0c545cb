---------------------------- MODULE MCStructures ----------------------------
(* Structures with two ints and a string as the contents of elements, and arguments that are
   numbers, one below zero, and words. *)
EXTENDS Structures

Contents == {[class |-> "int", value |-> 1], [class |-> "int", value |-> 2],
             [class |-> "str", value |-> 1]}

Words == {[text |-> "2", len |-> 1, int |-> 2], [text |-> "0", len |-> 1, int |-> 0],
          [text |-> "-4", len |-> 2, int |-> -4],
          [text |-> "abcd", len |-> 4, int |-> -1], [text |-> "e", len |-> 1, int |-> -1]}
=============================================================================
