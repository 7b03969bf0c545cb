------------------------------ MODULE Dispatch ------------------------------
(***************************************************************************)
(* a08/q1/SA-dynamic-call.c: the classes A, B and C of SA_dynamic_call.java *)
(* written out in C.  A class is a table of functions, an object points to  *)
(* the table of its class, and a call to super goes through the table that  *)
(* this table points to.                                                    *)
(***************************************************************************)
EXTENDS Integers, Sequences

VARIABLES object,  \* the one that bar has made last
          calls,   \* what is still to be called: methods, the next one first
          output   \* the functions that have printed, with the number of the object

vars == <<object, calls, output>>

NoClass == "none"

A_class == [super |-> NoClass, ping |-> "A_ping", pong |-> "A_pong"]
B_class == [super |-> "A", ping |-> "B_ping", pong |-> "A_pong", wiff |-> "B_wiff"]
C_class == [super |-> "B", ping |-> "C_ping", pong |-> "A_pong", wiff |-> "B_wiff"]

Table(c) == CASE c = "A" -> A_class [] c = "B" -> B_class [] c = "C" -> C_class

new_A(i) == [class |-> "A", i |-> i]
new_B(i) == [class |-> "B", i |-> i]
new_C(i, id) == [class |-> "C", i |-> i, id |-> id]

Made == <<new_A(10), new_B(20), new_C(30, 100)>>

Init == object = 0 /\ calls = <<>> /\ output = <<>>

(* bar makes the next object, and foo calls its ping and its pong. *)
foo == /\ calls = <<>> /\ object < Len(Made)
       /\ object' = object + 1
       /\ calls' = <<"ping", "pong">>
       /\ UNCHANGED output

class == Table(Made[object].class)

(* The function that a call runs: a call to super takes the table of the class above. *)
Called == CASE Head(calls) = "ping" -> class.ping
            [] Head(calls) = "pong" -> class.pong
            [] Head(calls) = "super ping" -> Table(class.super).ping

(* A function prints; C_ping goes on to this->class->super->ping. *)
Call == /\ calls # <<>>
        /\ output' = Append(output, [by |-> Called, i |-> Made[object].i])
        /\ calls' = (IF Called = "C_ping" THEN <<"super ping">> ELSE <<>>) \o Tail(calls)
        /\ UNCHANGED object

Returned == object = Len(Made) /\ calls = <<>> /\ UNCHANGED vars

Next == foo \/ Call \/ Returned

-----------------------------------------------------------------------------
(* SA_dynamic_call.java:5-30: what each class declares, and what it extends. *)
Declares == [A |-> {"ping", "pong"}, B |-> {"ping", "wiff"}, C |-> {"ping"}]
Extends == [B |-> "A", C |-> "B"]

(* the class whose method Java runs *)
Declaring(c, m) == IF m \in Declares[c] THEN c
                   ELSE IF m \in Declares[Extends[c]] THEN Extends[c]
                   ELSE Extends[Extends[c]]

Function(c, m) == CASE c = "A" /\ m = "ping" -> "A_ping" [] c = "A" /\ m = "pong" -> "A_pong"
                    [] c = "B" /\ m = "ping" -> "B_ping" [] c = "B" /\ m = "wiff" -> "B_wiff"
                    [] c = "C" /\ m = "ping" -> "C_ping"

(* What the Java program prints of an object. *)
Prints(o) ==
  LET line(f) == [by |-> f, i |-> o.i]
      ping == Declaring(o.class, "ping")
  IN <<line(Function(ping, "ping"))>>
     \o (IF ping = "C" THEN <<line(Function(Declaring(Extends["C"], "ping"), "ping"))>> ELSE <<>>)
     \o <<line(Function(Declaring(o.class, "pong"), "pong"))>>

(* SA_dynamic_call.java: at the end of each foo the C program has printed what the Java
   program prints, inherited and overridden methods and the call of super among them. *)
DispatchesAsJava ==
  calls = <<>> =>
    output = (IF object > 0 THEN Prints(Made[1]) ELSE <<>>)
             \o (IF object > 1 THEN Prints(Made[2]) ELSE <<>>)
             \o (IF object > 2 THEN Prints(Made[3]) ELSE <<>>)
=============================================================================
