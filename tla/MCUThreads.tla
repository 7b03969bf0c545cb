----------------------------- MODULE MCUThreads -----------------------------
(* Small programs over UThreads: who calls what, how often, on which processors. *)
EXTENDS UThreads, TLC

CONSTANTS main, t1, t2, p1, p2

Program(mains, t1s, t2s, n, ps) ==
  [calls |-> (main :> mains) @@ (t1 :> t1s) @@ (t2 :> t2s), bound |-> n, processors |-> ps, idleSleep |-> TRUE]

(* The same over the scheduler of a09/q1. *)
Older(g) == [g EXCEPT !.idleSleep = FALSE]

(* Any mixture of the disciplined calls, on one processor. *)
Mixed == Program({"create", "yield", "wait", "wake", "join", "detach"},
                 {"yield", "wait", "wake", "join", "exit"},
                 {"yield", "wait", "wake", "detach", "exit"}, 3, {p1})

(* Threads that ever block neither yield nor return; the others never block. *)
BlockOrExit == Program({"create", "wake", "join"}, {"yield", "exit", "wake"},
                       {"wait", "wake", "detach"}, 2, {p1, p2})

(* Threads that only run, and whoever created them joins or detaches them. *)
Pool == Program({"create", "join", "detach"}, {"create", "detach", "exit"}, {"exit"}, 2, {p1, p2})

(* Threads unblock each other, blocked already or not yet. *)
Unblocks == Program({"create", "block", "unblock"}, {"block", "unblock"}, {}, 2, {p1, p2})

(* The same, smaller, over the older scheduler, which does not carry BlockOrExit: a thread that
   yields is on the queue before it has stopped, so that another processor may run it to its
   end, and the first one frees it while it runs. *)
OlderPrograms ==
  {Older(Mixed),
   Older([Unblocks EXCEPT !.bound = 1]),
   Older(Program({"create", "join"}, {"exit"}, {"exit"}, 2, {p1, p2}))}

Disciplined == {Mixed, BlockOrExit, Pool, Unblocks} \cup OlderPrograms

(* For the liveness properties, a little smaller. *)
Returning == {[Mixed EXCEPT !.bound = 2], BlockOrExit, Pool, Older([Mixed EXCEPT !.bound = 2])}

(* A thread that was woken returns at once. *)
BlockThenExit == {Program({"create", "wake", "detach"}, {"wait", "exit"}, {"wake", "exit"}, 3, {p1, p2})}

(* Unblock reaches any live thread, as uthread.h allows. *)
FreeUnblocks == {Program({"create", "block", "unblock"}, {"block", "unblock"}, {}, 3, {p1, p2})}
=============================================================================
