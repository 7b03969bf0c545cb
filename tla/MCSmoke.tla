------------------------------ MODULE MCSmoke -------------------------------
(* Smoke where the threads start in any order. *)
EXTENDS Smoke

AnyStart == {{}}
=============================================================================
