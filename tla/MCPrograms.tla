---------------------------- MODULE MCPrograms ------------------------------
(* Programs where smoke.c starts with everybody ready for the agent, or all but two. *)
EXTENDS Programs

Workers == {"handler", "smoker"} \X {1, 2, 4}

AllButTwo == Workers \ {<<"handler", 1>>, <<"smoker", 4>>}

OrderlyStarts == {Workers \cup {<<"main", 0>>}, AllButTwo}
=============================================================================
