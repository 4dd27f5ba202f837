---------------------------- MODULE MCVerification ----------------------------
EXTENDS Verification

(* One file that is edited in the scope of the task. *)
MCFiles == {<<"src", "a">>}

MCChanges ==
    [f \in MCFiles |->
        {[added |-> "plain", removed |-> "plain", shown |-> TRUE, large |-> FALSE, gone |-> FALSE]}]

(* A task with one criterion that names no check, and no review. *)
MCTasks == {[review |-> FALSE, wide |-> FALSE, scope |-> {<<"src">>}, criteria |-> {{}}]}

==============================================================================
