------------------------------- MODULE MCGoal -------------------------------
(* Goal for TLC: one goal and two tasks, one of which is started behind the  *)
(* other.                                                                    *)
EXTENDS Goal

=============================================================================
