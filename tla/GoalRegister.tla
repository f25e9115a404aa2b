------------------------------ MODULE GoalRegister ------------------------------
(***************************************************************************)
(* What the way of a goal from the keyboard to the solver promises, without*)
(* nodes, topics or buffers: goals are numbered as the user gives them,    *)
(* the solver tracks one of them at a time, or none, and never goes back   *)
(* to an earlier one.  A goal that was given to a controller that has died *)
(* is not tracked by the next one.                                         *)
(***************************************************************************)
EXTENDS Integers

VARIABLES issued,     \* number of goals the user has given
          tracked,    \* the goal the solver tracks, 0 for none
          forgotten   \* the goals up to this one are not tracked any more

rvars == <<issued, tracked, forgotten>>

RInit == issued = 0 /\ tracked = 0 /\ forgotten = 0

Issue == issued' = issued + 1 /\ UNCHANGED <<tracked, forgotten>>

Track ==
  /\ tracked' > tracked /\ tracked' > forgotten /\ tracked' <= issued
  /\ UNCHANGED <<issued, forgotten>>

Forget == forgotten' = issued /\ tracked' = 0 /\ UNCHANGED issued

RNext == Issue \/ Track \/ Forget

RSpec == RInit /\ [][RNext]_rvars
=================================================================================
