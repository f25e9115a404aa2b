---------------------------- MODULE WholeBodyControl ----------------------------
(***************************************************************************)
(* The quadratic programs of the whole-body controller, row by row:        *)
(* WbcBase states its tasks for the contact flags of a mode, WeightedWbc   *)
(* puts them into one program, and HierarchicalWbc into one program per    *)
(* priority, each in the null space of those before (HoQp).  setupWbc      *)
(* builds a WeightedWbc; a HierarchicalWbc has the same interface.         *)
(*                                                                         *)
(* A row of a matrix or vector is named for the task and the leg it was    *)
(* written for; its numbers are left out.  A task is the rows of           *)
(* a x = b and d x <= f.                                                   *)
(***************************************************************************)
EXTENDS MotionPhaseDefinition, SequencesExt

CONSTANT RankLosses   \* by how much the rank of a task may fall short of its rows

ASSUME RankAssumption == RankLosses # {} /\ RankLosses \subseteq Nat

VARIABLES
  scheme,             \* "weighted" or "hierarchical"
  plannedMode,        \* the mode of the latest update
  contactFlag_,       \* the legs in contact
  level,              \* how many programs of the update have been solved
  stackedTasks_,      \* of the latest priority and all before it
  stackedSlackVars_,  \* the rows the stacked slack variables relax
  stackedZ_,          \* its columns, and the equality rows it maps to zero
  constraints,        \* of the latest program: the rows, what bounds and what relaxes them
  cost                \* of the latest program: the rows and what they are to equal

vars == <<scheme, plannedMode, contactFlag_, level, stackedTasks_, stackedSlackVars_,
          stackedZ_, constraints, cost>>

---------------------------------------------------------------------------------
(***************************************************************************)
(* WbcBase.                                                                *)
(***************************************************************************)

\* contactNames3DoF: the order of the contact flags, of the feet's Jacobians and forces.
Feet == <<"LF", "RF", "LH", "RH">>

ActuatedDofNum == 12
GeneralizedCoordinatesNum == 6 + ActuatedDofNum
NumDecisionVars == GeneralizedCoordinatesNum + 3 * Len(Feet) + ActuatedDofNum

RowsFor(n, task, leg) == [i \in 1..n |-> [task |-> task, leg |-> leg]]

\* n rows for each foot of the set, in the order of the feet.
FootRows(n, task, legs) ==
  LET rows(leg) == IF leg \in legs THEN RowsFor(n, task, leg) ELSE <<>>
  IN  rows(Feet[1]) \o rows(Feet[2]) \o rows(Feet[3]) \o rows(Feet[4])

NoTask == [a |-> <<>>, b |-> <<>>, d |-> <<>>, f |-> <<>>]

Equalities(rows) == [NoTask EXCEPT !.a = rows, !.b = rows]

FloatingBaseEomTask == Equalities(RowsFor(GeneralizedCoordinatesNum, "eom", "none"))

TorqueLimitsTask ==
  LET rows == RowsFor(2 * ActuatedDofNum, "torque", "none")
  IN  [NoTask EXCEPT !.d = rows, !.f = rows]

NoContactMotionTask == Equalities(FootRows(3, "noMotion", contactFlag_))

\* No force on a foot in the air, the pyramid for every other; the rows that are left
\* over below the pyramids are zero.
\* Slip: the flag is read the wrong way round.
FrictionConeFlipped ==
  LET pyramid == FootRows(5, "friction", Legs \ contactFlag_)
      zero    == FootRows(3, "zeroForce", contactFlag_)
  IN  [a |-> zero, b |-> zero, d |-> pyramid, f |-> pyramid]

FrictionConeTask ==
  LET air     == Legs \ contactFlag_
      pyramid == FootRows(5, "friction", contactFlag_) \o FootRows(3, "empty", air)
      zero    == FootRows(3, "zeroForce", air)
  IN  [a |-> zero, b |-> zero, d |-> pyramid, f |-> pyramid]

BaseAccelTask == Equalities(RowsFor(6, "baseAccel", "none"))

SwingLegTask == Equalities(FootRows(3, "swing", Legs \ contactFlag_))

ContactForceTask == Equalities(FootRows(3, "force", Legs))

\* Slip: the bounds of the second task come first.
PlusSwapped(t1, t2) == [a |-> t1.a \o t2.a, b |-> t2.b \o t1.b,
                        d |-> t1.d \o t2.d, f |-> t2.f \o t1.f]

\* Task::operator+
Plus(t1, t2) == [a |-> t1.a \o t2.a, b |-> t1.b \o t2.b,
                 d |-> t1.d \o t2.d, f |-> t1.f \o t2.f]

HardTasks ==
  Plus(Plus(Plus(FloatingBaseEomTask, TorqueLimitsTask), FrictionConeTask),
       NoContactMotionTask)

\* No slack variable relaxes the row.
Hard == [task |-> "none", leg |-> "none"]

Bounded(rows, bounds, slacks) ==
  [i \in 1..Len(rows) |-> [row |-> rows[i], bound |-> bounds[i], slack |-> slacks[i]]]

CostOf(task) == [i \in 1..Len(task.a) |-> [row |-> task.a[i], target |-> task.b[i]]]

---------------------------------------------------------------------------------
(***************************************************************************)
(* WeightedWbc: A x between lbA and ubA.  Only ubA is looked at here: lbA  *)
(* is the same for an equality and minus infinity for an inequality.       *)
(***************************************************************************)
WeightedTasks == Plus(Plus(SwingLegTask, BaseAccelTask), ContactForceTask)

WeightedProgram ==
  /\ constraints' = LET rows == HardTasks.a \o HardTasks.d
                    IN  Bounded(rows, HardTasks.b \o HardTasks.f, [i \in DOMAIN rows |-> Hard])
  /\ cost' = CostOf(WeightedTasks)
  /\ UNCHANGED <<stackedTasks_, stackedSlackVars_, stackedZ_>>

---------------------------------------------------------------------------------
(***************************************************************************)
(* HierarchicalWbc and HoQp.                                               *)
(***************************************************************************)

\* Slip: the torque limits have the second priority.
PrioritiesTorqueLater ==
  << Plus(Plus(FloatingBaseEomTask, FrictionConeTask), NoContactMotionTask),
     Plus(Plus(BaseAccelTask, TorqueLimitsTask), SwingLegTask), ContactForceTask >>

Priorities == << HardTasks, Plus(BaseAccelTask, SwingLegTask), ContactForceTask >>

\* d_ and f_ of a program: the inequalities of the priorities before, relaxed by the
\* slack those were given, then the task's own, each with a slack variable to find.
ConstraintsOf(task) ==
  Bounded(stackedTasks_.d, stackedTasks_.f, stackedSlackVars_) \o Bounded(task.d, task.f, task.d)

\* The columns of a kernel; Eigen gives a kernel {0} one column of zeros.
KernelColumns(cols, rows) ==
  {IF cols - rows + loss >= 1 THEN cols - rows + loss ELSE 1 : loss \in RankLosses}

\* Slip: the kernel of the task alone.
ZMatrixOfTask(task) ==
  {[cols |-> cols, nulls |-> ToSet(task.a)] : cols \in KernelColumns(stackedZ_.cols, Len(task.a))}

\* buildZMatrix: what stackedZ_ may become.
ZMatrix(task) ==
  IF task.a = <<>> THEN {stackedZ_}
  ELSE {[cols |-> cols, nulls |-> stackedZ_.nulls \cup ToSet(task.a)] :
          cols \in KernelColumns(stackedZ_.cols, Len(task.a))}

\* The constructor of HoQp.  Tasks are stacked from the newest, slacks from the oldest.
HoQp(task) ==
  /\ constraints' = ConstraintsOf(task)
  /\ cost' = CostOf(task)
  /\ stackedTasks_' = Plus(task, stackedTasks_)
  /\ stackedSlackVars_' = stackedSlackVars_ \o task.d
  /\ stackedZ_' \in ZMatrix(task)

---------------------------------------------------------------------------------
\* The programs of an update.
NumPrograms == IF scheme = "weighted" THEN 1 ELSE Len(Priorities)

WholeSpace == [cols |-> NumDecisionVars, nulls |-> {}]

Init ==
  /\ scheme \in {"weighted", "hierarchical"}
  /\ plannedMode = FLY /\ contactFlag_ = modeNumber2StanceLeg[FLY]
  /\ level = 0
  /\ stackedTasks_ = NoTask /\ stackedSlackVars_ = <<>> /\ stackedZ_ = WholeSpace
  /\ constraints = <<>> /\ cost = <<>>

\* WbcBase::update: the flags of the planned mode; what was stacked is gone.
Update(mode) ==
  /\ level = NumPrograms
  /\ plannedMode' = mode
  /\ contactFlag_' = modeNumber2StanceLeg[mode]
  /\ level' = 0
  /\ stackedTasks_' = NoTask /\ stackedSlackVars_' = <<>> /\ stackedZ_' = WholeSpace
  /\ constraints' = <<>> /\ cost' = <<>>
  /\ UNCHANGED scheme

SolveWeighted ==
  /\ scheme = "weighted" /\ level < NumPrograms
  /\ WeightedProgram
  /\ level' = level + 1
  /\ UNCHANGED <<scheme, plannedMode, contactFlag_>>

SolvePriority ==
  /\ scheme = "hierarchical" /\ level < NumPrograms
  /\ HoQp(Priorities[level + 1])
  /\ level' = level + 1
  /\ UNCHANGED <<scheme, plannedMode, contactFlag_>>

Next == (\E mode \in Modes : Update(mode)) \/ SolveWeighted \/ SolvePriority

Spec == Init /\ [][Next]_vars
---------------------------------------------------------------------------------
(***************************************************************************)
(* The constraints of the optimal control problem on a foot: isActive of   *)
(* each, which the MPC asks with the mode at the time it optimises for.    *)
(***************************************************************************)
FrictionConeIsActive(leg, mode) == leg \in modeNumber2StanceLeg[mode]

ZeroVelocityIsActive(leg, mode) == leg \in modeNumber2StanceLeg[mode]

ZeroForceIsActive(leg, mode) == leg \notin modeNumber2StanceLeg[mode]

NormalVelocityIsActive(leg, mode) == leg \notin modeNumber2StanceLeg[mode]

ActiveConstraints(leg, mode) ==
  {c \in {"frictionCone", "zeroVelocity", "zeroForce", "normalVelocity"} :
     CASE c = "frictionCone"   -> FrictionConeIsActive(leg, mode)
       [] c = "zeroVelocity"   -> ZeroVelocityIsActive(leg, mode)
       [] c = "zeroForce"      -> ZeroForceIsActive(leg, mode)
       [] c = "normalVelocity" -> NormalVelocityIsActive(leg, mode)}

(***************************************************************************)
(* Properties.                                                             *)
(***************************************************************************)

\* Every row of the latest program.
Imposed ==
  {c.row : c \in ToSet(constraints)} \cup {c.row : c \in ToSet(cost)} \cup stackedZ_.nulls

\* How the whole-body controller puts a constraint of the MPC.
Counterpart == [frictionCone |-> "friction", zeroVelocity |-> "noMotion",
                zeroForce |-> "zeroForce", normalVelocity |-> "swing"]

\* MPC and whole-body controller agree on what each foot may do: when an update is done,
\* it has imposed on a foot the counterparts of just those constraints that the MPC had
\* active for the same mode.
FeetAreConstrained ==
  level = NumPrograms =>
    \A leg \in Legs : \A c \in DOMAIN Counterpart :
      [task |-> Counterpart[c], leg |-> leg] \in Imposed <=> c \in ActiveConstraints(leg, plannedMode)

\* No task is bounded by the numbers of another: the rows that tasks bring in different
\* numbers for each mode meet their own right-hand sides when they have been stacked.
BoundsBelongToRows ==
  /\ \A c \in ToSet(constraints) : c.bound = c.row
  /\ \A c \in ToSet(cost) : c.target = c.row

\* The slack a lower priority grants to the inequalities before it is the slack each of
\* them has been given.  Tasks are stacked from the newest, slacks from the oldest: that
\* agrees only as long as no two priorities have inequalities.
SlackRelaxesItsRow == \A c \in ToSet(constraints) : c.slack \in {c.row, Hard}

\* What a lower priority may change is in the null space of all that was solved before,
\* and no inequality is dropped on the way.
PrioritiesAreKept ==
  scheme = "hierarchical" =>
    /\ ToSet(stackedTasks_.a) \subseteq stackedZ_.nulls
    /\ \A row \in ToSet(stackedTasks_.d) : \E c \in ToSet(constraints) : c.row = row

\* Dynamics and contacts leave a direction free for every motor, in every mode: the
\* second priority has something to choose from.
MotorsAreFree == level = 1 /\ scheme = "hierarchical" => stackedZ_.cols >= ActuatedDofNum
=================================================================================
