--------------------------- MODULE UserCommand_proofs ---------------------------
(***************************************************************************)
(* The way of a goal from the prompt to the solver, for any number of      *)
(* goals, resets and relaunches and however long the user waits.           *)
(***************************************************************************)
EXTENDS UserCommand, TLAPS

---------------------------------------------------------------------------------
(***************************************************************************)
(* Type correctness.                                                       *)
(***************************************************************************)
LEMMA InitTypeOK == Init => TypeOK
  BY DEF Init, TypeOK, SlotOf, ZeroObservation, Observations

\* spin_some leaves the node with an observation.
LEMMA SpunObservation == TypeOK => SpinSome \subseteq Observations
  BY DEF TypeOK, SlotOf, SpinSome

LEMMA PublishObservationTypeOK ==
  ASSUME TypeOK, NEW t \in Nat, NEW measured \in BOOLEAN, PublishObservation(t, measured)
  PROVE  published' \in Nat /\ SlotOf(mpc_observation', Observations)
  BY DEF TypeOK, PublishObservation, SlotOf, Observations

LEMMA NextTypeOK == TypeOK /\ [Next]_vars => TypeOK'
<1>. SUFFICES ASSUME TypeOK, [Next]_vars
              PROVE  TypeOK'
  OBVIOUS
<1>. USE DEF TypeOK, user, controller, faults
<1>1. CASE EnterGoal
  <2>1. latestObservation_' \in Observations
    BY <1>1, SpunObservation DEF EnterGoal
  <2>2. SlotOf(commandLine', Nat) /\ SlotOf(mpc_observation', Observations)
    BY <1>1 DEF EnterGoal, SlotOf
  <2>. QED  BY <1>1, <2>1, <2>2 DEF EnterGoal
<1>2. CASE publishKeyboardCommand
  <2>1. latestObservation_' \in Observations /\ goals' \in Nat
    BY <1>2, SpunObservation DEF publishKeyboardCommand
  <2>2. SlotOf(mpc_target', Targets)
    BY <1>2, <2>1 DEF publishKeyboardCommand, SlotOf, Target, Targets, Observations
  <2>3. SlotOf(commandLine', Nat) /\ SlotOf(mpc_observation', Observations)
    BY <1>2 DEF publishKeyboardCommand, SlotOf
  <2>. QED  BY <1>2, <2>1, <2>2, <2>3 DEF publishKeyboardCommand
<1>3. CASE RejectNumber \/ \E tpl \in Gaits : publishGait(tpl)
  BY <1>3 DEF RejectNumber, publishGait, SlotOf
<1>4. CASE StartControlLoop(time)
  <2>1. published' \in Nat /\ SlotOf(mpc_observation', Observations)
    BY <1>4, PublishObservationTypeOK DEF StartControlLoop
  <2>2. SlotOf(targetTrajectories', Targets) /\ SlotOf(targetBuffer', Targets)
    BY <1>4 DEF StartControlLoop, SlotOf, Targets
  <2>. QED  BY <1>4, <2>1, <2>2 DEF StartControlLoop
<1>5. ASSUME NEW due \in BOOLEAN, Measurement(time, due)
      PROVE  TypeOK'
  <2>1. published' \in Nat /\ SlotOf(mpc_observation', Observations)
    BY <1>5, PublishObservationTypeOK DEF Measurement
  <2>2. SlotOf(targetTrajectories', Targets) /\ SlotOf(targetBuffer', Targets)
    BY <1>5 DEF Measurement, SlotOf
  <2>. QED  BY <1>5, <2>1, <2>2 DEF Measurement
<1>6. CASE Connect \/ targetTrajectoriesCallback \/ takeGait
  BY <1>6 DEF Connect, targetTrajectoriesCallback, takeGait, SlotOf
<1>7. CASE Tick \/ ResetSimulation
  BY <1>7 DEF Tick, ResetSimulation
<1>9. CASE Relaunch
  <2>1. relaunches' \in Nat
    BY <1>9 DEF Relaunch
  <2>2. /\ SlotOf(mpc_target', Targets) /\ SlotOf(targetBuffer', Targets)
        /\ SlotOf(targetTrajectories', Targets) /\ SlotOf(mpc_mode_schedule', Gaits)
    BY <1>9 DEF Relaunch, SlotOf
  <2>. QED  BY <1>9, <2>1, <2>2 DEF Relaunch
<1>8. CASE UNCHANGED vars
  BY <1>8 DEF vars
<1>. QED
  BY <1>1, <1>2, <1>3, <1>4, <1>5, <1>6, <1>7, <1>8, <1>9
  DEF Next, UserNext, ControllerNext, NextMeasurement

\* No topic and no buffer on the way of a goal ever holds two messages.
THEOREM TypeCorrect == Spec => []TypeOK
  BY InitTypeOK, NextTypeOK, PTL DEF Spec

---------------------------------------------------------------------------------
(***************************************************************************)
(* Observations: the one the node has, or the one that waits for it, is    *)
(* the last one published.                                                 *)
(***************************************************************************)
LastIsKept ==
  /\ \A obs \in mpc_observation : obs.count = published
  /\ mpc_observation = {} => latestObservation_.count = published
  /\ \A seen \in commandLine : seen = published \/ seen < published

LEMMA SpunIsLast ==
  TypeOK /\ LastIsKept => \A obs \in SpinSome : obs.count = published
  BY DEF TypeOK, LastIsKept, SpinSome

LEMMA PublishObservationIsLast ==
  ASSUME TypeOK, LastIsKept, NEW t, NEW measured, PublishObservation(t, measured),
         commandLine' = commandLine
  PROVE  LastIsKept'
<1>1. published \in Nat /\ published' = published + 1
  BY DEF TypeOK, PublishObservation
<1>2. mpc_observation' # {} /\ \A obs \in mpc_observation' : obs.count = published'
  BY DEF PublishObservation
<1>3. \A seen \in commandLine' : seen \in Nat /\ (seen = published \/ seen < published)
  BY DEF TypeOK, SlotOf, LastIsKept
<1>4. \A seen \in commandLine' : seen < published'
  BY <1>1, <1>3
<1>. QED  BY <1>2, <1>4 DEF LastIsKept

LEMMA NextLastIsKept == TypeOK /\ LastIsKept /\ [Next]_vars => LastIsKept'
<1>. SUFFICES ASSUME TypeOK, LastIsKept, [Next]_vars
              PROVE  LastIsKept'
  OBVIOUS
<1>. USE DEF user, controller, faults
<1>1. CASE EnterGoal \/ publishKeyboardCommand
  BY <1>1, SpunIsLast DEF EnterGoal, publishKeyboardCommand, LastIsKept
<1>2. CASE StartControlLoop(time)
  BY <1>2, PublishObservationIsLast DEF StartControlLoop
<1>3. ASSUME NEW due \in BOOLEAN, Measurement(time, due)
      PROVE  LastIsKept'
  <2>1. CASE phase' = "failed"
    BY <1>3, <2>1 DEF Measurement, LastIsKept
  <2>2. CASE phase' # "failed"
    BY <1>3, <2>2, PublishObservationIsLast DEF Measurement
  <2>. QED  BY <2>1, <2>2
<1>4. CASE RejectNumber \/ \E tpl \in Gaits : publishGait(tpl)
  BY <1>4 DEF RejectNumber, publishGait, LastIsKept
<1>5. CASE \/ Connect \/ targetTrajectoriesCallback \/ takeGait
           \/ Tick \/ ResetSimulation \/ Relaunch \/ UNCHANGED vars
  BY <1>5
  DEF Connect, targetTrajectoriesCallback, takeGait, Tick, ResetSimulation, Relaunch, vars,
      LastIsKept
<1>. QED
  BY <1>1, <1>2, <1>3, <1>4, <1>5 DEF Next, UserNext, ControllerNext, NextMeasurement

LEMMA LastIsKeptInvariant == Spec => []LastIsKept
<1>1. Init => LastIsKept
  BY DEF Init, LastIsKept, ZeroObservation
<1>. QED  BY TypeCorrect, NextLastIsKept, <1>1, PTL DEF Spec

\* A node that waits at its prompt receives nothing; that it spins twice for every goal is
\* enough for the goal to be computed from what was published last.
THEOREM GoalsAreFresh == Spec => GoalFromFreshObservation
<1>1. TypeOK /\ LastIsKept /\ [Next]_vars =>
        [goals' # goals =>
           \A seen \in commandLine : \A target \in mpc_target' : target.count >= seen]_vars
  <2>. SUFFICES ASSUME TypeOK, LastIsKept, Next, goals' # goals,
                       NEW seen \in commandLine, NEW target \in mpc_target'
                PROVE  target.count >= seen
    OBVIOUS
  <2>1. CASE publishKeyboardCommand
    <3>1. target.count = published
      BY <2>1, SpunIsLast DEF publishKeyboardCommand, Target
    <3>2. seen \in Nat /\ published \in Nat
      BY DEF TypeOK, SlotOf
    <3>. QED  BY <3>1, <3>2 DEF LastIsKept
  <2>2. CASE ~ publishKeyboardCommand
    BY <2>2
    DEF Next, UserNext, ControllerNext, NextMeasurement, EnterGoal, RejectNumber, publishGait,
        Connect, StartControlLoop, Measurement, targetTrajectoriesCallback, takeGait, Tick,
        ResetSimulation, Relaunch, user
  <2>. QED  BY <2>1, <2>2
<1>. QED  BY TypeCorrect, LastIsKeptInvariant, <1>1, PTL DEF Spec, GoalFromFreshObservation

---------------------------------------------------------------------------------
(***************************************************************************)
(* Time: what was published since the latest reset, or computed from what  *)
(* was, carries no time that has not come; and what the solver tracks      *)
(* starts before the observation it tracks it from.                        *)
(***************************************************************************)
Past(count, t) == count <= published /\ (count > publishedBefore => t <= time)

PastOnly ==
  /\ publishedBefore <= published
  /\ Past(latestObservation_.count, latestObservation_.time)
  /\ \A obs \in mpc_observation : Past(obs.count, obs.time)
  /\ \A target \in mpc_target \cup targetBuffer \cup targetTrajectories :
       Past(target.count, target.start)
  /\ \A target \in targetTrajectories :
       target.start <= observation \/ target.count <= publishedBefore

LEMMA Counts ==
  ASSUME TypeOK
  PROVE  /\ published \in Nat /\ publishedBefore \in Nat /\ time \in Nat /\ observation \in Nat
         /\ \A obs \in mpc_observation \cup {latestObservation_} :
              obs.count \in Nat /\ obs.time \in Nat
         /\ \A target \in mpc_target \cup targetBuffer \cup targetTrajectories :
              target.count \in Nat /\ target.start \in Nat
  BY DEF TypeOK, SlotOf, Observations, Targets

LEMMA SpunIsPast ==
  PastOnly => \A obs \in SpinSome : Past(obs.count, obs.time)
  BY DEF PastOnly, SpinSome

LEMMA NextPastOnly == TypeOK /\ PastOnly /\ [Next]_vars => PastOnly'
<1>. SUFFICES ASSUME TypeOK, PastOnly, [Next]_vars
              PROVE  PastOnly'
  OBVIOUS
<1>. USE DEF user, controller, faults
<1>1. CASE EnterGoal
  BY <1>1, SpunIsPast DEF EnterGoal, PastOnly, Past
<1>2. CASE publishKeyboardCommand
  BY <1>2, SpunIsPast DEF publishKeyboardCommand, PastOnly, Past, Target
<1>3. CASE StartControlLoop(time)
  <2>1. published' = published + 1 /\ UNCHANGED <<time, publishedBefore>>
    BY <1>3 DEF StartControlLoop, PublishObservation
  <2>2. \A obs \in mpc_observation' : obs.count = published' /\ obs.time = time
    BY <1>3, <2>1 DEF StartControlLoop, PublishObservation
  <2>3. /\ \A target \in targetTrajectories' : target.count = published' /\ target.start = time
        /\ targetBuffer' = {} /\ observation' = time
        /\ UNCHANGED <<latestObservation_, mpc_target>>
    BY <1>3, <2>1 DEF StartControlLoop
  <2>. QED  BY <2>1, <2>2, <2>3, Counts DEF PastOnly, Past
<1>4. ASSUME NEW due \in BOOLEAN, Measurement(time, due)
      PROVE  PastOnly'
  <2>1. /\ observation' = time
        /\ UNCHANGED <<time, publishedBefore, latestObservation_, mpc_target>>
    BY <1>4 DEF Measurement
  <2>2. /\ published' \in {published, published + 1}
        /\ \A obs \in mpc_observation' :
             \/ obs \in mpc_observation
             \/ obs.count = published + 1 /\ published' = published + 1 /\ obs.time = time
    BY <1>4 DEF Measurement, PublishObservation
  <2>3. /\ targetBuffer' \subseteq targetBuffer
        /\ targetTrajectories' \subseteq targetBuffer \cup targetTrajectories
    BY <1>4 DEF Measurement
  <2>. QED  BY <2>1, <2>2, <2>3, Counts DEF PastOnly, Past
<1>5. CASE Tick
  <2>1. /\ time' = time + 1
        /\ UNCHANGED <<published, publishedBefore, latestObservation_, mpc_observation,
                       mpc_target, targetBuffer, targetTrajectories, observation>>
    BY <1>5 DEF Tick
  <2>. QED  BY <2>1, Counts DEF PastOnly, Past
<1>6. CASE ResetSimulation
  <2>1. /\ publishedBefore' = published
        /\ UNCHANGED <<published, latestObservation_, mpc_observation, mpc_target, targetBuffer,
                       targetTrajectories, observation>>
    BY <1>6 DEF ResetSimulation
  <2>. QED  BY <2>1, Counts DEF PastOnly, Past
<1>7. CASE Relaunch
  BY <1>7 DEF Relaunch, PastOnly, Past
<1>8. CASE targetTrajectoriesCallback
  BY <1>8 DEF targetTrajectoriesCallback, PastOnly, Past
<1>9. CASE \/ RejectNumber \/ (\E tpl \in Gaits : publishGait(tpl))
           \/ Connect \/ takeGait \/ UNCHANGED vars
  BY <1>9 DEF RejectNumber, publishGait, Connect, takeGait, vars, PastOnly, Past
<1>. QED
  BY <1>1, <1>2, <1>3, <1>4, <1>5, <1>6, <1>7, <1>8, <1>9
  DEF Next, UserNext, ControllerNext, NextMeasurement

\* A reference from the future is one from before the latest reset: no way through node,
\* topics and buffer lets the solver track it once it has taken a goal that was computed
\* from an observation published since then.
THEOREM FutureTargetsAreLeftOver == Spec => []FutureTargetIsLeftOver
<1>1. Init => PastOnly
  BY DEF Init, PastOnly, Past, ZeroObservation
<1>2. PastOnly => FutureTargetIsLeftOver
  BY DEF PastOnly, FutureTargetIsLeftOver
<1>. QED  BY TypeCorrect, NextPastOnly, <1>1, <1>2, PTL DEF Spec

---------------------------------------------------------------------------------
(***************************************************************************)
(* Refinement: topic, buffer and solver hold goals in the order they were  *)
(* given, none of them given to a controller that has died.  A controller  *)
(* that does not run has no policy, and nothing it tracks to lose.         *)
(***************************************************************************)
GoalsInOrder ==
  /\ goalsBefore \in Nat /\ goalsBefore <= goals
  /\ \A target \in mpc_target \cup targetBuffer :
       target.goal > goalsBefore /\ target.goal <= goals
  /\ \A target \in targetTrajectories : target.goal <= goals
  /\ \A later \in mpc_target : \A target \in targetBuffer \cup targetTrajectories :
       later.goal > target.goal
  /\ \A later \in targetBuffer : \A target \in targetTrajectories : later.goal > target.goal
  /\ phase # "running" => targetTrajectories = {}

LEMMA GoalNumbers ==
  ASSUME TypeOK
  PROVE  \A target \in mpc_target \cup targetBuffer \cup targetTrajectories :
           target.goal \in Nat
  BY DEF TypeOK, SlotOf, Targets

LEMMA NextGoalsInOrder == TypeOK /\ GoalsInOrder /\ [Next]_vars => GoalsInOrder'
<1>. SUFFICES ASSUME TypeOK, GoalsInOrder, [Next]_vars
              PROVE  GoalsInOrder'
  OBVIOUS
<1>. USE DEF user, controller, faults
<1>1. CASE publishKeyboardCommand
  <2>1. goals \in Nat /\ goals' = goals + 1
    BY <1>1 DEF publishKeyboardCommand, TypeOK
  <2>2. \A target \in mpc_target' : target.goal = goals'
    BY <1>1 DEF publishKeyboardCommand, Target
  <2>3. UNCHANGED <<targetBuffer, targetTrajectories, phase, goalsBefore>>
    BY <1>1 DEF publishKeyboardCommand
  <2>. QED  BY <2>1, <2>2, <2>3, GoalNumbers DEF GoalsInOrder
<1>2. CASE StartControlLoop(time)
  <2>1. goals \in Nat
    BY DEF TypeOK
  <2>2. \A target \in targetTrajectories' : target.goal = 0
    BY <1>2 DEF StartControlLoop
  <2>3. targetBuffer' = {} /\ phase' = "running" /\ UNCHANGED <<goals, goalsBefore, mpc_target>>
    BY <1>2 DEF StartControlLoop
  <2>. QED  BY <2>1, <2>2, <2>3, GoalNumbers DEF GoalsInOrder
<1>3. ASSUME NEW due \in BOOLEAN, due => targetTrajectories # {}, Measurement(time, due)
      PROVE  GoalsInOrder'
  <2>1. UNCHANGED <<goals, goalsBefore, mpc_target>>
    BY <1>3 DEF Measurement
  <2>2. \/ targetTrajectories' = targetBuffer /\ targetBuffer' = {}
        \/ targetTrajectories' = targetTrajectories /\ targetBuffer' \in {targetBuffer, {}}
    BY <1>3 DEF Measurement
  <2>3. phase' # "running" => targetTrajectories' = {}
    <3>1. CASE phase = "running"
      BY <1>3, <3>1 DEF Measurement
    <3>2. CASE phase # "running"
      BY <1>3, <3>2 DEF Measurement, GoalsInOrder
    <3>. QED  BY <3>1, <3>2
  <2>. QED  BY <2>1, <2>2, <2>3 DEF GoalsInOrder
<1>4. CASE targetTrajectoriesCallback
  <2>1. targetBuffer' = mpc_target /\ mpc_target' = {}
    BY <1>4 DEF targetTrajectoriesCallback
  <2>2. UNCHANGED <<goals, goalsBefore, targetTrajectories, phase>>
    BY <1>4 DEF targetTrajectoriesCallback
  <2>. QED  BY <2>1, <2>2 DEF GoalsInOrder
<1>5. CASE Relaunch
  BY <1>5 DEF Relaunch, GoalsInOrder, TypeOK
<1>6. CASE Connect
  BY <1>6 DEF Connect, GoalsInOrder
<1>7. CASE \/ EnterGoal \/ RejectNumber \/ (\E tpl \in Gaits : publishGait(tpl))
           \/ takeGait \/ Tick \/ ResetSimulation \/ UNCHANGED vars
  BY <1>7
  DEF EnterGoal, RejectNumber, publishGait, takeGait, Tick, ResetSimulation, vars, GoalsInOrder
<1>. QED
  BY <1>1, <1>2, <1>3, <1>4, <1>5, <1>6, <1>7
  DEF Next, UserNext, ControllerNext, NextMeasurement

\* What is tracked is the goal of the one target the solver has.
LEMMA OneTarget ==
  ASSUME NEW targets, SlotOf(targets, Targets), NEW target \in targets
  PROVE  (CHOOSE one \in targets : TRUE) = target
<1>1. (CHOOSE one \in targets : TRUE) \in targets
  OBVIOUS
<1>. QED  BY <1>1 DEF SlotOf

LEMMA TrackedGoal ==
  ASSUME TypeOK
  PROVE  /\ targetTrajectories = {} => tracked = 0
         /\ \A target \in targetTrajectories : tracked = target.goal
<1>1. SlotOf(targetTrajectories, Targets)
  BY DEF TypeOK
<1>2. \A target \in targetTrajectories : tracked = target.goal
  BY <1>1, OneTarget, Zenon DEF tracked
<1>. QED  BY <1>2 DEF tracked

LEMMA TrackedGoalNext ==
  ASSUME TypeOK'
  PROVE  /\ targetTrajectories' = {} => tracked' = 0
         /\ \A target \in targetTrajectories' : tracked' = target.goal
<1>1. SlotOf(targetTrajectories', Targets)
  BY DEF TypeOK
<1>2. \A target \in targetTrajectories' : tracked' = target.goal
  BY <1>1, OneTarget, Zenon DEF tracked
<1>. QED  BY <1>2 DEF tracked

LEMMA StepImplements ==
  ASSUME TypeOK, TypeOK', GoalsInOrder, [Next]_vars
  PROVE  [Register!RNext]_Register!rvars
<1>. USE DEF user, controller, faults, Register!RNext, Register!rvars
<1>0. /\ targetTrajectories' = {} => tracked' = 0
      /\ \A target \in targetTrajectories' : tracked' = target.goal
  BY TrackedGoalNext
<1>1. CASE publishKeyboardCommand
  <2>1. targetTrajectories' = targetTrajectories
    BY <1>1 DEF publishKeyboardCommand
  <2>. QED  BY <1>1, <2>1 DEF publishKeyboardCommand, Register!Issue, tracked
<1>2. CASE StartControlLoop(time)
  <2>1. tracked = 0
    BY <1>2, TrackedGoal DEF StartControlLoop, GoalsInOrder
  <2>2. tracked' = 0
    BY <1>0, <1>2 DEF StartControlLoop
  <2>. QED  BY <1>2, <2>1, <2>2 DEF StartControlLoop
<1>3. ASSUME NEW due \in BOOLEAN, Measurement(time, due)
      PROVE  [Register!RNext]_Register!rvars
  <2>1. UNCHANGED <<goals, goalsBefore>>
    BY <1>3 DEF Measurement
  <2>2. CASE targetTrajectories' = targetTrajectories
    BY <2>1, <2>2 DEF tracked
  <2>3. CASE targetTrajectories' # targetTrajectories
    <3>1. PICK target \in targetBuffer : target \in targetTrajectories'
      BY <1>3, <2>3 DEF Measurement
    <3>2. tracked' = target.goal /\ target.goal \in Nat
      BY <1>0, <3>1, GoalNumbers
    <3>3. tracked' > tracked
      <4>1. CASE targetTrajectories = {}
        BY <3>1, <3>2, <4>1, TrackedGoal DEF GoalsInOrder
      <4>2. CASE targetTrajectories # {}
        <5>1. PICK old \in targetTrajectories : TRUE
          BY <4>2
        <5>. QED  BY <3>1, <3>2, <5>1, TrackedGoal DEF GoalsInOrder
      <4>. QED  BY <4>1, <4>2
    <3>4. tracked' > goalsBefore /\ tracked' <= goals
      BY <3>1, <3>2 DEF GoalsInOrder
    <3>. QED  BY <2>1, <3>3, <3>4 DEF Register!Track
  <2>. QED  BY <2>2, <2>3
<1>4. CASE Relaunch
  <2>1. tracked' = 0
    BY <1>0, <1>4 DEF Relaunch
  <2>. QED  BY <1>4, <2>1 DEF Relaunch, Register!Forget
<1>5. CASE \/ EnterGoal \/ RejectNumber \/ (\E tpl \in Gaits : publishGait(tpl))
           \/ Connect \/ targetTrajectoriesCallback \/ takeGait \/ Tick \/ ResetSimulation
           \/ UNCHANGED vars
  <2>1. UNCHANGED <<goals, goalsBefore, targetTrajectories>>
    BY <1>5
    DEF EnterGoal, RejectNumber, publishGait, Connect, targetTrajectoriesCallback, takeGait,
        Tick, ResetSimulation, vars
  <2>. QED  BY <2>1 DEF tracked
<1>. QED
  BY <1>1, <1>2, <1>3, <1>4, <1>5 DEF Next, UserNext, ControllerNext, NextMeasurement

\* Prompt, topic, buffer and the start sequence that overwrites the buffer amount to one
\* register that never goes back to an earlier goal, nor to one of a former controller.
THEOREM GoalsImplementRegister == Spec => ImplementsGoalRegister
<1>1. Init => GoalsInOrder
  BY DEF Init, GoalsInOrder
<1>2. Init => Register!RInit
  BY DEF Init, Register!RInit, tracked
<1>3. TypeOK /\ TypeOK' /\ GoalsInOrder /\ [Next]_vars => [Register!RNext]_Register!rvars
  BY StepImplements
<1>. QED
  BY TypeCorrect, NextGoalsInOrder, <1>1, <1>2, <1>3, PTL
  DEF Spec, ImplementsGoalRegister, Register!RSpec
=================================================================================
