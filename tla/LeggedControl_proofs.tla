-------------------------- MODULE LeggedControl_proofs --------------------------
(***************************************************************************)
(* The whole program: what was proved of the loop and of the planning, put *)
(* together.  The loop runs the solver at the times ReferencePlanning      *)
(* assumes, so what holds of the planning holds in the program; and the    *)
(* command of every period is computed inside the horizon of a plan.       *)
(***************************************************************************)
EXTENDS LeggedControl, TLAPS

\* The two parts with their theorems.
LoopP == INSTANCE ControlLoop_proofs

PlanP == INSTANCE GaitTimeline_proofs
           WITH ExternalSchedules <- {},
                StartTimes <- 0..MaxFreeRun,
                Periods <- (IF MaxResets = 0 THEN Cycle - 1 ELSE 1)..Cycle,
                ResetTimes <- 0..Cycle

LEMMA LoopAssumption == LoopP!ControlAssumption
  BY LeggedAssumption DEF LoopP!ControlAssumption

---------------------------------------------------------------------------------
(***************************************************************************)
(* The program contains the loop.                                          *)
(***************************************************************************)
LEMMA LoopInit == Init => LoopP!Init
  BY DEF Init, Loop!Init, LoopP!Init

LEMMA LoopActions ==
  /\ Loop!SimulatorNext <=> LoopP!SimulatorNext
  /\ Loop!ResetSimulation <=> LoopP!ResetSimulation
  /\ Loop!LoseMessage <=> LoopP!LoseMessage
  /\ Loop!RequestStart <=> LoopP!RequestStart
  /\ Loop!ServiceNotAvailable <=> LoopP!ServiceNotAvailable
  /\ Loop!StartControlLoop <=> LoopP!StartControlLoop
<1>. USE DEF LoopP!simulator, Loop!simulator, LoopP!controller, Loop!controller, LoopP!service,
             Loop!service, LoopP!topics, Loop!topics, LoopP!environment, Loop!environment
<1>1. Loop!SimulatorNext <=> LoopP!SimulatorNext
  BY DEF Loop!SimulatorNext, LoopP!SimulatorNext, Loop!StartSimulator, LoopP!StartSimulator,
         Loop!ControlPeriod, LoopP!ControlPeriod, Loop!FreePeriod, LoopP!FreePeriod,
         Loop!IdleRound, LoopP!IdleRound, Loop!control_callback, LoopP!control_callback,
         Loop!start_control_service, LoopP!start_control_service
<1>2. /\ Loop!ResetSimulation <=> LoopP!ResetSimulation
      /\ Loop!LoseMessage <=> LoopP!LoseMessage
  BY DEF Loop!ResetSimulation, LoopP!ResetSimulation, Loop!LoseMessage, LoopP!LoseMessage
<1>3. /\ Loop!RequestStart <=> LoopP!RequestStart
      /\ Loop!ServiceNotAvailable <=> LoopP!ServiceNotAvailable
      /\ Loop!StartControlLoop <=> LoopP!StartControlLoop
  BY DEF Loop!RequestStart, LoopP!RequestStart, Loop!ServiceNotAvailable,
         LoopP!ServiceNotAvailable, Loop!StartControlLoop, LoopP!StartControlLoop
<1>. QED  BY <1>1, <1>2, <1>3

LEMMA LoopCallbacks ==
  /\ \A n : Loop!MpcIsDue(n) <=> LoopP!MpcIsDue(n)
  /\ Loop!simulatorStateCallback <=> LoopP!simulatorStateCallback
  /\ Loop!simulatorSensorCallback <=> LoopP!simulatorSensorCallback
<1>. USE DEF LoopP!simulator, Loop!simulator, LoopP!service, Loop!service, LoopP!environment,
             Loop!environment
<1>1. \A n : Loop!MpcIsDue(n) <=> LoopP!MpcIsDue(n)
  BY DEF Loop!MpcIsDue, LoopP!MpcIsDue
<1>2. \A t : Loop!ControlStep(t) <=> LoopP!ControlStep(t)
  BY DEF Loop!ControlStep, LoopP!ControlStep, Loop!MpcIsDue, LoopP!MpcIsDue
<1>3. Loop!Spinning <=> LoopP!Spinning
  BY DEF Loop!Spinning, LoopP!Spinning
<1>4. Loop!simulatorStateCallback <=> LoopP!simulatorStateCallback
  BY <1>2, <1>3 DEF Loop!simulatorStateCallback, LoopP!simulatorStateCallback
<1>5. Loop!simulatorSensorCallback <=> LoopP!simulatorSensorCallback
  BY <1>2, <1>3 DEF Loop!simulatorSensorCallback, LoopP!simulatorSensorCallback
<1>. QED  BY <1>1, <1>4, <1>5

\* Every step of the program is a step of the loop or leaves it alone.
LEMMA LoopStepOfProgram == [Next]_vars => [LoopP!Next]_LoopP!vars
<1>. SUFFICES ASSUME [Next]_vars
              PROVE  LoopP!Next \/ UNCHANGED LoopP!vars
  OBVIOUS
<1>1. UNCHANGED loopVars => UNCHANGED LoopP!vars
  BY DEF loopVars, LoopP!vars, LoopP!simulator, LoopP!controller, LoopP!service, LoopP!topics,
         LoopP!environment
<1>2. CASE LoopStep \/ Connect \/ StartControlLoop
  BY <1>2, LoopActions DEF LoopStep, Connect, StartControlLoop, LoopP!Next, LoopP!ControllerNext
<1>3. CASE MeasurementCallback
  BY <1>3, LoopCallbacks
  DEF MeasurementCallback, Measurement, Callback, LoopP!Next, LoopP!ControllerNext
<1>4. CASE GaitCallback \/ GoalCallback \/ UserStep
  BY <1>1, <1>4 DEF GaitCallback, GoalCallback, UserStep
<1>5. CASE UNCHANGED vars
  BY <1>1, <1>5 DEF vars
<1>. QED  BY <1>2, <1>3, <1>4, <1>5 DEF Next

LEMMA ProgramRunsLoop == Spec => LoopP!Spec
  BY LoopInit, LoopStepOfProgram, PTL DEF Spec, LoopP!Spec

\* What holds of the loop holds in the program.
LEMMA LoopInvariants ==
  ASSUME MaxRelaunches = 0
  PROVE  Spec => [](LoopP!TypeOK /\ LoopP!RunInv)
<1>1. LoopP!Spec => []LoopP!TypeOK
  BY LoopP!TypeCorrect, LoopAssumption DEF LoopP!TypeCorrect, LoopP!ControlAssumption
<1>2. LoopP!Spec => []LoopP!RunInv
  BY LoopP!RunInvariant, LoopAssumption DEF LoopP!ControlAssumption
<1>. QED  BY ProgramRunsLoop, <1>1, <1>2, PTL

LEMMA LoopTimes ==
  ASSUME MaxRelaunches = 0
  PROVE  Spec => [](LoopP!Timed /\ LoopP!Forward)
  BY ProgramRunsLoop, LoopP!TimesInvariant, LoopAssumption, PTL DEF LoopP!ControlAssumption

LEMMA LoopBounds ==
  ASSUME MaxRelaunches = 0, MaxFreeRun <= MaxTime
  PROVE  Spec => []LoopP!WithinBounds
  BY ProgramRunsLoop, LoopP!BoundsInvariant, LoopAssumption, PTL DEF LoopP!ControlAssumption

LEMMA LoopAges ==
  ASSUME MaxRelaunches = 0, MaxResets = 0
  PROVE  Spec => []LoopP!Aged
  BY ProgramRunsLoop, LoopP!AgedInvariant, LoopAssumption, PTL DEF LoopP!ControlAssumption

---------------------------------------------------------------------------------
(***************************************************************************)
(* Loop and planning together.                                             *)
(***************************************************************************)

\* The active policy is that of the latest solver run, and there is none before the start;
\* the gaits on their way to the receiver are gaits the user can command.
Joint ==
  /\ mpc_mode_schedule \subseteq Gaits
  /\ IF phase = "running" THEN solved /\ policy = {initTime} ELSE ~ solved

LEMMA InitJoint == Init => Joint
  BY DEF Init, Loop!Init, User!Init, Planning!Init, Joint

\* The first solver run, at the time of the state the simulator answers with.
LEMMA StartRuns ==
  ASSUME StartControlLoop
  PROVE  /\ phase = "waiting" /\ phase' = "running"
         /\ mpc_mode_schedule' = mpc_mode_schedule
         /\ \E t \in response : Planning!SolverRun(t) /\ observation' = t /\ policy' = {t}
<1>1. PICK t \in response : User!StartControlLoop(t) /\ Planning!SolverRun(t)
  BY DEF StartControlLoop
<1>2. observation' = t /\ mpc_mode_schedule' = mpc_mode_schedule
  BY <1>1 DEF User!StartControlLoop
<1>3. /\ phase = "waiting" /\ phase' = "running"
      /\ \E u \in response : observation' = u /\ policy' = {u}
  BY DEF StartControlLoop, Loop!StartControlLoop
<1>. QED  BY <1>1, <1>2, <1>3

\* Every later one, at the time of the measurement that is due.
LEMMA MeasurementRuns ==
  ASSUME LoopP!TypeOK, LoopP!RunInv, MeasurementCallback
  PROVE  /\ phase = "running" /\ phase' = "running"
         /\ mpc_mode_schedule' = mpc_mode_schedule
         /\ \E t \in LoopP!Measurements :
              /\ observation' = t
              /\ \/ LoopP!MpcIsDue(MpcCount_ + 1) /\ policy' = {t} /\ Planning!SolverRun(t)
                 \/ policy' = policy /\ UNCHANGED planningVars
<1>1. PICK t \in LoopP!Measurements :
        /\ LoopP!simulatorStateCallback \/ LoopP!simulatorSensorCallback
        /\ User!Measurement(t, Loop!MpcIsDue(MpcCount_ + 1))
        /\ Solve(t, Loop!MpcIsDue(MpcCount_ + 1))
  BY LoopCallbacks DEF MeasurementCallback, Measurement, Callback, LoopP!Measurements
<1>2. observation' = t /\ mpc_mode_schedule' = mpc_mode_schedule
  BY <1>1 DEF User!Measurement
<1>3. phase = "running" /\ phase' = "running"
  BY <1>1, LoopP!MeasurementStep, LoopAssumption DEF LoopP!RunInv, LoopP!ControlAssumption
<1>4. PICK u : LoopP!ControlStep(u)
  BY <1>1 DEF LoopP!simulatorStateCallback, LoopP!simulatorSensorCallback
<1>5. u = t
  BY <1>2, <1>4 DEF LoopP!ControlStep
<1>6. CASE LoopP!MpcIsDue(MpcCount_ + 1)
  <2>1. policy' = {t} /\ Planning!SolverRun(t)
    BY <1>1, <1>4, <1>5, <1>6, LoopCallbacks DEF LoopP!ControlStep, Solve
  <2>. QED  BY <1>2, <1>3, <1>6, <2>1
<1>7. CASE ~ LoopP!MpcIsDue(MpcCount_ + 1)
  <2>1. policy' = policy /\ UNCHANGED planningVars
    BY <1>1, <1>4, <1>5, <1>7, LoopCallbacks DEF LoopP!ControlStep, Solve
  <2>. QED  BY <1>2, <1>3, <2>1
<1>. QED  BY <1>6, <1>7

\* A gait on its way has been commanded.
LEMMA NextJoint ==
  ASSUME LoopP!TypeOK, LoopP!RunInv, Joint, [Next]_vars
  PROVE  Joint'
<1>1. CASE LoopStep
  <2>1. UNCHANGED <<phase, policy, solved, initTime, mpc_mode_schedule>>
    BY <1>1
    DEF LoopStep, userVars, planningVars, Loop!SimulatorNext, Loop!ResetSimulation,
        Loop!LoseMessage, Loop!controller, Loop!StartSimulator, Loop!ControlPeriod,
        Loop!FreePeriod, Loop!IdleRound, Loop!control_callback, Loop!start_control_service
  <2>. QED  BY <2>1 DEF Joint
<1>2. CASE Connect
  <2>1. /\ phase = "connecting" /\ phase' # "running"
        /\ UNCHANGED <<solved, mpc_mode_schedule>>
    BY <1>2
    DEF Connect, User!Connect, planningVars, Loop!RequestStart, Loop!ServiceNotAvailable
  <2>. QED  BY <2>1 DEF Joint
<1>3. CASE StartControlLoop
  BY <1>3, StartRuns DEF Joint, Planning!SolverRun
<1>4. CASE MeasurementCallback
  <2>1. \A t : Planning!SolverRun(t) => solved' /\ initTime' = t
    BY DEF Planning!SolverRun
  <2>2. phase = "running" /\ phase' = "running" /\ mpc_mode_schedule' = mpc_mode_schedule
    BY <1>4, MeasurementRuns
  <2>3. PICK t : \/ policy' = {t} /\ Planning!SolverRun(t)
                 \/ policy' = policy /\ UNCHANGED <<solved, initTime>>
    BY <1>4, MeasurementRuns DEF planningVars
  <2>4. solved /\ policy = {initTime} /\ mpc_mode_schedule \subseteq Gaits
    BY <2>2 DEF Joint
  <2>5. solved' /\ policy' = {initTime'}
    BY <2>1, <2>3, <2>4
  <2>6. mpc_mode_schedule' \subseteq Gaits
    BY <2>2, <2>4
  <2>. QED  BY <2>2, <2>5, <2>6 DEF Joint
<1>5. CASE GaitCallback
  BY <1>5
  DEF GaitCallback, User!takeGait, Planning!mpcModeSequenceCallback, loopVars, Joint
<1>6. CASE GoalCallback
  BY <1>6 DEF GoalCallback, User!targetTrajectoriesCallback, loopVars, planningVars, Joint
<1>7. CASE UserStep
  <2>1. mpc_mode_schedule' \subseteq Gaits
    BY <1>7
    DEF UserStep, User!UserNext, User!EnterGoal, User!RejectNumber,
        User!publishKeyboardCommand, User!publishGait, Joint
  <2>. QED  BY <1>7, <2>1 DEF UserStep, loopVars, planningVars, Joint
<1>8. CASE UNCHANGED vars
  BY <1>8 DEF vars, loopVars, userVars, planningVars, Joint
<1>. QED  BY <1>1, <1>2, <1>3, <1>4, <1>5, <1>6, <1>7, <1>8 DEF Next

LEMMA JointInvariant ==
  ASSUME MaxRelaunches = 0
  PROVE  Spec => []Joint
<1>1. LoopP!TypeOK /\ LoopP!RunInv /\ Joint /\ [Next]_vars => Joint'
  BY NextJoint
<1>. QED  BY InitJoint, LoopInvariants, <1>1, PTL DEF Spec

---------------------------------------------------------------------------------
(***************************************************************************)
(* The program runs the planning as ReferencePlanning assumes.             *)
(***************************************************************************)

\* The planning acts in three of the steps of the program only.
LEMMA PlanningSteps ==
  ASSUME LoopP!TypeOK, LoopP!RunInv, Joint, Next, planningVars' # planningVars
  PROVE  \/ \E tpl \in Gaits : Planning!mpcModeSequenceCallback(tpl)
         \/ /\ phase = "waiting" /\ ~ solved
            /\ \E t \in response : Planning!SolverRun(t)
         \/ /\ phase = "running" /\ solved /\ policy = {initTime}
            /\ LoopP!MpcIsDue(MpcCount_ + 1)
            /\ \E t \in LoopP!Measurements : Planning!SolverRun(t)
<1>1. CASE GaitCallback
  <2>1. PICK tpl \in mpc_mode_schedule : Planning!mpcModeSequenceCallback(tpl)
    BY <1>1 DEF GaitCallback
  <2>. QED  BY <2>1 DEF Joint
<1>2. CASE StartControlLoop
  <2>1. PICK t \in response : phase = "waiting" /\ Planning!SolverRun(t)
    BY <1>2, StartRuns
  <2>. QED  BY <2>1 DEF Joint
<1>3. CASE MeasurementCallback
  <2>1. PICK t \in LoopP!Measurements :
          phase = "running" /\ LoopP!MpcIsDue(MpcCount_ + 1) /\ Planning!SolverRun(t)
    BY <1>3, MeasurementRuns
  <2>. QED  BY <2>1 DEF Joint
<1>4. CASE LoopStep \/ Connect \/ GoalCallback \/ UserStep
  BY <1>4 DEF LoopStep, Connect, GoalCallback, UserStep, planningVars
<1>. QED  BY <1>1, <1>2, <1>3, <1>4 DEF Next

\* What the timing of the loop has to give the planning.
Punctual ==
  /\ LoopP!Timed /\ LoopP!WithinBounds
  /\ MaxResets = 0 => LoopP!Aged

\* A step of the program in which the planning acts is one of its own steps.
LEMMA PlanningStepOfProgram ==
  ASSUME MaxResets = 0 \/ 2 * Mpc_control_frequency <= Wbc_control_frequency,
         Mpc_control_frequency <= Wbc_control_frequency,
         LoopP!TypeOK, LoopP!RunInv, Joint, Punctual, Next, planningVars' # planningVars
  PROVE  Planning!Next
<1>1. CASE \E tpl \in Gaits : Planning!mpcModeSequenceCallback(tpl)
  BY <1>1 DEF Planning!Next
<1>2. ASSUME phase = "waiting", ~ solved, NEW t \in response, Planning!SolverRun(t)
      PROVE  Planning!Next
  <2>1. t \in Nat /\ t <= MaxFreeRun /\ t <= MaxTime
    BY <1>2 DEF LoopP!TypeOK, LoopP!Slot, Punctual, LoopP!WithinBounds
  <2>2. t \in 0..MaxFreeRun
    BY <2>1, LeggedAssumption
  <2>. QED  BY <1>2, <2>1, <2>2 DEF Planning!Next, Planning!Advance
<1>3. ASSUME phase = "running", solved, policy = {initTime}, LoopP!MpcIsDue(MpcCount_ + 1),
             NEW t \in LoopP!Measurements, Planning!SolverRun(t)
      PROVE  Planning!Next
  <2>1. /\ LoopP!Cycle \in Nat \ {0} /\ initTime \in Nat /\ t \in Nat
        /\ LoopP!Aged => t - initTime \in (LoopP!Cycle - 1)..LoopP!Cycle
        /\ LoopP!Timed => t - initTime \in (LoopP!Cycle - 1)..LoopP!Cycle \/ t <= LoopP!Cycle
    BY <1>3, LoopP!DueMeasurement, LoopAssumption
    DEF LoopP!RunInv, LoopP!ControlAssumption
  <2>2. LoopP!Cycle = Cycle
    BY DEF LoopP!Cycle, Cycle
  <2>3. t <= MaxTime
    BY DEF Punctual, LoopP!WithinBounds
  <2>4. ASSUME NEW d \in (IF MaxResets = 0 THEN Cycle - 1 ELSE 1)..Cycle, t = initTime + d
        PROVE  Planning!Next
    BY <1>3, <2>3, <2>4 DEF Planning!Next, Planning!Advance
  <2>5. CASE MaxResets = 0
    <3>1. t - initTime \in (Cycle - 1)..Cycle
      BY <2>1, <2>2, <2>5 DEF Punctual
    <3>2. t = initTime + (t - initTime)
      BY <2>1
    <3>. QED  BY <2>4, <2>5, <3>1, <3>2
  <2>6. CASE MaxResets # 0
    <3>1. Cycle >= 2
      <4>1. Wbc_control_frequency \in Nat \ {0} /\ Mpc_control_frequency \in Nat \ {0}
        BY LeggedAssumption
      <4>2. 2 * Mpc_control_frequency <= Wbc_control_frequency
        BY <2>6
      <4>. QED  BY <4>1, <4>2 DEF Cycle
    <3>2. t - initTime \in (Cycle - 1)..Cycle \/ t <= Cycle
      BY <2>1, <2>2 DEF Punctual
    <3>3. CASE t <= initTime
      <4>1. t \in 0..Cycle
        BY <2>1, <2>2, <3>1, <3>2, <3>3
      <4>. QED  BY <1>3, <3>3, <4>1 DEF Planning!Next, Planning!Restart
    <3>4. CASE t > initTime
      <4>1. t - initTime \in 1..Cycle /\ t = initTime + (t - initTime)
        BY <2>1, <2>2, <3>1, <3>2, <3>4
      <4>. QED  BY <2>4, <2>6, <4>1
    <3>. QED  BY <2>1, <3>3, <3>4
  <2>. QED  BY <2>5, <2>6
<1>. QED  BY <1>1, <1>2, <1>3, PlanningSteps

\* The loop runs the solver when ReferencePlanning says it does and never otherwise,
\* whatever messages are lost and, if the solver does not run at every measurement,
\* whenever the user resets the simulation.
THEOREM ProgramImplementsPlanning ==
  ASSUME MaxRelaunches = 0, MaxFreeRun <= MaxTime,
         Mpc_control_frequency <= Wbc_control_frequency,
         MaxResets = 0 \/ 2 * Mpc_control_frequency <= Wbc_control_frequency
  PROVE  Spec => ImplementsPlanning
<1>1. Init => Planning!Init
  BY DEF Init
<1>2. LoopP!TypeOK /\ LoopP!RunInv /\ Joint /\ Punctual /\ [Next]_vars =>
        [planningVars' # planningVars => Planning!Next]_planningVars
  BY PlanningStepOfProgram DEF vars, planningVars
<1>3. Spec => []Punctual
  <2>1. CASE MaxResets = 0
    <3>1. LoopP!Timed /\ LoopP!WithinBounds /\ LoopP!Aged => Punctual
      BY DEF Punctual
    <3>. QED  BY <2>1, <3>1, LoopTimes, LoopBounds, LoopAges, PTL
  <2>2. CASE MaxResets # 0
    <3>1. LoopP!Timed /\ LoopP!WithinBounds => Punctual
      BY <2>2 DEF Punctual
    <3>. QED  BY <3>1, LoopTimes, LoopBounds, PTL
  <2>. QED  BY <2>1, <2>2
<1>. QED  BY LoopInvariants, JointInvariant, <1>1, <1>2, <1>3, PTL DEF Spec, ImplementsPlanning
---------------------------------------------------------------------------------
(***************************************************************************)
(* The policy and the observation.                                         *)
(***************************************************************************)

\* If a cycle of the solver fits into its horizon, no command is computed for a time past
\* the last one the solver has optimised over, whatever messages are lost and whenever the
\* simulation is reset; nor for one before the first, but in the first cycle after a reset.
THEOREM PolicyAlwaysCovers ==
  ASSUME MaxRelaunches = 0, Cycle <= timeHorizon + 1
  PROVE  Spec => []PolicyCoversObservation
<1>1. LoopP!TypeOK /\ LoopP!RunInv /\ LoopP!Forward /\ LoopP!FuturePolicyIsReplaced /\ Joint
        => PolicyCoversObservation
  <2>. SUFFICES ASSUME LoopP!TypeOK, LoopP!RunInv, LoopP!Forward, LoopP!FuturePolicyIsReplaced,
                       Joint, phase = "running", relaunches = 0
                PROVE  /\ policy = {initTime}
                       /\ observation <= initTime + timeHorizon
                       /\ observation < initTime =>
                            /\ resets > 0
                            /\ observation * Mpc_control_frequency < Wbc_control_frequency
    BY DEF PolicyCoversObservation
  <2>1. policy = {initTime}
    BY DEF Joint
  <2>2. initTime \in Nat /\ observation \in Nat /\ MpcCount_ \in Nat /\ resets \in Nat
    BY <2>1 DEF LoopP!TypeOK, LoopP!Slot, LoopP!Forward
  <2>3. observation <= initTime + timeHorizon
    <3>1. observation <= initTime + MpcCount_ /\ (MpcCount_ = 0 \/ MpcCount_ < Cycle)
      BY <2>1 DEF LoopP!RunInv, LoopP!Counted, LoopP!Cycle, Cycle
    <3>2. timeHorizon \in Nat /\ Cycle \in Int
      BY LeggedAssumption DEF Cycle
    <3>3. MpcCount_ <= timeHorizon
      BY <2>2, <3>1, <3>2
    <3>. QED  BY <2>2, <3>1, <3>2, <3>3
  <2>4. ASSUME observation < initTime
        PROVE  /\ resets > 0
               /\ observation * Mpc_control_frequency < Wbc_control_frequency
    <3>1. resets > 0
      BY <2>1, <2>2, <2>4 DEF LoopP!Forward
    <3>2. initTime > observation + relaunches
      BY <2>2, <2>4
    <3>. QED  BY <2>1, <3>1, <3>2 DEF LoopP!FuturePolicyIsReplaced
  <2>. QED  BY <2>1, <2>3, <2>4
<1>2. Spec => []LoopP!FuturePolicyIsReplaced
  BY ProgramRunsLoop, LoopP!FuturePolicyEnds, LoopAssumption, PTL DEF LoopP!ControlAssumption
<1>. QED  BY LoopInvariants, LoopTimes, JointInvariant, <1>1, <1>2, PTL
---------------------------------------------------------------------------------
(***************************************************************************)
(* The planning of the program and the one that was proved about are the   *)
(* same: its operations, one by one.                                       *)
(***************************************************************************)
LEMMA PlanningOperators ==
  /\ \A e, t : Planning!LowerBound(e, t) = PlanP!LowerBound(e, t)
  /\ \A ms, t : Planning!ModeAtTime(ms, t) = PlanP!ModeAtTime(ms, t)
  /\ \A s, t : Planning!FetchModeSchedule(s, t) = PlanP!FetchModeSchedule(s, t)
  /\ \A s, t : Planning!ApplyGaitCommand(s, t) = PlanP!ApplyGaitCommand(s, t)
  /\ \A ms : Planning!UpdateFails(ms) <=> PlanP!UpdateFails(ms)
  /\ \A ms : Planning!Update(ms) = PlanP!Update(ms)
<1>1. \A e, t : Planning!LowerBound(e, t) = PlanP!LowerBound(e, t)
  BY DEF Planning!LowerBound, PlanP!LowerBound
<1>2. \A ms, t : Planning!ModeAtTime(ms, t) = PlanP!ModeAtTime(ms, t)
  BY <1>1
  DEF Planning!ModeAtTime, PlanP!ModeAtTime
<1>3. \A s, start, final : Planning!Tile(s, start, final) = PlanP!Tile(s, start, final)
  BY DEF Planning!Tile, PlanP!Tile, Planning!Repetitions, PlanP!Repetitions, Planning!TileTime,
         PlanP!TileTime, Planning!TileMode, PlanP!TileMode, Planning!Duration, PlanP!Duration,
         Planning!Last, PlanP!Last, Planning!STANCE, PlanP!STANCE
<1>4. \A s, lower : Planning!DropPast(s, lower) = PlanP!DropPast(s, lower)
  BY <1>1
  DEF Planning!DropPast, PlanP!DropPast, Planning!STANCE, PlanP!STANCE
<1>5. \A s, t : Planning!FetchModeSchedule(s, t) = PlanP!FetchModeSchedule(s, t)
  BY <1>3, <1>4
  DEF Planning!FetchModeSchedule, PlanP!FetchModeSchedule, Planning!GetModeSchedule,
      PlanP!GetModeSchedule, Planning!Front, PlanP!Front, Planning!Last, PlanP!Last
<1>6. \A s, tpl, start, final :
        Planning!InsertModeSequenceTemplate(s, tpl, start, final)
          = PlanP!InsertModeSequenceTemplate(s, tpl, start, final)
  <2>1. \A s, tpl, start : Planning!CutAt(s, tpl, start) = PlanP!CutAt(s, tpl, start)
    BY <1>1 DEF Planning!CutAt, PlanP!CutAt
  <2>2. \A s, start : Planning!StandFrom(s, start) = PlanP!StandFrom(s, start)
    BY DEF Planning!StandFrom, PlanP!StandFrom, Planning!STANCE, PlanP!STANCE
  <2>3. Planning!STANCE = PlanP!STANCE /\ \A q : Planning!Last(q) = PlanP!Last(q)
    BY DEF Planning!STANCE, PlanP!STANCE, Planning!Last, PlanP!Last
  <2>. QED
    BY <1>3, <2>1, <2>2, <2>3
    DEF Planning!InsertModeSequenceTemplate, PlanP!InsertModeSequenceTemplate
<1>7. \A s, t : Planning!ApplyGaitCommand(s, t) = PlanP!ApplyGaitCommand(s, t)
  BY <1>6
  DEF Planning!ApplyGaitCommand, PlanP!ApplyGaitCommand, Planning!InsertStart,
      PlanP!InsertStart, Planning!InsertFinal, PlanP!InsertFinal
<1>8. /\ \A ms : Planning!NumPhases(ms) = PlanP!NumPhases(ms)
      /\ \A ms, leg : Planning!ContactPhases(ms, leg) = PlanP!ContactPhases(ms, leg)
  BY DEF Planning!NumPhases, PlanP!NumPhases, Planning!ContactPhases, PlanP!ContactPhases,
         Planning!modeNumber2StanceLeg, PlanP!modeNumber2StanceLeg, Planning!Modes, PlanP!Modes,
         Planning!Legs, PlanP!Legs
<1>9. /\ \A S : Planning!Max(S) = PlanP!Max(S)
      /\ \A S : Planning!Min(S) = PlanP!Min(S)
  BY DEF Planning!Max, PlanP!Max, Planning!Min, PlanP!Min
<1>10. \A ms, leg, p :
         /\ Planning!StartTimesIndex(ms, leg, p) = PlanP!StartTimesIndex(ms, leg, p)
         /\ Planning!FinalTimesIndex(ms, leg, p) = PlanP!FinalTimesIndex(ms, leg, p)
  BY <1>8, <1>9
  DEF Planning!StartTimesIndex, PlanP!StartTimesIndex, Planning!FinalTimesIndex,
      PlanP!FinalTimesIndex
<1>11. \A ms : Planning!UpdateFails(ms) <=> PlanP!UpdateFails(ms)
  <2>1. \A ms, leg, p : Planning!IndicesAreValid(ms, leg, p) <=> PlanP!IndicesAreValid(ms, leg, p)
    BY <1>8, <1>10 DEF Planning!IndicesAreValid, PlanP!IndicesAreValid
  <2>2. Planning!Legs = PlanP!Legs
    BY DEF Planning!Legs, PlanP!Legs
  <2>. QED  BY <1>8, <2>1, <2>2 DEF Planning!UpdateFails, PlanP!UpdateFails
<1>12. \A ms : Planning!Update(ms) = PlanP!Update(ms)
  <2>1. \A ms, leg, p : Planning!Trajectory(ms, leg, p) = PlanP!Trajectory(ms, leg, p)
    BY <1>8, <1>10
    DEF Planning!Trajectory, PlanP!Trajectory, Planning!StanceFoot, PlanP!StanceFoot
  <2>2. Planning!Legs = PlanP!Legs
    BY DEF Planning!Legs, PlanP!Legs
  <2>. QED  BY <1>8, <2>1, <2>2 DEF Planning!Update, PlanP!Update
<1>. QED  BY <1>1, <1>2, <1>5, <1>7, <1>11, <1>12

LEMMA PlanningActions ==
  /\ Planning!Init <=> PlanP!Init
  /\ \A tpl : Planning!mpcModeSequenceCallback(tpl) <=> PlanP!mpcModeSequenceCallback(tpl)
  /\ \A t : Planning!SolverRun(t) <=> PlanP!SolverRun(t)
  /\ Planning!Next => PlanP!Next
<1>1. Planning!Init <=> PlanP!Init
  BY DEF Planning!Init, PlanP!Init, Planning!StanceTemplate, PlanP!StanceTemplate,
         Planning!EmptySchedule, PlanP!EmptySchedule, Planning!STANCE, PlanP!STANCE,
         Planning!FLY, PlanP!FLY, Planning!Legs, PlanP!Legs
<1>2. \A tpl : Planning!mpcModeSequenceCallback(tpl) <=> PlanP!mpcModeSequenceCallback(tpl)
  BY DEF Planning!mpcModeSequenceCallback, PlanP!mpcModeSequenceCallback
<1>3. \A t : Planning!SolverRun(t) <=> PlanP!SolverRun(t)
  BY PlanningOperators DEF Planning!SolverRun, PlanP!SolverRun
<1>4. Planning!Next => PlanP!Next
  <2>1. Planning!Advance => PlanP!Advance
    BY <1>3 DEF Planning!Advance, PlanP!Advance
  <2>2. Planning!Restart => PlanP!Restart
    BY <1>3 DEF Planning!Restart, PlanP!Restart
  <2>. QED  BY <1>2, <2>1, <2>2 DEF Planning!Next, PlanP!Next
<1>. QED  BY <1>1, <1>2, <1>3, <1>4

LEMMA PlanningParameters ==
  ASSUME 2 * Mpc_control_frequency <= Wbc_control_frequency
  PROVE  PlanP!PlanningAssumption /\ PlanP!TransitionAssumption
<1>1. Cycle \in Nat /\ Cycle >= 2
  BY LeggedAssumption DEF Cycle
<1>2. /\ 0..MaxFreeRun \subseteq Nat /\ 0..Cycle \subseteq Nat
      /\ (IF MaxResets = 0 THEN Cycle - 1 ELSE 1)..Cycle \subseteq Nat \ {0}
  BY <1>1
<1>3. \A tpl : Planning!IsModeSequenceTemplate(tpl) => PlanP!IsModeSequenceTemplate(tpl)
  BY DEF Planning!IsModeSequenceTemplate, PlanP!IsModeSequenceTemplate, Planning!Modes,
         PlanP!Modes
<1>4. \A ms : /\ Planning!IsSchedule(ms) => PlanP!IsSchedule(ms)
              /\ Planning!StandsFirst(ms) => PlanP!StandsFirst(ms)
  BY DEF Planning!IsSchedule, PlanP!IsSchedule, Planning!Ordered, PlanP!Ordered,
         Planning!Modes, PlanP!Modes, Planning!StandsFirst, PlanP!StandsFirst,
         Planning!STANCE, PlanP!STANCE
<1>. QED
  BY LeggedAssumption, <1>2, <1>3, <1>4
  DEF PlanP!PlanningAssumption, PlanP!TransitionAssumption

\* The hypotheses under which the program runs the planning with runs apart.
Regular ==
  /\ MaxRelaunches = 0 /\ MaxFreeRun <= MaxTime
  /\ 2 * Mpc_control_frequency <= Wbc_control_frequency

LEMMA ProgramRunsPlanning ==
  ASSUME Regular
  PROVE  Spec => PlanP!Spec
<1>1. Mpc_control_frequency <= Wbc_control_frequency
  BY LeggedAssumption DEF Regular
<1>2. Spec => ImplementsPlanning
  BY <1>1, ProgramImplementsPlanning DEF Regular
<1>3. [planningVars' # planningVars => Planning!Next]_planningVars => [PlanP!Next]_PlanP!vars
  BY PlanningActions DEF PlanP!vars, planningVars
<1>4. Planning!Init => PlanP!Init
  BY PlanningActions
<1>. QED  BY <1>2, <1>3, <1>4, PTL DEF ImplementsPlanning, PlanP!Spec

\* What holds of the planning holds in the program.
LEMMA PlanningInvariants ==
  ASSUME Regular, phaseTransitionStanceTime > 0, PlanP!StandsAtFirst
  PROVE  Spec => [](PlanP!IInv /\ PlanP!CInv /\ PlanP!PlanLinked)
<1>1. PlanP!Spec => [](PlanP!IInv /\ PlanP!CInv /\ PlanP!PlanLinked)
  BY PlanP!PlanInvariant, PlanningParameters
  DEF Regular, PlanP!PlanningAssumption, PlanP!TransitionAssumption
<1>. QED  BY ProgramRunsPlanning, <1>1, PTL
---------------------------------------------------------------------------------
(***************************************************************************)
(* From command to command.                                                *)
(***************************************************************************)
LEMMA PlanningModes ==
  /\ Planning!STANCE = PlanP!STANCE
  /\ \A m1, m2 : PlanP!Follow(m1, m2) => Planning!Follow(m1, m2)
<1>1. \A tpl, j : Planning!TileMode(tpl, j) = PlanP!TileMode(tpl, j)
  BY DEF Planning!TileMode, PlanP!TileMode
<1>. QED
  BY <1>1 DEF Planning!STANCE, PlanP!STANCE, Planning!Follow, PlanP!Follow

\* A step that brings the observation of the next period keeps the modes planned for the
\* old and the new observation.
LEMMA ObservationStep ==
  ASSUME Regular, Cycle <= timeHorizon, LoopP!TypeOK, LoopP!RunInv, Joint,
         PlanP!IInv, PlanP!CInv,
         Next, phase = "running", phase' = "running", observation' = observation + 1
  PROVE  \A u \in {observation, observation + 1} :
           PlanP!ModeAtTime(modeSchedule', u) = PlanP!ModeAtTime(modeSchedule, u)
<1>1. observation \in Nat /\ MpcCount_ \in Nat /\ initTime \in Nat
  BY DEF LoopP!TypeOK, PlanP!IInv, PlanP!TypeOK
<1>2. CASE MeasurementCallback
  <2>1. PICK t : /\ observation' = t
                 /\ Planning!SolverRun(t) \/ UNCHANGED planningVars
    BY <1>2, MeasurementRuns
  <2>2. CASE UNCHANGED planningVars
    BY <2>2 DEF planningVars
  <2>3. CASE Planning!SolverRun(t)
    <3>1. solved /\ policy = {initTime}
      BY DEF Joint
    <3>2. observation <= initTime + MpcCount_ /\ (MpcCount_ = 0 \/ MpcCount_ < Cycle)
      BY <3>1 DEF LoopP!RunInv, LoopP!Counted, LoopP!Cycle, Cycle
    <3>3. timeHorizon \in Nat \ {0} /\ Cycle \in Int
      BY LeggedAssumption DEF Cycle
    <3>4. t \in Nat /\ t = observation + 1 /\ t <= initTime + timeHorizon
      BY <1>1, <2>1, <3>2, <3>3
    <3>5. t <= PlanP!finalTime /\ t - 1 = observation
      BY <1>1, <3>4 DEF PlanP!finalTime
    <3>6. PlanP!SolverRun(t)
      BY <2>3, PlanningActions
    <3>7. \A u \in {t - 1, t} :
            PlanP!ModeAtTime(modeSchedule', u) = PlanP!ModeAtTime(modeSchedule, u)
      BY <3>1, <3>4, <3>5, <3>6, PlanP!SolverRunKeepsPresent, PlanningParameters
      DEF Regular, PlanP!PlanningAssumption, PlanP!TransitionAssumption
    <3>. QED  BY <3>4, <3>5, <3>7
  <2>. QED  BY <2>1, <2>2, <2>3
<1>3. CASE LoopStep \/ Connect \/ GaitCallback \/ GoalCallback \/ UserStep
  BY <1>3
  DEF LoopStep, Connect, GaitCallback, GoalCallback, UserStep, planningVars,
      Planning!mpcModeSequenceCallback
<1>4. CASE StartControlLoop
  BY <1>4, StartRuns
<1>. QED  BY <1>2, <1>3, <1>4 DEF Next

\* From the command of one period to that of the next the joints keep the mode, take the
\* next phase of the gait or pass through stance: for every set of gaits, whatever the user
\* commands and when, whatever is lost, and across resets.  The hypotheses are those under
\* which gaits never switch abruptly, and a solver cycle that fits into the horizon.
THEOREM JointsFollowTheGait ==
  ASSUME Regular, Cycle <= timeHorizon, phaseTransitionStanceTime > 0, PlanP!StandsAtFirst
  PROVE  Spec => ModesFollowEachOther
<1>1. /\ LoopP!TypeOK /\ LoopP!RunInv /\ Joint
      /\ PlanP!IInv /\ PlanP!IInv' /\ PlanP!CInv /\ PlanP!PlanLinked /\ [Next]_vars
      => [phase = "running" /\ phase' = "running" /\ observation' = observation + 1 =>
            \/ plannedMode' = plannedMode
            \/ Planning!STANCE \in {plannedMode, plannedMode'}
            \/ Planning!Follow(plannedMode, plannedMode')]_vars
  <2>. SUFFICES ASSUME LoopP!TypeOK, LoopP!RunInv, Joint, PlanP!IInv, PlanP!IInv', PlanP!CInv,
                       PlanP!PlanLinked, Next,
                       phase = "running", phase' = "running", observation' = observation + 1
                PROVE  \/ plannedMode' = plannedMode
                       \/ Planning!STANCE \in {plannedMode, plannedMode'}
                       \/ Planning!Follow(plannedMode, plannedMode')
    OBVIOUS
  <2>. DEFINE m1 == PlanP!ModeAtTime(modeSchedule, observation)
              m2 == PlanP!ModeAtTime(modeSchedule, observation + 1)
  <2>1. plannedMode = m1
    BY PlanningOperators DEF plannedMode
  <2>2. plannedMode' = m2
    <3>1. plannedMode' = PlanP!ModeAtTime(modeSchedule', observation + 1)
      BY PlanningOperators DEF plannedMode
    <3>. QED  BY <3>1, ObservationStep
  <2>3. /\ PlanP!IsSchedule(modeSchedule) /\ PlanP!Linked(modeSchedule.modeSequence)
        /\ observation \in Int
    BY DEF Joint, PlanP!PlanLinked, PlanP!IInv, PlanP!TypeOK, LoopP!TypeOK
  <2>4. m2 = m1 \/ PlanP!MayFollow(m1, m2)
    BY <2>3, PlanP!NextInstant, PlanningParameters
    DEF Regular, PlanP!PlanningAssumption, PlanP!TransitionAssumption
  <2>. HIDE DEF m1, m2
  <2>. QED  BY <2>1, <2>2, <2>4, PlanningModes DEF PlanP!MayFollow
<1>2. MaxRelaunches = 0
  BY DEF Regular
<1>. QED
  BY LoopInvariants, JointInvariant, PlanningInvariants, <1>1, <1>2, PTL
  DEF Spec, ModesFollowEachOther
---------------------------------------------------------------------------------
\* What was shown of the planning on its own holds in the program, with the solver run by
\* the loop and the gaits coming from the user: nothing throws, the solver finds its
\* horizon planned and every foot in the air with a landing, what it has optimised over is
\* planned again, and the schedule does not grow, if a cycle fits into two horizons.
THEOREM ProgramPlansAhead ==
  ASSUME Regular
  PROVE  Spec => /\ []Planning!NeverFails /\ []Planning!HorizonIsPlanned
                 /\ Planning!CommittedHorizon
                 /\ (Cycle <= 2 * timeHorizon => Planning!PastIsForgotten)
<1>. USE PlanningParameters DEF Regular, PlanP!PlanningAssumption, PlanP!TransitionAssumption
<1>1. PlanP!OthersStandFirst
  BY DEF PlanP!OthersStandFirst
<1>2. PlanP!Spec => []Planning!NeverFails
  <2>1. PlanP!Spec => []PlanP!NeverFails
    BY <1>1, PlanP!PlanningNeverFails
  <2>2. PlanP!NeverFails => Planning!NeverFails
    BY DEF PlanP!NeverFails, Planning!NeverFails
  <2>. QED  BY <2>1, <2>2, PTL
<1>3. PlanP!Spec => []Planning!HorizonIsPlanned
  <2>1. PlanP!Spec => []PlanP!HorizonIsPlanned
    BY <1>1, PlanP!HorizonAlwaysPlanned
  <2>2. PlanP!HorizonIsPlanned => Planning!HorizonIsPlanned
    BY PlanningOperators
    DEF PlanP!HorizonIsPlanned, Planning!HorizonIsPlanned, PlanP!finalTime, Planning!finalTime,
        PlanP!FootAt, Planning!FootAt, PlanP!Last, Planning!Last, PlanP!Legs, Planning!Legs,
        PlanP!modeNumber2StanceLeg, Planning!modeNumber2StanceLeg, PlanP!Modes, Planning!Modes
  <2>. QED  BY <2>1, <2>2, PTL
<1>4. PlanP!Spec => Planning!CommittedHorizon
  <2>1. PlanP!Spec => PlanP!CommittedHorizon
    BY PlanP!CommitmentsAreKept
  <2>2. [solved => \A t \in (initTime' + 1)..PlanP!finalTime :
           PlanP!ModeAtTime(modeSchedule', t) = PlanP!ModeAtTime(modeSchedule, t)]_PlanP!vars
        => [solved => \A t \in (initTime' + 1)..Planning!finalTime :
              Planning!ModeAtTime(modeSchedule', t)
                = Planning!ModeAtTime(modeSchedule, t)]_Planning!vars
    BY PlanningOperators DEF PlanP!vars, Planning!vars, PlanP!finalTime, Planning!finalTime
  <2>. QED  BY <2>1, <2>2, PTL DEF PlanP!CommittedHorizon, Planning!CommittedHorizon
<1>5. Cycle <= 2 * timeHorizon => (PlanP!Spec => Planning!PastIsForgotten)
  <2>. SUFFICES ASSUME Cycle <= 2 * timeHorizon
                PROVE  PlanP!Spec => Planning!PastIsForgotten
    OBVIOUS
  <2>1. \A d \in (IF MaxResets = 0 THEN Cycle - 1 ELSE 1)..Cycle : d <= 2 * timeHorizon
    <3>1. Cycle \in Int /\ timeHorizon \in Int
      BY LeggedAssumption DEF Cycle
    <3>. QED  BY <3>1
  <2>2. PlanP!Spec => PlanP!PastIsForgotten
    BY <2>1, PlanP!ScheduleDoesNotGrow
  <2>3. \A S : PlanP!Cardinality(S) = Planning!Cardinality(S)
    BY DEF PlanP!Cardinality, Planning!Cardinality
  <2>4. [solved /\ initTime' # initTime =>
            PlanP!Cardinality({i \in DOMAIN gaitSchedule'.eventTimes :
                gaitSchedule'.eventTimes[i] < initTime' - timeHorizon}) <= 1]_PlanP!vars
        => [solved /\ initTime' # initTime =>
            Planning!Cardinality({i \in DOMAIN gaitSchedule'.eventTimes :
                gaitSchedule'.eventTimes[i] < initTime' - timeHorizon}) <= 1]_Planning!vars
    BY <2>3 DEF PlanP!vars, Planning!vars
  <2>. QED  BY <2>2, <2>4, PTL DEF PlanP!PastIsForgotten, Planning!PastIsForgotten
<1>. QED  BY ProgramRunsPlanning, <1>2, <1>3, <1>4, <1>5, PTL

\* No foot of the robot jumps in mid-air: in the program, too, every swing keeps its
\* take-off and landing from plan to plan, if a solver cycle and the longest swing of a
\* gait fit into the horizon one after the other.
THEOREM ProgramKeepsSwings ==
  ASSUME Regular, phaseTransitionStanceTime > 0, PlanP!StandsAtFirst, NEW w \in Nat,
         \A tpl \in Gaits \cup {defaultTemplate} : PlanP!SwingsRepeated(tpl, w),
         Cycle + w <= timeHorizon
  PROVE  Spec => Planning!SwingInProgressIsKept
<1>. USE PlanningParameters DEF Regular, PlanP!PlanningAssumption, PlanP!TransitionAssumption
<1>1. \A d \in (IF MaxResets = 0 THEN Cycle - 1 ELSE 1)..Cycle : d + w <= timeHorizon
  <2>1. Cycle \in Int /\ timeHorizon \in Int
    BY LeggedAssumption DEF Cycle
  <2>. QED  BY <2>1
<1>2. \A tpl \in PlanP!Templates : PlanP!SwingsRepeated(tpl, w)
  BY DEF PlanP!Templates
<1>3. PlanP!Spec => PlanP!SwingInProgressIsKept
  BY <1>1, <1>2, PlanP!SwingsAreKept
<1>4. \A f, leg, u : PlanP!FootAt(f, leg, u) = Planning!FootAt(f, leg, u)
  BY PlanningOperators DEF PlanP!FootAt, Planning!FootAt
<1>5. [solved /\ initTime' > initTime => \A leg \in PlanP!Legs :
          LET now == PlanP!FootAt(swings', leg, initTime' + 1)
          IN  now.swing => now = PlanP!FootAt(swings, leg, initTime' + 1)]_PlanP!vars
      => [solved /\ initTime' > initTime => \A leg \in Planning!Legs :
          LET now == Planning!FootAt(swings', leg, initTime' + 1)
          IN  now.swing => now = Planning!FootAt(swings, leg, initTime' + 1)]_Planning!vars
  BY <1>4 DEF PlanP!vars, Planning!vars, PlanP!Legs, Planning!Legs
<1>. QED
  BY ProgramRunsPlanning, <1>3, <1>5, PTL
  DEF PlanP!SwingInProgressIsKept, Planning!SwingInProgressIsKept
=================================================================================
