------------------------------ MODULE LeggedControl ------------------------------
(***************************************************************************)
(* The whole program: simulator, controller and user_command node.         *)
(* ControlLoop, UserCommand and ReferencePlanning describe it from three   *)
(* sides; here they share their variables and take their common steps      *)
(* together.  A measurement that is due starts a solver run, which fetches *)
(* the gait schedule and the target; the user's gaits and goals arrive     *)
(* between measurements; the policy that drives the joints stands for the  *)
(* mode schedule of the run it came from.                                  *)
(***************************************************************************)
EXTENDS Integers, FiniteSets

CONSTANTS
  Wbc_control_frequency, Mpc_control_frequency, StateEstimate,
  Gaits, initModeSchedule, defaultTemplate, timeHorizon, phaseTransitionStanceTime,
  MaxFreeRun, MaxTime, MaxGoals, MaxLosses, MaxResets, MaxRelaunches

VARIABLES
  \* of ControlLoop
  simulatorUp, time, Start_simulate_, Start_control_, command, spun,
  phase, observation, MpcCount_, policy, request, response,
  joint_control_data, simulator_state_data, simulator_sensor_data,
  losses, resets, relaunches,
  \* of UserCommand
  userUp, latestObservation_, commandLine, mpc_observation, mpc_target, mpc_mode_schedule,
  targetBuffer, targetTrajectories, published, goals, goalsBefore,
  \* of ReferencePlanning
  gaitSchedule, receivedGait, gaitUpdated, modeSchedule, swings, solved, initTime, failed

\* Messages from one solver run to the next.
Cycle == Wbc_control_frequency \div Mpc_control_frequency

Loop == INSTANCE ControlLoop

\* A reset of the simulation changes nothing of the user's node and its topics;
\* UserCommand only remembers it.
User == INSTANCE UserCommand WITH publishedBefore <- 0

\* The loop runs the solver every Cycle periods, one less after the start; a reset
\* of the simulation between two runs makes that anything.
Planning == INSTANCE ReferencePlanning
              WITH ExternalSchedules <- {},
                   StartTimes <- 0..MaxFreeRun,
                   Periods <- (IF MaxResets = 0 THEN Cycle - 1 ELSE 1)..Cycle,
                   ResetTimes <- 0..Cycle

ASSUME LeggedAssumption ==
  /\ Wbc_control_frequency \in Nat \ {0} /\ Mpc_control_frequency \in Nat \ {0}
  /\ StateEstimate \in BOOLEAN
  /\ Gaits # {} /\ \A tpl \in Gaits \cup {defaultTemplate} : Planning!IsModeSequenceTemplate(tpl)
  /\ Planning!IsSchedule(initModeSchedule) /\ Planning!StandsFirst(initModeSchedule)
  /\ timeHorizon \in Nat \ {0} /\ phaseTransitionStanceTime \in Nat
  /\ MaxFreeRun \in Nat /\ MaxTime \in Nat /\ MaxGoals \in Nat
  /\ MaxLosses \in Nat /\ MaxResets \in Nat /\ MaxRelaunches \in Nat

loopVars == <<simulatorUp, time, Start_simulate_, Start_control_, command, spun, phase,
              observation, MpcCount_, policy, request, response, joint_control_data,
              simulator_state_data, simulator_sensor_data, losses, resets, relaunches>>
planningVars == <<gaitSchedule, receivedGait, gaitUpdated, modeSchedule, swings, solved,
                  initTime, failed>>
userVars == <<userUp, latestObservation_, commandLine, mpc_observation, mpc_target,
              mpc_mode_schedule, targetBuffer, targetTrajectories, published, goals,
              goalsBefore>>
vars == <<loopVars, userVars, planningVars>>

Init == Loop!Init /\ User!Init /\ Planning!Init

---------------------------------------------------------------------------------
\* Steps that concern only the loop.
LoopStep ==
  /\ \/ Loop!SimulatorNext
     \/ Loop!ResetSimulation
     \/ Loop!LoseMessage
  /\ UNCHANGED <<userVars, planningVars>>

Connect ==
  /\ Loop!RequestStart \/ Loop!ServiceNotAvailable
  /\ User!Connect
  /\ UNCHANGED planningVars

\* simulatorStartControlLoop with the state in the answer.
StartControlLoop ==
  /\ Loop!StartControlLoop
  /\ \E t \in response : User!StartControlLoop(t) /\ Planning!SolverRun(t)

\* Slip: a solver that runs in a thread of its own may miss its turn.
SolveSometimes(t, due) ==
  \/ due /\ Planning!SolverRun(t)
  \/ UNCHANGED planningVars

\* advanceMpc, if it is due.
Solve(t, due) == IF due THEN Planning!SolverRun(t) ELSE UNCHANGED planningVars

\* The callback that takes the measurement t.
Callback(t) ==
  \/ t \in simulator_state_data /\ Loop!simulatorStateCallback
  \/ t \in simulator_sensor_data /\ Loop!simulatorSensorCallback

\* Slip: the target buffer is read at the start only.
MeasurementOldTarget(t) ==
  /\ Callback(t)
  /\ User!Measurement(t, FALSE)
  /\ Solve(t, Loop!MpcIsDue(MpcCount_ + 1))

\* The whole of a measurement callback.
Measurement(t) ==
  /\ Callback(t)
  /\ User!Measurement(t, Loop!MpcIsDue(MpcCount_ + 1))
  /\ Solve(t, Loop!MpcIsDue(MpcCount_ + 1))

MeasurementCallback ==
  \E t \in simulator_state_data \cup simulator_sensor_data : Measurement(t)

\* The other callbacks of the controller's node.
GaitCallback ==
  /\ User!takeGait
  /\ \E tpl \in mpc_mode_schedule : Planning!mpcModeSequenceCallback(tpl)
  /\ UNCHANGED loopVars

GoalCallback == User!targetTrajectoriesCallback /\ UNCHANGED <<loopVars, planningVars>>

\* The prompt.
UserStep == User!UserNext /\ UNCHANGED <<loopVars, planningVars>>

Next ==
  \/ LoopStep \/ Connect \/ StartControlLoop \/ MeasurementCallback
  \/ GaitCallback \/ GoalCallback \/ UserStep

Spec == Init /\ [][Next]_vars

\* Solver, gait schedule and target are always ready, so the loop is as fair as in
\* ControlLoop; and the controller's executor runs the other callbacks.
Fairness == Loop!Fairness /\ WF_vars(GaitCallback) /\ WF_vars(GoalCallback)

FairSpec == Spec /\ Fairness

---------------------------------------------------------------------------------
(***************************************************************************)
(* Properties.                                                             *)
(***************************************************************************)

\* The loop runs the planning as ReferencePlanning assumes: at the times it assumes,
\* and only then; so what is shown of the planning holds in the program.
ImplementsPlanning ==
  Planning!Init /\ [][planningVars' # planningVars => Planning!Next]_planningVars

\* A command is computed for a time the solver has optimised over.  Past the last such
\* time the policy is never asked, not even when the clock has gone back; before the first
\* it is asked only after a reset of the simulation, and then only in the first solver
\* cycle of the new time.
PolicyCoversObservation ==
  phase = "running" /\ relaunches = 0 =>
    /\ policy = {initTime}
    /\ observation <= initTime + timeHorizon
    /\ observation < initTime =>
         resets > 0 /\ observation * Mpc_control_frequency < Wbc_control_frequency

\* The mode the whole-body controller is given for the latest measurement.
plannedMode == Planning!ModeAtTime(modeSchedule, observation)

\* From one command to the next the joints are asked to keep the mode, to take the next
\* phase of the gait, or to pass through stance, whatever the user commands and when.
ModesFollowEachOther ==
  [][phase = "running" /\ phase' = "running" /\ observation' = observation + 1 =>
       \/ plannedMode' = plannedMode
       \/ Planning!STANCE \in {plannedMode, plannedMode'}
       \/ Planning!Follow(plannedMode, plannedMode')]_vars

\* Enough measurements are left for another solver run.
Early == phase = "running" /\ observation + Cycle <= MaxTime

\* A gait that has come to the receiver is adopted, unless the user commands another.
GaitIsAdopted ==
  \A tpl \in Gaits :
    (Early /\ gaitUpdated /\ receivedGait = tpl) ~>
      (gaitSchedule.template = tpl \/ receivedGait # tpl \/ losses > 0)

\* A goal that has come to the reference manager is tracked, unless a later one is.
GoalIsTracked ==
  \A n \in 1..MaxGoals :
    (Early /\ \E target \in targetBuffer : target.goal = n) ~> (User!tracked >= n \/ losses > 0)
================================================================================
