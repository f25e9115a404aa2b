------------------------------ MODULE ControlLoop ------------------------------
(***************************************************************************)
(* The closed loop of two processes: MPC_WBC_ROS_Interface (motion_control)*)
(* and MujocoSimulation (mujoco_simulator).  They are coupled by one       *)
(* service and two topics of depth one, and by nothing else: the simulator *)
(* measures and steps only when a command arrives, the controller computes *)
(* only when a measurement arrives.                                        *)
(*                                                                         *)
(* Time counts control periods, the 1/wbc_control_frequency seconds of     *)
(* MujocoSimulation::run.  A measurement is the time it was taken at, and  *)
(* a command is the time of the measurement it was computed from: what the *)
(* joints do does not matter here.  A topic is the set of the messages the *)
(* reader has not taken: publishing replaces it, as KEEP_LAST 1 does.      *)
(***************************************************************************)
EXTENDS Integers, FiniteSets

CONSTANTS
  Wbc_control_frequency, Mpc_control_frequency,
  StateEstimate,   \* measure with the IMU and the filter, or take the true state
  MaxFreeRun,      \* bound on the time before control starts
  MaxTime,         \* bound on the simulation time
  MaxLosses,       \* bound on the messages that are lost
  MaxResets,       \* bound on the resets by the user
  MaxRelaunches    \* bound on the times the controller dies and is launched again

ASSUME ControlAssumption ==
  /\ Wbc_control_frequency \in Nat \ {0} /\ Mpc_control_frequency \in Nat \ {0}
  /\ StateEstimate \in BOOLEAN
  /\ MaxFreeRun \in Nat /\ MaxTime \in Nat
  /\ MaxLosses \in Nat /\ MaxResets \in Nat /\ MaxRelaunches \in Nat

VARIABLES
  \* the simulator
  simulatorUp,       \* the process runs and offers start_control
  time,              \* data_->time
  Start_simulate_, Start_control_,
  command,           \* Joint_position_, Joint_velocity_, Joint_torque_, once set
  spun,              \* the callbacks this round of spin_some has executed
  \* the controller
  phase,             \* where launchNodes is
  observation,       \* currentObservation_.time
  MpcCount_,
  policy,            \* initial time of the active policy, once there is one
  \* between them
  request,           \* of start_control: from the live controller, or from a dead one
  response,
  joint_control_data, simulator_state_data, simulator_sensor_data,
  \* the environment
  losses, resets, relaunches

simulator  == <<simulatorUp, time, Start_simulate_, Start_control_, command, spun>>
controller == <<phase, observation, MpcCount_, policy>>
service    == <<request, response>>
topics     == <<joint_control_data, simulator_state_data, simulator_sensor_data>>
environment == <<losses, resets, relaunches>>
vars == <<simulator, controller, service, topics, environment>>

Init ==
  /\ simulatorUp = FALSE /\ time = 0
  /\ Start_simulate_ = TRUE /\ Start_control_ = FALSE
  /\ command = {} /\ spun = {}
  /\ phase = "connecting" /\ observation = 0 /\ MpcCount_ = 0 /\ policy = {}
  /\ request = {} /\ response = {}
  /\ joint_control_data = {} /\ simulator_state_data = {} /\ simulator_sensor_data = {}
  /\ losses = 0 /\ resets = 0 /\ relaunches = 0

---------------------------------------------------------------------------------
(***************************************************************************)
(* The simulator: the loop of run, one thread.                             *)
(***************************************************************************)
StartSimulator ==
  /\ ~ simulatorUp
  /\ simulatorUp' = TRUE
  /\ UNCHANGED <<time, Start_simulate_, Start_control_, command, spun,
                 controller, service, topics, environment>>

\* Slip: the flag is not cleared before the period is simulated.
ControlPeriodFlagKept ==
  /\ simulatorUp /\ Start_control_ /\ time < MaxTime
  /\ time' = time + 1
  /\ spun' = {}
  /\ UNCHANGED <<simulatorUp, Start_simulate_, Start_control_, command, controller, service,
                 topics, environment>>

\* One round of the loop that applies the command for one period.
ControlPeriod ==
  /\ simulatorUp /\ Start_control_ /\ time < MaxTime
  /\ Start_control_' = FALSE
  /\ time' = time + 1
  /\ spun' = {}
  /\ UNCHANGED <<simulatorUp, Start_simulate_, command, controller, service, topics,
                 environment>>

\* Slip: the loop goes on with the old command when there is no new one.
FreePeriodAlways ==
  /\ simulatorUp /\ ~ Start_control_ /\ time < MaxFreeRun
  /\ time' = time + 1
  /\ spun' = {}
  /\ UNCHANGED <<simulatorUp, Start_simulate_, Start_control_, command, controller,
                 service, topics, environment>>

\* One round without a command, before control has started.
FreePeriod ==
  /\ simulatorUp /\ ~ Start_control_ /\ Start_simulate_ /\ time < MaxFreeRun
  /\ time' = time + 1
  /\ spun' = {}
  /\ UNCHANGED <<simulatorUp, Start_simulate_, Start_control_, command, controller,
                 service, topics, environment>>

\* One round that has nothing to simulate.
IdleRound ==
  /\ simulatorUp /\ ~ Start_control_ /\ ~ Start_simulate_ /\ spun # {}
  /\ spun' = {}
  /\ UNCHANGED <<simulatorUp, time, Start_simulate_, Start_control_, command, controller,
                 service, topics, environment>>

\* Slips: spin_some until nothing is left to do; measure on both topics; measure only
\* while control has not started.
ControlCallback(once, both, always) ==
  /\ simulatorUp /\ (once => "control" \notin spun)
  /\ joint_control_data # {}
  /\ command' = joint_control_data
  /\ joint_control_data' = {}
  /\ Start_simulate_' = FALSE /\ Start_control_' = TRUE
  /\ simulator_state_data' =
       IF both \/ (~ StateEstimate /\ (always \/ time = 0)) THEN {time} ELSE {}
  /\ simulator_sensor_data' =
       IF both \/ (StateEstimate /\ (always \/ time = 0)) THEN {time} ELSE {}
  /\ spun' = spun \cup {"control"}
  /\ UNCHANGED <<simulatorUp, time, controller, service, environment>>

control_callback_all   == ControlCallback(FALSE, FALSE, TRUE)
control_callback_both  == ControlCallback(TRUE, TRUE, TRUE)
control_callback_quiet == ControlCallback(TRUE, FALSE, FALSE)

\* control_callback.  spin_some takes at most one message of a topic per round.
control_callback ==
  /\ simulatorUp /\ "control" \notin spun
  /\ joint_control_data # {}
  /\ command' = joint_control_data
  /\ joint_control_data' = {}
  /\ Start_simulate_' = FALSE /\ Start_control_' = TRUE
  /\ simulator_state_data' = IF StateEstimate THEN {} ELSE {time}
  /\ simulator_sensor_data' = IF StateEstimate THEN {time} ELSE {}
  /\ spun' = spun \cup {"control"}
  /\ UNCHANGED <<simulatorUp, time, controller, service, environment>>

\* Slips: the simulation is not paused; the measurement is published as well.
start_control_service_running ==
  /\ simulatorUp /\ "service" \notin spun
  /\ \E client \in request :
       /\ request' = request \ {client}
       /\ response' = IF client = "live" THEN {time} ELSE response
  /\ spun' = spun \cup {"service"}
  /\ UNCHANGED <<simulatorUp, time, Start_simulate_, Start_control_, command, controller,
                 topics, environment>>

start_control_service_published ==
  /\ simulatorUp /\ "service" \notin spun
  /\ \E client \in request :
       /\ request' = request \ {client}
       /\ response' = IF client = "live" THEN {time} ELSE response
  /\ Start_simulate_' = FALSE
  /\ spun' = spun \cup {"service"}
  /\ simulator_sensor_data' = {time}
  /\ UNCHANGED <<simulatorUp, time, Start_control_, command, controller,
                 joint_control_data, simulator_state_data, environment>>

start_control_service ==
  /\ simulatorUp /\ "service" \notin spun
  /\ \E client \in request :
       /\ request' = request \ {client}
       /\ response' = IF client = "live" THEN {time} ELSE response
  /\ Start_simulate_' = FALSE
  /\ spun' = spun \cup {"service"}
  /\ UNCHANGED <<simulatorUp, time, Start_control_, command, controller, topics, environment>>

\* keyboard: the user presses backspace.
ResetSimulation ==
  /\ simulatorUp /\ time > 0 /\ resets < MaxResets
  /\ time' = 0
  /\ resets' = resets + 1
  /\ UNCHANGED <<simulatorUp, Start_simulate_, Start_control_, command, spun, controller,
                 service, topics, losses, relaunches>>

---------------------------------------------------------------------------------
(***************************************************************************)
(* The controller: launchNodes, one thread.                                *)
(***************************************************************************)

\* wait_for_service finds the service; the request is sent.
RequestStart ==
  /\ phase = "connecting" /\ simulatorUp
  /\ phase' = "waiting"
  /\ request' = request \cup {"live"}
  /\ UNCHANGED <<simulator, observation, MpcCount_, policy, response, topics, environment>>

\* No service within ten seconds: simulatorStartControlLoop returns, and launchNodes
\* goes on to spin.
ServiceNotAvailable ==
  /\ phase = "connecting" /\ ~ simulatorUp
  /\ phase' = "unstarted"
  /\ UNCHANGED <<simulator, observation, MpcCount_, policy, service, topics, environment>>

\* The rest of simulatorStartControlLoop: the first policy and the first command.
StartControlLoop ==
  /\ phase = "waiting"
  /\ \E t \in response :
       /\ observation' = t
       /\ policy' = {t}
       /\ joint_control_data' = {t}
  /\ response' = {}
  /\ phase' = "running"
  /\ UNCHANGED <<simulator, MpcCount_, request, simulator_state_data, simulator_sensor_data,
                 environment>>

\* Slip: one message too many.
MpcIsLate(count) == count > Wbc_control_frequency \div Mpc_control_frequency

\* MpcCount_ state messages have come in since the policy was computed.
MpcIsDue(count) == count >= Wbc_control_frequency \div Mpc_control_frequency

\* Slips: the counter is not reset; the solver's rate is kept in time, not in messages;
\* a command that has not been taken stays in the queue.
ControlStepNoReset(t) ==
  /\ observation' = t
  /\ MpcCount_' = MpcCount_ + 1
  /\ policy' = IF MpcIsDue(MpcCount_ + 1) THEN {t} ELSE policy
  /\ phase' = IF policy' = {} THEN "failed" ELSE phase
  /\ joint_control_data' = IF policy' = {} THEN joint_control_data ELSE {t}

ControlStepTimed(t) ==
  /\ observation' = t
  /\ MpcCount_' = 0
  /\ policy' = IF \A since \in policy : MpcIsDue(t - since) THEN {t} ELSE policy
  /\ phase' = phase
  /\ joint_control_data' = {t}

ControlStepQueued(t) ==
  /\ observation' = t
  /\ MpcCount_' = IF MpcIsDue(MpcCount_ + 1) THEN 0 ELSE MpcCount_ + 1
  /\ policy' = IF MpcIsDue(MpcCount_ + 1) THEN {t} ELSE policy
  /\ phase' = IF policy' = {} THEN "failed" ELSE phase
  /\ joint_control_data' = joint_control_data \cup IF policy' = {} THEN {} ELSE {t}

\* What both callbacks do with a measurement of time t.  evaluatePolicy has nothing
\* to evaluate before there is a policy.
ControlStep(t) ==
  /\ observation' = t
  /\ MpcCount_' = IF MpcIsDue(MpcCount_ + 1) THEN 0 ELSE MpcCount_ + 1
  /\ policy' = IF MpcIsDue(MpcCount_ + 1) THEN {t} ELSE policy
  /\ phase' = IF policy' = {} THEN "failed" ELSE phase
  /\ joint_control_data' = IF policy' = {} THEN joint_control_data ELSE {t}

Spinning == phase \in {"waiting", "running", "unstarted"}

simulatorStateCallback ==
  /\ Spinning
  /\ \E t \in simulator_state_data : ControlStep(t)
  /\ simulator_state_data' = {}
  /\ UNCHANGED <<simulator, service, simulator_sensor_data, environment>>

simulatorSensorCallback ==
  /\ Spinning
  /\ \E t \in simulator_sensor_data : ControlStep(t)
  /\ simulator_sensor_data' = {}
  /\ UNCHANGED <<simulator, service, simulator_state_data, environment>>

\* The controller dies and is launched again.  What it had published is still under
\* way, what was sent to it is gone, and its request is served for nobody.
Relaunch ==
  /\ relaunches < MaxRelaunches
  /\ phase' = "connecting" /\ observation' = 0 /\ MpcCount_' = 0 /\ policy' = {}
  /\ request' = {"dead" : client \in request}
  /\ response' = {} /\ simulator_state_data' = {} /\ simulator_sensor_data' = {}
  /\ relaunches' = relaunches + 1
  /\ UNCHANGED <<simulator, joint_control_data, losses, resets>>

---------------------------------------------------------------------------------
\* A message that finds no reader, because the two have not discovered each other
\* yet, or that the middleware drops.
LoseMessage ==
  /\ losses < MaxLosses
  /\ \/ /\ joint_control_data # {} /\ joint_control_data' = {}
        /\ UNCHANGED <<simulator_state_data, simulator_sensor_data>>
     \/ /\ simulator_state_data \cup simulator_sensor_data # {}
        /\ simulator_state_data' = {} /\ simulator_sensor_data' = {}
        /\ UNCHANGED joint_control_data
  /\ losses' = losses + 1
  /\ UNCHANGED <<simulator, controller, service, resets, relaunches>>

SimulatorNext ==
  \/ StartSimulator \/ ControlPeriod \/ FreePeriod \/ IdleRound
  \/ control_callback \/ start_control_service

ControllerNext ==
  \/ RequestStart \/ ServiceNotAvailable \/ StartControlLoop
  \/ simulatorStateCallback \/ simulatorSensorCallback

Next == SimulatorNext \/ ControllerNext \/ ResetSimulation \/ LoseMessage \/ Relaunch

Spec == Init /\ [][Next]_vars

(***************************************************************************)
(* Both processes keep running.  The simulator's loop steps or spins at    *)
(* every round, and spin_some executes what is ready; nothing obliges the  *)
(* user to reset or the middleware to lose a message.                      *)
(***************************************************************************)
Fairness ==
  /\ WF_vars(ControlPeriod \/ FreePeriod \/ IdleRound)
  /\ WF_vars(control_callback) /\ WF_vars(start_control_service)
  /\ WF_vars(StartControlLoop)
  /\ WF_vars(simulatorStateCallback) /\ WF_vars(simulatorSensorCallback)

FairSpec == Spec /\ Fairness
---------------------------------------------------------------------------------
(***************************************************************************)
(* Properties.                                                             *)
(***************************************************************************)

\* At most one message.
Slot(messages) == messages \subseteq Nat /\ \A s, t \in messages : s = t

TypeOK ==
  /\ simulatorUp \in BOOLEAN /\ Start_simulate_ \in BOOLEAN /\ Start_control_ \in BOOLEAN
  /\ time \in Nat /\ observation \in Nat /\ MpcCount_ \in Nat
  /\ spun \subseteq {"control", "service"}
  /\ phase \in {"connecting", "waiting", "running", "unstarted", "failed"}
  /\ request \subseteq {"live", "dead"}
  /\ Slot(command) /\ Slot(policy) /\ Slot(response)
  /\ Slot(joint_control_data) /\ Slot(simulator_state_data) /\ Slot(simulator_sensor_data)

MessagesInFlight ==
  Cardinality(request \cap {"live"}) + Cardinality(response) + Cardinality(joint_control_data)
    + Cardinality(simulator_state_data) + Cardinality(simulator_sensor_data)

\* The loop is in lock-step: one message is under way between the two processes,
\* so a topic of depth one never drops one.  Every relaunch of the controller may
\* leave one more.
LockStep == MessagesInFlight <= 1 + relaunches

\* A command that has been received is applied for a whole period before the next
\* one replaces it, whatever else spin_some executes.
NoCommandSkipped == [][control_callback => ~ Start_control_]_vars

\* The command of a period was computed from a measurement at most one period old:
\* the first from the state of the paused simulation, every other from the state
\* at the start of the period before.
LagAtMostOnePeriod ==
  [][ControlPeriod => \A measured \in command : time - measured <= 1 + relaunches]_vars

\* The filter integrates over the time since its previous measurement: never over a
\* negative time, never over a gap, and over zero only at the start.
NoMeasurementSkipped ==
  [][phase = "running" /\ observation' # observation => observation' = observation + 1]_vars

\* The policy that is evaluated is as fresh as mpc_control_frequency asks for.
MpcKeepsItsRate ==
  phase = "running" =>
    \A since \in policy :
      (observation - since) * Mpc_control_frequency < Wbc_control_frequency

\* Successive solver runs are one period short of a full cycle apart after the
\* start, where no period separates the first two measurements, and a full cycle
\* apart from then on: the Periods of ReferencePlanning.
SolverRunsAreSpaced ==
  [][policy # {} /\ policy' # policy =>
       \A old \in policy : \A new \in policy' :
          (new - old) - Wbc_control_frequency \div Mpc_control_frequency \in {-1, 0}]_vars

\* Nothing is evaluated before there is a policy.
PolicyBeforeCommand == phase # "failed"

\* A started loop runs for ever, unless a message is lost.
StartedLoopRuns ==
  (phase = "waiting") ~> (losses > 0 \/ (phase = "running" /\ time = MaxTime))

\* After a reset the policy is from the future, and it is evaluated at times long
\* before it starts.  That ends within one cycle of the solver, however often the
\* user resets.  (After a relaunch an older measurement can follow a newer one.)
FuturePolicyIsReplaced ==
  phase = "running" =>
    \A since \in policy :
      since > observation + relaunches => observation * Mpc_control_frequency < Wbc_control_frequency

\* Nothing times out or is sent again: when the last message is lost, the
\* simulation stands still until the controller is launched again.
Stalled ==
  /\ phase = "running" /\ ~ Start_simulate_ /\ ~ Start_control_
  /\ MessagesInFlight = 0

StallIsForEver ==
  [][Stalled /\ relaunches' = relaunches => Stalled' /\ time' <= time]_vars

---------------------------------------------------------------------------------
(***************************************************************************)
(* The loop is a sampled-data control loop with a delay of one period.     *)
(***************************************************************************)

\* The measurement behind the command of the next period, wherever it is now.
NextSample ==
  LET newest(messages) == CHOOSE t \in messages : TRUE
      under == joint_control_data \cup simulator_state_data \cup simulator_sensor_data
  IN  IF Start_simulate_ THEN 0
      ELSE IF Start_control_ THEN newest(command)
      ELSE IF response # {} THEN newest(response)
      ELSE IF under # {} THEN newest(under)
      ELSE IF command = {} THEN time
      ELSE time - 1

Sampled == INSTANCE SampledControl
             WITH started <- ~ Start_simulate_, sample <- NextSample

\* One service, two topics and three flags in two processes amount to that loop.
ImplementsSampledControl == Sampled!SSpec
================================================================================
