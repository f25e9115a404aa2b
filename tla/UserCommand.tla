------------------------------- MODULE UserCommand -------------------------------
(***************************************************************************)
(* The user's goals and gaits on their way into the controller: the        *)
(* user_command node with its prompt, three topics of depth one, and the   *)
(* target trajectories of the controller's reference manager.              *)
(*                                                                         *)
(* A goal is a displacement, so it means nothing without the observation   *)
(* the node adds it to; the node receives observations only while it       *)
(* executes a goal command.  What matters of a target here is that         *)
(* observation: which one it was, its time, and whether its base pose was  *)
(* measured.  An observation is counted when it is published.              *)
(*                                                                         *)
(* The controller is reduced to what touches observations and targets; a   *)
(* measurement may or may not start a solver run.                          *)
(***************************************************************************)
EXTENDS Integers, FiniteSets

CONSTANTS
  Gaits,           \* the names in gait.info
  MaxGoals,        \* bound on the goals the user gives
  MaxTime,         \* bound on the simulation time
  MaxResets,       \* bound on the resets of the simulation
  MaxRelaunches    \* bound on the times the controller dies and is launched again

ASSUME UserAssumption ==
  MaxGoals \in Nat /\ MaxTime \in Nat /\ MaxResets \in Nat /\ MaxRelaunches \in Nat

VARIABLES
  \* the user_command node
  userUp,               \* the process runs
  latestObservation_,
  commandLine,          \* the goal command being executed: {what was published before}
  \* the topics
  mpc_observation, mpc_target, mpc_mode_schedule,
  \* the controller
  phase, observation,   \* as in ControlLoop
  targetBuffer,         \* set, and not yet taken by a solver run
  targetTrajectories,   \* what the solver tracks, once it has run
  \* the environment
  time, published, goals, resets, relaunches,
  goalsBefore,          \* goals given before the latest launch of the controller
  publishedBefore       \* observations published before the latest reset

user       == <<userUp, latestObservation_, commandLine, goals>>
controller == <<phase, observation, targetBuffer, targetTrajectories>>
faults     == <<resets, relaunches, goalsBefore, publishedBefore>>
vars == <<user, mpc_observation, mpc_target, mpc_mode_schedule, controller, time, published,
          faults>>

\* The observation the node is constructed with, all zeros.
ZeroObservation == [time |-> 0, count |-> 0, measured |-> FALSE]

Init ==
  /\ userUp = TRUE /\ latestObservation_ = ZeroObservation /\ commandLine = {}
  /\ mpc_observation = {} /\ mpc_target = {} /\ mpc_mode_schedule = {}
  /\ phase = "connecting" /\ observation = 0
  /\ targetBuffer = {} /\ targetTrajectories = {}
  /\ time = 0 /\ published = 0 /\ goals = 0 /\ resets = 0 /\ relaunches = 0 /\ goalsBefore = 0
  /\ publishedBefore = 0

---------------------------------------------------------------------------------
(***************************************************************************)
(* The user_command node, one thread: the prompt and nothing else.         *)
(***************************************************************************)

\* What latestObservation_ may be after spin_some: the one message that waits, if any.
\* Slip: no spin_some, as in a node that has a thread to spin it.
SpinNothing == {latestObservation_}

SpinSome == IF mpc_observation = {} THEN {latestObservation_} ELSE mpc_observation

\* The user enters goal:x y z yaw; main spins once before it calls the publisher.
EnterGoal ==
  /\ userUp /\ commandLine = {} /\ goals < MaxGoals
  /\ latestObservation_' \in SpinSome
  /\ mpc_observation' = {}
  /\ commandLine' = {published}
  /\ UNCHANGED <<userUp, goals, mpc_target, mpc_mode_schedule, controller, time, published,
                 faults>>

\* stof throws when a word is no number, and nothing catches it.
RejectNumber ==
  /\ userUp /\ commandLine # {}
  /\ userUp' = FALSE
  /\ commandLine' = {}
  /\ UNCHANGED <<latestObservation_, goals, mpc_observation, mpc_target, mpc_mode_schedule,
                 controller, time, published, faults>>

\* Slip: the target starts at the user's time, a tick ahead of the observation's.
TargetFromNow(n, obs) ==
  [goal |-> n, start |-> time + 1, count |-> obs.count, measured |-> obs.measured]

\* commandLineToTargetTrajectories: from the observed pose at the observed time.
Target(n, obs) ==
  [goal |-> n, start |-> obs.time, count |-> obs.count, measured |-> obs.measured]

\* Slip: a topic of greater depth, in which goals queue.
publishKeyboardCommandQueued ==
  /\ userUp /\ commandLine # {}
  /\ latestObservation_' \in SpinSome
  /\ mpc_observation' = {}
  /\ goals' = goals + 1
  /\ mpc_target' = mpc_target \cup {Target(goals', latestObservation_')}
  /\ commandLine' = {}
  /\ UNCHANGED <<userUp, mpc_mode_schedule, controller, time, published, faults>>

\* The rest of publishKeyboardCommand: it spins again, copies the observation,
\* computes and publishes.
publishKeyboardCommand ==
  /\ userUp /\ commandLine # {}
  /\ latestObservation_' \in SpinSome
  /\ mpc_observation' = {}
  /\ goals' = goals + 1
  /\ mpc_target' = {Target(goals', latestObservation_')}
  /\ commandLine' = {}
  /\ UNCHANGED <<userUp, mpc_mode_schedule, controller, time, published, faults>>

\* The user enters the name of a gait in the list.  (Other names are caught.)
publishGait(tpl) ==
  /\ userUp /\ commandLine = {}
  /\ mpc_mode_schedule' = {tpl}
  /\ UNCHANGED <<user, mpc_observation, mpc_target, controller, time, published, faults>>

---------------------------------------------------------------------------------
(***************************************************************************)
(* The controller.                                                         *)
(***************************************************************************)
Spinning == phase \in {"waiting", "running", "unstarted"}

\* It finds the service, or gives up.
Connect ==
  /\ phase = "connecting"
  /\ phase' \in {"waiting", "unstarted"}
  /\ UNCHANGED <<user, mpc_observation, mpc_target, mpc_mode_schedule, observation,
                 targetBuffer, targetTrajectories, time, published, faults>>

\* publishCurrentObservation.
PublishObservation(t, measured) ==
  /\ published' = published + 1
  /\ mpc_observation' = {[time |-> t, count |-> published', measured |-> measured]}

(***************************************************************************)
(* The start sequence, with the state of time t: setInitialState copies    *)
(* the joints and leaves the base pose at zero; the target becomes that    *)
(* state, in place of a goal that is in the buffer, and the solver runs.   *)
(***************************************************************************)
StartControlLoop(t) ==
  /\ phase = "waiting"
  /\ phase' = "running"
  /\ observation' = t
  /\ targetTrajectories' = {[goal |-> 0, start |-> t, count |-> published + 1,
                             measured |-> FALSE]}
  /\ targetBuffer' = {}
  /\ PublishObservation(t, FALSE)
  /\ UNCHANGED <<user, mpc_target, mpc_mode_schedule, time, faults>>

\* A measurement of time t; the solver, if it runs, first takes the target from the
\* buffer.  Without a policy the process ends before it publishes.
Measurement(t, due) ==
  /\ Spinning
  /\ observation' = t
  /\ targetTrajectories' = IF due /\ targetBuffer # {} THEN targetBuffer ELSE targetTrajectories
  /\ targetBuffer' = IF due THEN {} ELSE targetBuffer
  /\ phase' = IF targetTrajectories' = {} THEN "failed" ELSE phase
  /\ IF phase' = "failed" THEN UNCHANGED <<published, mpc_observation>>
     ELSE PublishObservation(t, TRUE)
  /\ UNCHANGED <<user, mpc_target, mpc_mode_schedule, time, faults>>

\* RosReferenceManager's targetTrajectoriesCallback.
targetTrajectoriesCallback ==
  /\ Spinning /\ mpc_target # {}
  /\ targetBuffer' = mpc_target
  /\ mpc_target' = {}
  /\ UNCHANGED <<user, mpc_observation, mpc_mode_schedule, phase, observation,
                 targetTrajectories, time, published, faults>>

\* GaitReceiver takes a gait; what it does with it is in ReferencePlanning.
takeGait ==
  /\ Spinning /\ mpc_mode_schedule # {}
  /\ mpc_mode_schedule' = {}
  /\ UNCHANGED <<user, mpc_observation, mpc_target, controller, time, published, faults>>

\* Slip: the topic keeps its last message for readers that come later.
RelaunchKeepsTarget ==
  /\ relaunches < MaxRelaunches
  /\ phase' = "connecting" /\ observation' = 0
  /\ targetBuffer' = {} /\ targetTrajectories' = {}
  /\ mpc_mode_schedule' = {}
  /\ relaunches' = relaunches + 1 /\ goalsBefore' = goals
  /\ UNCHANGED <<user, mpc_observation, mpc_target, time, published, resets,
                 publishedBefore>>

\* The controller dies and is launched again: what was sent to it is gone, what it has
\* published is not.
Relaunch ==
  /\ relaunches < MaxRelaunches
  /\ phase' = "connecting" /\ observation' = 0
  /\ targetBuffer' = {} /\ targetTrajectories' = {}
  /\ mpc_target' = {} /\ mpc_mode_schedule' = {}
  /\ relaunches' = relaunches + 1 /\ goalsBefore' = goals
  /\ UNCHANGED <<user, mpc_observation, time, published, resets, publishedBefore>>

---------------------------------------------------------------------------------
\* The simulation goes on, or the user sets its time back.
Tick ==
  /\ time < MaxTime
  /\ time' = time + 1
  /\ UNCHANGED <<user, mpc_observation, mpc_target, mpc_mode_schedule, controller, published,
                 faults>>

ResetSimulation ==
  /\ time > 0 /\ resets < MaxResets
  /\ time' = 0
  /\ resets' = resets + 1 /\ publishedBefore' = published
  /\ UNCHANGED <<user, mpc_observation, mpc_target, mpc_mode_schedule, controller, published,
                 relaunches, goalsBefore>>

UserNext ==
  \/ EnterGoal \/ RejectNumber \/ publishKeyboardCommand
  \/ \E tpl \in Gaits : publishGait(tpl)

\* A measurement is the answer to a command: the first command is that of the start
\* sequence, if not of a controller that has died; a solver run takes some of them.
NextMeasurement ==
  /\ observation # time
  /\ phase = "running" \/ relaunches > 0
  /\ \E due \in BOOLEAN : (due => targetTrajectories # {}) /\ Measurement(time, due)

ControllerNext ==
  \/ Connect \/ StartControlLoop(time) \/ NextMeasurement
  \/ targetTrajectoriesCallback \/ takeGait

Next == UserNext \/ ControllerNext \/ Tick \/ ResetSimulation \/ Relaunch

Spec == Init /\ [][Next]_vars
---------------------------------------------------------------------------------
(***************************************************************************)
(* Properties.                                                             *)
(***************************************************************************)
Observations == [time : Nat, count : Nat, measured : BOOLEAN]
Targets == [goal : Nat, start : Nat, count : Nat, measured : BOOLEAN]

\* At most one of the given messages.
SlotOf(messages, kind) == messages \subseteq kind /\ \A m, n \in messages : m = n

\* Type invariant: no topic and no buffer ever holds two messages.
TypeOK ==
  /\ userUp \in BOOLEAN /\ latestObservation_ \in Observations
  /\ SlotOf(commandLine, Nat)
  /\ SlotOf(mpc_observation, Observations)
  /\ SlotOf(mpc_target, Targets) /\ SlotOf(targetBuffer, Targets)
  /\ SlotOf(targetTrajectories, Targets)
  /\ SlotOf(mpc_mode_schedule, Gaits)
  /\ phase \in {"connecting", "waiting", "running", "unstarted", "failed"}
  /\ observation \in Nat /\ time \in Nat /\ published \in Nat /\ goals \in Nat
  /\ resets \in Nat /\ relaunches \in Nat /\ publishedBefore \in Nat

\* However long the node has waited at its prompt without spinning, a goal is computed
\* from an observation no older than the last one published when the user entered it.
GoalFromFreshObservation ==
  [][goals' # goals =>
       \A seen \in commandLine : \A target \in mpc_target' : target.count >= seen]_vars

\* A target carries the times of the simulation it was computed in.  If the solver tracks
\* one that lies in the future, the target is left over from before the latest reset: a
\* goal that is computed from any observation published since then is not, whatever topic,
\* buffer or node the old observation or the old goal was in when the time was set back.
FutureTargetIsLeftOver ==
  phase = "running" =>
    \A target \in targetTrajectories :
      target.start <= observation \/ target.count <= publishedBefore

\* MPC_black_box_learning.txt:151 says that the first of the two frames a goal becomes
\* holds the current position: it does, if the goal was computed from a published
\* observation and the base pose in that observation was measured.
GoalStartsAtMeasuredPose ==
  \A target \in targetTrajectories : target.goal > 0 /\ target.count > 0 => target.measured

---------------------------------------------------------------------------------
(***************************************************************************)
(* The abstract specification.                                             *)
(***************************************************************************)
tracked == IF targetTrajectories = {} THEN 0
           ELSE (CHOOSE target \in targetTrajectories : TRUE).goal

Register == INSTANCE GoalRegister
              WITH issued <- goals, tracked <- tracked, forgotten <- goalsBefore

\* A goal that has been tracked is never tracked again after a later one, nor does one
\* come to the next controller, through whichever of topic, buffer and start it passes.
ImplementsGoalRegister == Register!RSpec
================================================================================
