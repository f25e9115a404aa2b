# Verification of the legged-robot controller

This directory holds TLA+ models of the MPC/WBC controller of a quadruped, of the
simulator it drives and of the node that takes the user's commands
(`src/legged_control`), the TLC configurations that check them, and proofs for
TLAPS. The rest of the repository is vendored code (MuJoCo, qpOASES) and robot data.

Paths below are relative to `src/legged_control/`; `mc/` stands for
`motion_control/`.

## 1. The system

### Inventory

| Component | State | Operations | What is hard about it |
|---|---|---|---|
| Gait schedule, `mc/src/gait/GaitSchedule.cpp` | `modeSchedule_` (event times, modes), `modeSequenceTemplate_` | `getModeSchedule` (forget the past, extend), `insertModeSequenceTemplate` (switch gait), `tileModeSequenceTemplate`, `setModeSchedule` | a long sequence of legal calls must leave a list the next call can index, that stands before its first event, that does not grow, and that changes nothing the solver has committed to |
| Swing trajectory planner, `mc/src/foot_planner/SwingTrajectoryPlanner.cpp` | `feetHeightTrajectories_`, their events | `update`, lookups | throws when a swing has no take-off or no landing in the schedule |
| Reference manager and gait receiver, `mc/src/reference_manager`, `mc/src/ros_interfaces/{GaitReceiver,RosReferenceManager}.cpp` | `receivedGait_`, `gaitUpdated_`, buffers of the OCS2 reference manager | the callbacks of three topics, `modifyReferences` and `preSolverRun` around each solver run | commands faster than solver runs, order of fetch and insert, external schedules, clock resets |
| Controller node, `mc/src/ros_interfaces/MPC_WBC_ROS_Interface.cpp` | `currentObservation_`, `MpcCount_`, the policy, filter and torque state | `launchNodes`, `simulatorStartControlLoop`, two measurement callbacks | start-up across two processes, rates kept by counting messages, no timeout anywhere |
| Simulator node, `mujoco_simulator/src/MujocoSimulation.cpp` | `data_`, `Start_simulate_`, `Start_control_`, joint commands | `run`, `control_callback`, `start_control_service`, `keyboard` | callbacks between rounds of the loop, flags instead of queues, a reset at any moment, period lengths in floating point |
| User commands, `user_command/src` | the list of gaits, `latestObservation_` | the prompt, `gait:` and `goal:` commands | a node that spins only while it executes a goal, and adds the goal to the observation it then has |
| Whole-body control, `mc/src/legged_wbc` | the contact flags; stacked tasks, slacks and null spaces of the hierarchy | `update`: formulate tasks, stack them, solve one program or one per priority | tasks whose number of rows changes with the contact mode, stacked at several places in different orders |
| Constraints and costs, `mc/src/constraint`, `mc/src/cost`, `mc/src/robot_precomputation` | none | activity, values, derivatives | which are active in which mode |
| Gait phases, `mc/src/gait/Gait.cpp` | none | phase arithmetic | boundaries of phases; nothing calls it |
| State estimation, `mc/src/legged_estimation` | filter state | predict and correct | the period it integrates over |
| Problem set-up, `mc/src/legged_interface` | configuration | reads files once | - |

### How the parts interact

```
 user: goal / gait
   |
 user_command --(mpc_mode_schedule)--> GaitReceiver -----+ insertModeSequenceTemplate
   |  ^    +----(mpc_target)---> RosReferenceManager     |
   |  |                          | target buffer         |
   |  |  other nodes --(mode schedule)--> ... -----------| setModeSchedule
   |  |                          |                       v
   |  |                getModeSchedule <--------- GaitSchedule
   |  |                          |
   |  |  solver run: SwitchedModelReferenceManager --> SwingTrajectoryPlanner --> constraints
   |  |      ^                                                                       |
   |  |      | every 12th message                                                    v policy
   |  +-- controller callbacks <--(state or sensor data, depth 1)-- simulator     WBC: torques
   | (mpc_observation)                                           ^                   |
   |         +-------------------(joint control, depth 1)--------+-------------------+
   |         +-------------------(service start_control, once)---+
```

The controller is one thread: callbacks of all its topics and the solver runs take
turns. The simulator is one thread too: its loop and its callbacks take turns
(`spin_some` once per round; the GLFW keyboard callback runs inside `render`). The
user's node is one thread that blocks at its prompt. Between the three there are
only the service and the topics, every one of depth one.

### What makes the parts correct

* **Planning** never throws; never changes the modes of an interval that has been
  optimised over; keeps the swing of a foot that is in the air; gives every foot in
  the horizon a take-off and a landing; forgets the past; serves every command; never
  passes from one gait to another without a stance. In short: the list implements
  an endless timeline.
* **The loop** has one message in flight; applies every command for one period;
  computes it from the state at the beginning of the period before; evaluates
  only a policy it has, and one that is as fresh as the configured rate; and, once
  started, runs for ever. In short: two processes implement a sampled-data loop.
* **A control period** has the length the control frequency says.
* **A goal** is added to an observation that was fresh when the user entered it, and
  the solver never goes back from a later goal to an earlier one, nor to one that was
  meant for a controller that has died.
* **The whole-body controller** lets each foot do what the MPC lets it do in the same
  mode; each row is bounded by its own right-hand side and relaxed by its own slack;
  what a priority has solved the next ones leave alone.
* **The whole program** runs the planning at the times the planning assumes, asks the
  policy only for times it covers, gives the joints a sequence of modes that follow
  each other, and executes what the user commands.

## 2. The modules

| Module | Models | Code |
|---|---|---|
| `MotionPhaseDefinition` | contact modes and their stance legs | `MotionPhaseDefinition.h` |
| `GaitSchedule` | the class, as operators from one value of its state to the next | `GaitSchedule.{h,cpp}`, `ModeSequenceTemplate.h` |
| `SwingTrajectoryPlanner` | phases, indices, checks and lookups per foot | `SwingTrajectoryPlanner.cpp` |
| `ReferencePlanning` | the state machine around the two: one action per callback, one per solver run | `GaitReceiver.cpp`, `RosReferenceManager.cpp`, `SwitchedModelReferenceManager.cpp` |
| `GaitTimeline` | abstract: a mode for every time, no lists | what `GaitSchedule.h` promises |
| `ControlLoop` | controller and simulator, service, topics, faults: one action per callback or branch of the loop | `MPC_WBC_ROS_Interface.cpp`, `MujocoSimulation.cpp`, `SimulatorNode.cpp` |
| `SampledControl` | abstract: a sampled-data loop with one period of delay | - |
| `ControlPeriod` | the inner loop of `run` in IEEE double arithmetic | `MujocoSimulation.cpp` |
| `UserCommand` | prompt, publishers and subscription of the user's node, the way of goals and gaits, the target buffer | `UserCommandNode.cpp`, `TargetTrajectoriesKeyboardPublisher.cpp`, `GaitKeyboardPublisher.cpp`, `RosReferenceManager.cpp`, `MPC_WBC_ROS_Interface.cpp` |
| `GoalRegister` | abstract: a register that never goes back to an earlier goal | - |
| `LeggedControl` | the composition of `ControlLoop`, `UserCommand` and `ReferencePlanning`, which share variables and take their common steps together | the same, and where they call each other |
| `WholeBodyControl` | the rows of every task and program, for both controllers | `mc/src/legged_wbc`, `Task.h`, `isActive` of the constraints |
| `MCReferencePlanning`, `MCControlLoop`, `MCControlPeriod`, `MCUserCommand`, `MCLeggedControl`, `MCWholeBodyControl` | instances for TLC | `user_command/config/a1` for the shape of the values |
| `GaitSchedule_proofs` | what the operators on a schedule preserve, for every argument | - |
| `ReferencePlanning_proofs`, `GaitTimeline_proofs`, `ControlLoop_proofs`, `ControlPeriod_proofs`, `UserCommand_proofs`, `LeggedControl_proofs`, `WholeBodyControl_proofs` | invariants and theorems of the module named; `GaitTimeline_proofs` holds the refinement and the swings | - |

Each MC module extends its module and gives the constants their values.
`GaitTimeline_proofs` extends `ReferencePlanning_proofs`, which extends `GaitSchedule_proofs`;
`LeggedControl_proofs` instantiates `GaitTimeline_proofs` and `ControlLoop_proofs` with the
substitution `LeggedControl` makes, and so uses the theorems about the parts.

### State and actions of ReferencePlanning

`gaitSchedule` is the object shared by pointer between the receiver and the manager;
`receivedGait` and `gaitUpdated` are the members of `GaitReceiver`; `modeSchedule` is what the
solver was given and `swings` what the planner derived from it; `initTime` is the time of the
latest solver run, `solved` tells whether there has been one, and `failed` that an exception
nobody catches has left the process. `SolverRun(t)` is the whole of what happens before a
solve: the reference manager fetches `[t - timeHorizon, t + 2 timeHorizon]`, the planner is
updated, and then the gait receiver inserts the waiting gait at the end of the horizon
(OCS2 calls the reference manager before the synchronized modules). `Advance` chooses the time of a
run: any of `Periods` ticks after the one before. `Restart` is a run whose time has gone back
because the user has reset the simulation.

Times are integer ticks: the code compares event times exactly, and only their order and
their sums matter to it. (Rounding of these sums is not modelled here; `ControlPeriod` is where
it is known to matter.)
The optimisation, heights and velocities of feet are left out.

### State and actions of ControlLoop

Time counts control periods. A message carries only the time of the measurement that it
is, or that the command in it was computed from. Each topic is a set with the one
message its reader has not taken. A request of the service is `"live"` or, after its
controller has died, `"dead"`. `spun` holds the callbacks that this round's `spin_some` has run
already: ROS takes each subscription at most once per `spin_some`. The actions are
the branches of the simulator's loop (`ControlPeriod`, `FreePeriod`, `IdleRound`), its two
callbacks, the steps of `simulatorStartControlLoop` and the two measurement callbacks;
`ResetSimulation`, `LoseMessage` and `Relaunch` are what the environment may do, each as
often as a bound allows.

`simulatorStartControlLoop` waits with `spin_until_future_complete`, so the measurement callbacks
are enabled in phase `"waiting"`; a measurement then meets no policy and the
process ends (`"failed"`).

### State and actions of UserCommand

A goal is a displacement, so what matters of a target is the observation it was added to:
its number among those published, its time, and whether its base pose was measured.
`latestObservation_` is what the user's node holds. It receives observations only while it
spins, and it spins twice for each goal: `EnterGoal` is the part of `main` up to the call of
the publisher, `publishKeyboardCommand` the rest, `RejectNumber` the `stof` that throws on a word
which is no number. `commandLine` is empty at the prompt; during a goal command it holds
how many observations had been published when the user entered it. `targetBuffer` is the target the
reference manager has been given, `targetTrajectories` the one the last solver run took from it.
`StartControlLoop` overwrites both. The controller is reduced to what touches observations and
targets: `Measurement(t, due)` is a measurement at time `t` that starts a solver run, or does not.

### LeggedControl

The three modules are instantiated with one set of variables. Where a step of the program
is one of several of them, the actions are conjoined: `StartControlLoop` and
`MeasurementCallback` are steps of the loop, of the targets and, if the solver is due, of the
planning; `GaitCallback` takes the gait from the topic and gives it to the receiver. The user's steps
(`UserStep`), the simulator's steps, resets and losses (`LoopStep`) leave the rest
unchanged. A solver run happens when `MpcCount_` says so, not when a bound
allows: that this is what `ReferencePlanning` assumes is the property `ImplementsPlanning`. A relaunch of
the controller is not composed (a new controller has a new gait schedule).

### State and actions of WholeBodyControl

`setupWbc` builds a `WeightedWbc`; `HierarchicalWbc` has the same interface and nothing
instantiates it, so `scheme` chooses between the two at the start. A row of a
matrix is named for the task and the leg it was written for, and its numbers are left out:
`constraints` and `cost` are the rows of the latest program, each with the name of what bounds it and
of the slack that relaxes it. `Update(mode)` is `WbcBase::update` with the flags of a mode;
`SolveWeighted` states the one program, `SolvePriority` the next of the hierarchy as `HoQp` does, in the null
space of those before. The rank of a stacked matrix depends on numbers: it is any up to
`RankLosses` short of its rows.

### Deadlock

`CHECK_DEADLOCK FALSE` is in every configuration but `wbc.cfg`: each has a bound on time after
which nothing more happens, and in `ControlLoop` a lost message stops the system for good by design of
the code. That is not passed over: `StallIsForEver` states it, and `StartedLoopRuns` states that a
started loop does not stop otherwise.

## 3. What is checked

Every run ends within about two minutes on two cores.

| Run | Question | Bounds |
|---|---|---|
| `planning` | Two gaits and the schedule of another node in any order at any moment. No exception, no abrupt switch, the whole horizon planned, and the refinement of `GaitTimeline`. | horizon 5, stance between gaits 2, solver every 1 or 2 ticks, start at 0 or 3, time up to 7 |
| `planning_long` | Long enough that moving phases are forgotten, with a reset at any run: pruning leaves what the horizon needs and no more, nothing committed changes, a swing in progress is kept, every command is adopted or replaced by another, and the refinement of `GaitTimeline` holds across resets. | one gait with a flight phase, horizon 5, stance 1, solver every 2, start at 0 or 9, time up to 12, reset to 0 |
| `planning_insert_period` | Finding 1. | as `planning` |
| `planning_eventless` | Finding 3. | as `planning`, with a schedule that has no event |
| `loop` | Start-up, then the running loop, with at most one lost message. | 9 Hz / 3 Hz, 3 periods before the start, time up to 14, sensor messages |
| `loop_faults` | Two resets, a relaunch of the controller and a lost message, each at any moment. | 10 Hz / 3 Hz (rounded down as 500/40 is), time up to 10, state messages |
| `period` | 600 control periods in exact double arithmetic: which of them are one step too long. | timestep 0.001, 500 Hz, as configured; 1.3 s |
| `period_nominal` | Finding 2. | as `period` |
| `goals` | Three goals from the prompt to the solver, past the start, a reset and a relaunch. | time up to 3, any measurement may start a solver run |
| `goal_unobserved` | Finding 4. | one goal, no faults |
| `legged_control` | Simulator, controller, planning and user together. | 6 Hz / 2 Hz, horizon 3, stance 1, one gait, one goal, time up to 12, no faults |
| `wbc` | Both whole-body controllers after any sequence of updates. | all 16 modes, all feet; rank of a task full or one short |

**Why the bounds suffice.** In `planning` the time bound is longer than the horizon plus the stance
between two gaits, so commands are seen waiting, inserted, cut by a later one and fetched; both
gaits have phases shorter than the horizon, one has a flight phase (no foot carries), one a stance phase. In
`planning_long` the time bound is more than twice
the horizon, which pruning needs to reach a moving phase. `loop` sees four solver runs, which is
more than the first (early) interval and the regular ones after it; between them `loop` and `loop_faults` use
both measurement callbacks, rates of which one divides the other and rates of which it does not.
In `goals` three goals are what a topic, a buffer and a solver can hold at once. `legged_control` sees the start and three further
solver runs; the gait is adopted and its first cycle executed. Losses,
resets and relaunches are left to the runs of the parts: the composition with a reset is too large. What `PolicyCoversObservation` says of
resets is proved (`PolicyAlwaysCovers`) and, but for the horizon, checked by `loop_faults` (`FuturePolicyIsReplaced`).
`period` passes 1.0 s, from where on the sums lose ten bits and every period is long.
`wbc` is complete: it has no bound on the length of a behaviour.

The horizon is at least as long as the longest swing plus the distance of two runs, as configured
(1.0 s against swings of at most some tenths): `SwingInProgressIsKept` needs that,
because pruning replaces what is more than a horizon old by stance. `PastIsForgotten` needs runs
that are not further apart than two horizons (12 periods of 2 ms against 1.0 s).

**Fairness.** `ReferencePlanning!FairSpec`: the solver is run again and again (`WF(Advance \/ Restart)`),
since measurements keep coming while the loop runs, and each fixed number of them starts a run. In `planning_long`
resets stand in for time without a bound: at the time bound the clock goes back to 0 and the runs go on. `ControlLoop!FairSpec`: each
process keeps executing. The simulator's
loop takes one of its branches again and again, `spin_some` executes a callback that stays ready, and
the controller's executor does the same. `loop_rate.sleep()` and `rclcpp::spin` are what justifies it.
`LeggedControl!FairSpec` adds the two other callbacks of the controller's executor; its liveness properties begin
early enough (`Early`) that another solver run lies before the time bound.
No fairness is assumed of the user, the middleware, the start of the simulator or of the
client finding the service: `StartedLoopRuns` begins when the request has been sent.

**Properties worth a second look**

* `CommittedHorizon` relates two consecutive solver runs: cutting, inserting, tiling and pruning
  between them must not touch the overlap of their horizons. An external
  schedule may, and the property is not checked with one.
* `ImplementsTimeline` says the same of all times up to three horizons past the last run, with the place at which the new gait
  starts and the phase it starts in; past the last event the mode is that of the template that will be tiled.
* `LagAtMostOnePeriod` holds because the service pauses the simulation before the first solve;
  after a relaunch two messages circulate, and the bound grows by one period.
* `FuturePolicyIsReplaced` is about the reset: the policy is then from the future. It is replaced
  after at most the messages of one solver cycle, counted from the reset.
* `SolverRunsAreSpaced` and `ImplementsPlanning` justify `Periods` in `ReferencePlanning`: runs are a fixed
  number of periods apart, the first one period less.
* `GoalFromFreshObservation` is what the two spins for a goal are for: the first may find an observation that has
  waited since the last goal, on a topic of depth one; no observation published later than the goal was entered is promised.
* `ModesFollowEachOther` crosses all three modules: the mode of one command comes from one policy, that of the next
  perhaps from another, with a gait inserted between.
* `FutureTargetIsLeftOver` is about the reset, too: the target, an observation the user's node has not taken, a goal in a topic or in the
  buffer may all be from before it. The property says that nothing else is ever tracked from the future.
* `LongPeriodsFollowResolution` ties the length of a period to the binades of its beginning and its end.
* `SlackRelaxesItsRow` (of the hierarchy, which the program does not run) holds for the priorities there are, because only the first has inequalities; its mutant gives the second one
  some, and the slack of one then relaxes another. That is what to know before changing the priorities.
* `FeetAreConstrained` compares two subsystems that never call each other: the activity of the MPC's constraints
  and the rows of the whole-body controller.

### Findings

1. **`insertModeSequenceTemplate` is given a duration as a time** (`GaitReceiver.cpp:63`,
   `GaitSchedule.h:60,63`). `preSolverRun` passes `timeHorizon` where the final time belongs, so from
   the first positive start time on the period is empty: the call switches the template, and adds the stance, but
   tiles no cycle. No other property fails by it, because the next `getModeSchedule`
   tiles up to its upper bound.
2. **Control periods are one step too long** (`MujocoSimulation.cpp:220-221`). The loop compares a difference
   of rounded sums with 0.002 and makes three steps of 1 ms instead of two when it falls short. The first such period is the 31st, from 0.061 s on.
   Below one second there are only four, those that cross 0.0625, 0.125, 0.25 and 0.5 s, where the resolution of the time changes;
   the period that crosses 1.0 s and every one after it, up to the end of the run at 1.3 s, is long: the rate there is
   about 333 Hz, not 500. `LongPeriodsFollowResolution` states this pattern, `PeriodIsBounded` that it is never more than one step.
3. **A mode schedule without an event ends the controller** (`GaitSchedule.cpp:94`). `getModeSchedule` erases the last
   event without asking whether there is one, although its line 91 provides for an empty list and
   `GaitModeSchedule.msg:3` allows one mode and no event. No node of the repository publishes mode schedules.
4. **A goal can be added to a base pose of zeros** (`MPC_WBC_ROS_Interface.cpp:345`). The start sequence publishes an
   observation whose joints come from the simulator and whose base pose is that of the constructor; a goal that is entered before the first
   measurement starts there. `MPC_black_box_learning.txt:151,198-199` (at the top of `src/`) describes the first frame of a goal as the current position.

Seen while modelling, without a property:

* When the controller is launched again while a command of its predecessor is under way, the simulator's
  answer reaches the callback while the new controller waits for the service, and a policy is
  evaluated that does not exist. No document promises otherwise; `PolicyBeforeCommand` is checked without relaunches.
* The comments at `MujocoSimulation.cpp:236` and `:246` (100 Hz) name other rates than the code.
* A controller that does not find the service in ten seconds spins for ever without starting control.
* After a reset the period given to the filter is negative once.
* The whole-body controller takes its period from `mrtDesiredFrequency` (`MPC_WBC_ROS_Interface.cpp:291`), not from the
  rate of the loop.
* A quadratic program that is not solved within 20 working set changes leaves its solution unset (`WeightedWbc.cpp:38`, `HoQp.cpp:138`).
* A word that is no number ends the user's node (`TargetTrajectoriesKeyboardPublisher.cpp:95`).

## 4. What is proved

| Theorem | Says | Assuming, beside the assumptions on constants |
|---|---|---|
| `ReferencePlanning_proofs!TypeCorrect` | the schedules stay well formed: ordered events, one mode more than events | others stand first |
| `ReferencePlanning_proofs!PlanningNeverFails` | no exception, no erase from an empty list | others stand first |
| `ReferencePlanning_proofs!AlwaysStandsBeforeFirstEvent` | the first mode is stance and there is an event | others stand first |
| `ReferencePlanning_proofs!HorizonAlwaysPlanned` | the horizon is planned to its end, and each swing in it has its take-off and landing | others stand first |
| `ReferencePlanning_proofs!CommitmentsAreKept` | what has been optimised over does not change | no others |
| `ReferencePlanning_proofs!ScheduleDoesNotGrow` | at most one event older than the horizon is left after a run | no others; runs at most two horizons apart |
| `ReferencePlanning_proofs!GaitsNeverSwitchAbruptly` | two moving phases in a row belong to one gait | no others; the transition takes time; the configured schedule stands |
| `GaitTimeline_proofs!PlanningImplementsTimeline` | refinement of `GaitTimeline`, resets included | others stand first |
| `GaitTimeline_proofs!SwingsAreKept` | a foot in the air keeps its take-off and its landing in every later plan | no others; the transition takes time; the configured schedule stands; the longest swing and the time between two runs together fit into the horizon |
| `ControlLoop_proofs!TypeCorrect` | every topic holds at most one message | - |
| `ControlLoop_proofs!EveryCommandIsApplied` | no command is replaced before it is applied | - |
| `ControlLoop_proofs!LoopIsInLockStep` | at most `1 + relaunches` messages are under way | - |
| `ControlLoop_proofs!LostMessageStallsTheLoop` | once both sides wait and nothing is under way, they wait for ever | - |
| `ControlLoop_proofs!PolicyComesFirst` | no measurement is answered without a policy | no relaunch |
| `ControlLoop_proofs!CommandsAreFresh` | a command acts within a period of its measurement | no relaunch |
| `ControlLoop_proofs!SolverKeepsItsRate` | the policy is never older than a cycle | no relaunch |
| `ControlLoop_proofs!FuturePolicyEnds` | a policy from the future is replaced within a cycle | no relaunch |
| `ControlLoop_proofs!LoopImplementsSampledControl` | refinement of `SampledControl` | no relaunch, no reset |
| `ControlLoop_proofs!MeasurementsAreConsecutive` | the filter sees each period once and in order | no relaunch, no reset |
| `ControlLoop_proofs!SolverRunsOnTime` | solver runs are a cycle of periods apart, the first two one less | no relaunch, no reset; the solver is not faster than the loop |
| `ControlPeriod_proofs!TypeCorrect` | every time is a double | numbers fit |
| `ControlPeriod_proofs!PeriodsAreBounded` | a period has its nominal number of steps or one more | numbers fit |
| `ControlPeriod_proofs!ConfiguredNumbersFit` | "numbers fit" for 0.001 s, 500 Hz, two steps and up to 600 periods | - |
| `UserCommand_proofs!TypeCorrect` | no topic and no buffer holds two messages | - |
| `UserCommand_proofs!GoalsAreFresh` | a goal is added to an observation that was fresh when it was entered | - |
| `UserCommand_proofs!FutureTargetsAreLeftOver` | a target from the future was computed from an observation of before the latest reset | - |
| `UserCommand_proofs!GoalsImplementRegister` | refinement of `GoalRegister` | - |
| `LeggedControl_proofs!ProgramImplementsPlanning` | the program's solver runs are those `ReferencePlanning` assumes | no relaunch; the simulation starts before the time bound; the solver is not faster than the loop, and with resets at most half as fast |
| `LeggedControl_proofs!PolicyAlwaysCovers` | no command is computed from a policy past its end, resets or not; nor from one before its start, but in the first solver cycle after a reset | no relaunch; a solver cycle is at most the horizon and one period |
| `LeggedControl_proofs!ProgramPlansAhead` | the planning never fails, plans its horizon and keeps what is committed in the program, and forgets the past if a cycle is at most two horizons | regular |
| `LeggedControl_proofs!JointsFollowTheGait` | the modes the joints are commanded follow each other | regular; a cycle is at most the horizon; the transition takes time; the configured schedule stands |
| `LeggedControl_proofs!ProgramKeepsSwings` | as `SwingsAreKept`, in the program | regular; a cycle and the longest swing together fit into the horizon; the transition takes time; the configured schedule stands |
| `WholeBodyControl_proofs!FeetConstrainedAlike` | both controllers impose on each foot the counterparts of the MPC's constraints | - |
| `WholeBodyControl_proofs!RowsKeepTheirBounds` | each row keeps its right-hand side | - |
| `WholeBodyControl_proofs!SlackIsGrantedInOrder` | the slack an inequality is granted is its own | - |
| `WholeBodyControl_proofs!PrioritiesHold` | a priority moves inside the null space of all before it | - |
| `WholeBodyControl_proofs!MotorsStayFree` | the equations of robot and feet leave a direction for each motor | - |

*Others stand first*: the mode schedules other nodes publish have an event and start in stance
(`OthersStandFirst`); *no others*: there are none, as in this repository. *Regular*: the controller is launched once, the
simulation starts before the time bound, and the solver runs at most at every second message (`Regular`; 40 Hz
and 500 Hz are configured). *Numbers fit*: the nominal number of steps is right with a margin of 512 units of 2^-62 s
per step and for the difference, and all times stay below 2 s (`NumbersFit`).

They hold for all gaits, horizons, times, rates and bounds. Messages may be lost at any time in `ControlLoop` and, between
simulator and controller, in `LeggedControl`; `UserCommand` loses none (a later message only replaces an earlier one).

**Planning never fails.** The invariant is `IInv == TypeOK /\ NeverFails /\ StandsBeforeFirstEvent`, one induction for the
three theorems. `NeverFails` is not inductive: a fetch throws if there is no last event to take
off, and the planner throws if a foot is in the air before the first event or after the last.
`StandsBeforeFirstEvent` supplies the first; that every fetched schedule ends in stance is a fact about
`Tile`. `GaitSchedule_proofs` has one lemma per operator (`DropPastProperties`, `TileProperties`,
`GetModeScheduleProperties`, `CutProperties`, `StandProperties`, `InsertModeSequenceTemplateProperties`): what it
preserves of a well-formed schedule, and when it does not fail. The arithmetic core is that
tile times increase (`TileTimeProperties`), over `\div` and `%` by the length of the template.
`UpdateSucceeds` shows that a schedule that begins and ends in stance gives every swing both its events.

**The horizon.** `HInv` remembers of a solver run that `swings` is what the planner derives from `modeSchedule`, that the derivation
succeeded, and that the last event is not before `finalTime`. The theorem then is a fact about one foot: the events that bracket a time in
the air are the take-off and landing (`FootBracketsTime`). `CommitmentsAreKept` needs more, `CInv`: the gait schedule
reaches to `finalTime` and agrees with `modeSchedule` up to there. Each operation keeps the modes of the interval: `DropPastModes` and
`TileModesKept` for the fetch, `CutModes` and `StandModes` for the insertion; two schedules with a common prefix agree up to its end (`SamePrefix`).

**Gait switches.** `NoAbruptGaitSwitch` is not inductive either: tiling appends the template behind the last moving phase. `Extendable` says that
the schedule ends in stance and that what stands before it is a stance or the last phase of a cycle of the
template, so that the next cycle follows it. A gait command cuts anywhere, and is safe by the stance it puts between.

**The past.** `PastIsForgotten` is about one step, but needs the whole invariant: `OthersFrom` says that every event but the first is
later than a bound; `DropPastForgets` gives it for the list that is left, and each operation after it adds events only further up.

**The timeline.** `PromisedMode` reads a schedule at any time: from the list where it has events, from the repeated template behind them.
Two facts carry the refinement: a fetch changes no promise from its lower bound on (`FetchKeepsPromises`), and an insertion
changes them just from the end of the horizon on, to a stance and then the new gait from its first phase (`InsertPromises`). What is hard is `TileRepeats`: tiling appends
whole cycles only, so that the template that is promised behind the last event starts over in phase; the arithmetic of remainders it needs comes
before it. A reset moves the window of the abstract timeline, not what is promised in it.

**Swings.** A swing as the planner finds it is determined by the modes between its take-off and its landing (`FootTimes`, `SameSwing`), so two plans
that agree there agree on the swing. `SInv` bounds the length of every swing that is planned or promised; a swing around the time of
the next run then lies within a horizon to both sides of it, and there the two plans agree. The bound is inductive because a switch passes through
stance for longer than an instant: without the transition a swing of one gait could run on in the next.

**The loop.** `LInv == MessagesInFlight + Unsent <= 1 + relaunches`: `LockStep` is not inductive, because a connecting
controller adds a message when it sends its request; `Unsent` counts it in advance. A relaunch
adds one on both sides. `EveryCommandIsApplied` rests on `AppliedBeforeNext`: a command
that waits to be applied has come in this round, and `spin_some` takes one per round.
The timing is one invariant in layers, each stable by those below: `Started` (who may be waiting for what in which
phase), `Prompt` (a message carries the time of the period it is under way in), `Counted` (how old the policy is, by `MpcCount_`) and `Trailing`
(once the policy is from the future, the clock and every new measurement stay behind the solver's counter).
Without resets `Exact` replaces "at most" by "exactly"; from it each step of the loop is the step of `SampledControl`
that its refinement mapping says, or none (`Consecutive` gives the theorem on measurements).

**Goals.** `PastOnly` (what has been published since the latest reset, or was computed from it, carries no time that has not come) and `LastIsKept` (the last published observation is on the topic or with
the user's node) give two of the theorems. `GoalsInOrder` orders goals along their way: tracked before buffered before published before entered,
and none behind the latest launch; every step then is one of the register or none.

**The whole program.** Loop and planning are proved about on their own; what connects them is `Joint` (the policy is that of the planning's latest
run, and there is none before the start) and `Punctual` (what the invariants of the loop say of the distance of two runs). With them each step of the
program is a step of the planning, and the theorems of the planning hold in the program. `ModesFollowEachOther` compares two commands: either both come from one
plan, then the next instant has the same or the following mode (`NextInstant`), or a solver run lies between them, and the new plan
agrees with the old one around the present (`SolverRunKeepsPresent`). With resets runs may be closer than a cycle, but at least one period apart if the solver does not run at every
message: that is where `2 * Mpc_control_frequency <= Wbc_control_frequency` comes from.

**The whole-body controller.** The invariant (`IInv` there) says what has been stacked at each priority: `Flags`, `Stack`, `Programs`, `Said`. `HoQp` stacks tasks from
the newest and slacks from the oldest; `Stack` can say that the two agree only because no priority after the first has inequalities. For the motors, the
equations of the robot (18) and of its feet (three for each, in the air or on the ground) are 30 in every mode, of 42
variables: `RowCount` counts them, and 12 directions are left whatever the rank.

**Control periods.** The model begins as the loop does, after the one step that `run` makes before it. A time is three digits to the base 2^21; `Value` is the number it stands for. `Carry` keeps the value and rounding changes it
by at most 512 units (`PlusValue`). `Drift` sums this up over the steps of a period: after `steps` of them the time since its beginning is
`steps` timesteps up to `512 * steps` units, and the difference the loop takes is rounded once more. The loop's condition then cannot fail before the nominal number of steps, nor
hold after one more. `Power` tabulates the powers of two because the provers have no exponentiation.

The assumptions on constants ask only for what configuration files give: templates with at least one phase and
increasing times, natural numbers, an initial schedule that has an event and begins in
stance (`reference.info`). TLC evaluates every assumption on the instances. `planning_eventless` is what happens without the hypothesis on
schedules of other nodes.

**Only model-checked:** liveness: `GaitCommandServed`, `StartedLoopRuns`, `GaitIsAdopted`, `GoalIsTracked`. Every other property that a passing run
checks is stated by one of the theorems, but `LongPeriodsFollowResolution`: it is about the values that are configured, not about all. The four properties that the code violates (section 3) have counterexamples, not proofs.
Liveness and `ENABLED` are beyond this prover, and so is induction over data: lemmas about tiling are stated in closed
form (`TileTime`, `TileMode`) for that reason, where the code has a loop.

## 5. What is not modelled

* qpOASES and MuJoCo, vendored: most lines of the repository are theirs, and so the share of all lines that the
  modules stand for is small. MuJoCo appears as the sum it adds to the time, qpOASES not at all, the OCS2 solver as the order in which it calls.
* Arithmetic over reals: physics, optimisation, state estimation, splines, the values of constraints, costs and tasks, the displacement of a
  goal and the time to reach it, the unwrapping of the yaw, the previous input of the whole-body controller.
* `Gait.cpp`: nothing calls it.
* Files, parsing, logging, rendering; parameters are read once.
* The loss of an observation, a gait or a goal between controller and user's node.
* `phase` starts at the connection; what the constructors do is the initial state.
* Several users, or several nodes that publish goals.

## 6. Plan

Done in this order, the most important behaviour first: `GaitSchedule` and `ReferencePlanning` with `GaitTimeline`; `ControlLoop` with `SampledControl`;
`ControlPeriod`; `UserCommand` with `GoalRegister`; the composition `LeggedControl`; `WholeBodyControl`; the proofs, from type correctness to
the refinements of the loop and of the goals.

What is left, in the order of what it would add:

1. The composition with a relaunch of the controller: a new controller begins with a new gait schedule, and the theorems of `LeggedControl_proofs`
   assume that there is none.
2. `SwingInProgressIsKept` across a reset of the clock, which the property excludes so far.
3. `YawUnwrap`: the continuous yaw of the observation across the jump at pi, and `GaitPhase`, the phase arithmetic of `Gait.cpp`, against
   reference definitions over bounded inputs.

## 7. Running the checks

```
tlc -config planning.cfg MCReferencePlanning
tlapm ReferencePlanning_proofs.tla
```

`PROJECT.json` lists all runs with their modules, which lines of code each definition
stands for, the hazards, and for each checked property a mutation of the model that breaks it (the operators
marked `Slip` in the modules).
