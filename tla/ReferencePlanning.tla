--------------------------- MODULE ReferencePlanning ---------------------------
(***************************************************************************)
(* What the MPC tracks: GaitReceiver, RosReferenceManager and              *)
(* SwitchedModelReferenceManager around one GaitSchedule and one           *)
(* SwingTrajectoryPlanner.                                                 *)
(*                                                                         *)
(* Every callback and every solver run executes on the one thread of the   *)
(* MPC node, so each is one atomic step.  Before it solves, the OCS2       *)
(* solver calls the reference manager first and the synchronized modules,  *)
(* of which GaitReceiver is the only one, after it.                        *)
(***************************************************************************)
EXTENDS SwingTrajectoryPlanner

CONSTANTS
  Gaits,               \* the templates the user can command (gait.info)
  ExternalSchedules,   \* mode schedules other nodes publish on _mode_schedule
  initModeSchedule,    \* initialModeSchedule of reference.info
  defaultTemplate,     \* defaultModeSequenceTemplate of reference.info
  timeHorizon,         \* mpc.timeHorizon, in ticks
  StartTimes,          \* simulation times at which control can be started
  Periods,             \* ticks between two solver runs
  ResetTimes,          \* simulation times after a reset of the simulation
  MaxTime              \* bound on the time of a solver run

\* The robot stands up to a first event.  The configured schedule is like that; that
\* those of other nodes are is for them to see to, no code checks it.
StandsFirst(ms) == ms.eventTimes # <<>> /\ Head(ms.modeSequence) = STANCE

OthersStandFirst == \A ms \in ExternalSchedules : StandsFirst(ms)

ASSUME PlanningAssumption ==
  /\ Gaits # {} /\ \A tpl \in Gaits \cup {defaultTemplate} : IsModeSequenceTemplate(tpl)
  /\ \A ms \in ExternalSchedules \cup {initModeSchedule} : IsSchedule(ms)
  /\ StandsFirst(initModeSchedule)
  /\ timeHorizon \in Nat \ {0} /\ MaxTime \in Nat
  /\ StartTimes \subseteq Nat /\ ResetTimes \subseteq Nat /\ Periods \subseteq Nat \ {0}

VARIABLES
  gaitSchedule,    \* GaitSchedule, shared by pointer
  receivedGait,    \* GaitReceiver::receivedGait_
  gaitUpdated,     \* GaitReceiver::gaitUpdated_
  modeSchedule,    \* the reference manager's active mode schedule
  swings,          \* feetHeightTrajectories_ and feetHeightTrajectoriesEvents_
  solved,          \* an initial policy exists
  initTime,        \* initial time of the latest solver run
  failed           \* an exception has ended the process

vars == <<gaitSchedule, receivedGait, gaitUpdated, modeSchedule, swings, solved,
          initTime, failed>>

---------------------------------------------------------------------------------
\* ocs2::ModeSchedule(): no event and one mode.
EmptySchedule == [eventTimes |-> <<>>, modeSequence |-> <<FLY>>]

StanceTemplate(period) == [switchingTimes |-> <<0, period>>, modeSequence |-> <<STANCE>>]

Init ==
  /\ gaitSchedule = [eventTimes   |-> initModeSchedule.eventTimes,
                     modeSequence |-> initModeSchedule.modeSequence,
                     template     |-> defaultTemplate,
                     failed       |-> FALSE]
  /\ receivedGait = StanceTemplate(1)
  /\ gaitUpdated = FALSE
  /\ modeSchedule = EmptySchedule
  /\ swings = [events |-> <<>>, feet |-> [leg \in Legs |-> <<>>]]
  /\ solved = FALSE
  /\ initTime = 0
  /\ failed = FALSE

---------------------------------------------------------------------------------
\* GaitReceiver::mpcModeSequenceCallback: the latest command wins.
mpcModeSequenceCallback(tpl) ==
  /\ ~ failed
  /\ receivedGait' = tpl
  /\ gaitUpdated' = TRUE
  /\ UNCHANGED <<gaitSchedule, modeSchedule, swings, solved, initTime, failed>>

\* RosReferenceManager's modeScheduleCallback.  The copy it also leaves in the
\* buffer of ocs2::ReferenceManager is overwritten by modifyReferences before it
\* is read.
modeScheduleCallback(ms) ==
  /\ ~ failed
  /\ gaitSchedule' = SetModeSchedule(gaitSchedule, ms)
  /\ UNCHANGED <<receivedGait, gaitUpdated, modeSchedule, swings, solved, initTime, failed>>

\* Slip: fetch from the present on.
FetchFromNow(s, t) == GetModeSchedule(s, t, t + timeHorizon + timeHorizon)

(***************************************************************************)
(* The schedule modifyReferences fetches: one horizon before the solved    *)
(* interval to one horizon after it.                                       *)
(***************************************************************************)
FetchModeSchedule(s, t) ==
  GetModeSchedule(s, t - timeHorizon, t + timeHorizon + timeHorizon)

\* The times GaitReceiver::preSolverRun passes to insertModeSequenceTemplate.
\* Slip: the new gait starts at once, in the interval that is about to be solved.
InsertNow(t) == t

InsertStart(t) == t + timeHorizon
InsertFinal(t) == timeHorizon

\* Slip: a command that comes before the first run is dropped.
ApplyGaitCommandLater(s, t) ==
  IF gaitUpdated /\ solved
  THEN InsertModeSequenceTemplate(s, receivedGait, InsertStart(t), InsertFinal(t))
  ELSE s

\* GaitReceiver::preSolverRun, on the schedule.
ApplyGaitCommand(s, t) ==
  IF gaitUpdated
  THEN InsertModeSequenceTemplate(s, receivedGait, InsertStart(t), InsertFinal(t))
  ELSE s

(***************************************************************************)
(* One solver run on the horizon [t, t + timeHorizon], up to where it      *)
(* starts solving: modifyReferences, then the gait receiver.  Nothing      *)
(* catches an exception of either: no step follows one that failed.        *)
(***************************************************************************)
SolverRun(t) ==
  /\ ~ failed
  /\ \E fetched \in {FetchModeSchedule(gaitSchedule, t)} :
     \E ms \in {[eventTimes   |-> fetched.eventTimes,
                modeSequence |-> fetched.modeSequence]} :
     \E next \in {ApplyGaitCommand(fetched, t)} :
        /\ failed' = (fetched.failed \/ UpdateFails(ms) \/ next.failed)
        /\ modeSchedule' = ms
        /\ swings' = IF failed' THEN swings ELSE Update(ms)
        /\ gaitSchedule' = next
        /\ gaitUpdated' = FALSE
  /\ initTime' = t
  /\ solved' = TRUE
  /\ UNCHANGED receivedGait

\* The first run, and every later one a few ticks after the run before it.
Advance ==
  \E t \in IF solved THEN {initTime + d : d \in Periods} ELSE StartTimes :
     t <= MaxTime /\ SolverRun(t)

\* The user resets the simulation (backspace): its time starts again at zero.
Restart == \E t \in ResetTimes : solved /\ t <= initTime /\ SolverRun(t)

Next ==
  \/ \E tpl \in Gaits : mpcModeSequenceCallback(tpl)
  \/ \E ms \in ExternalSchedules : modeScheduleCallback(ms)
  \/ Advance
  \/ Restart

Spec == Init /\ [][Next]_vars

\* State messages keep coming and each Periods of them starts a run.
FairSpec == Spec /\ WF_vars(Advance \/ Restart)
---------------------------------------------------------------------------------
(***************************************************************************)
(* Properties.                                                             *)
(***************************************************************************)

\* The latest solver run solved the interval from initTime to this.
finalTime == initTime + timeHorizon

\* Type invariant: above all, the gait schedule and the mode schedule of the
\* solver stay well formed, so that insert and tile can index them.
TypeOK ==
  /\ gaitSchedule \in Schedules(Gaits \cup {defaultTemplate})
  /\ gaitUpdated => receivedGait \in Gaits
  /\ gaitUpdated \in BOOLEAN /\ solved \in BOOLEAN /\ failed \in BOOLEAN
  /\ IsSchedule(modeSchedule)
  /\ initTime \in Nat

\* What the next fetch relies on and no code checks: there is an event to extend
\* the schedule from, and the robot stands before the first event, so that every
\* swing in the schedule has a take-off.
StandsBeforeFirstEvent ==
  /\ gaitSchedule.eventTimes # <<>>
  /\ Head(gaitSchedule.modeSequence) = STANCE
  /\ ~ gaitSchedule.failed

\* No sequence of gait commands, solver runs and clock resets makes the planning
\* throw: not tileModeSequenceTemplate ("initial time for template-tiling"), not
\* checkThatIndicesAreValid, and no erase from an empty event list.
NeverFails == ~ failed

\* Whatever the solver looks up inside its horizon is planned, not the default
\* stance after the last cycle; and every foot in the air there has taken off
\* and will land: the trajectory that is looked up brackets the time.
HorizonIsPlanned ==
  solved =>
    /\ Last(modeSchedule.eventTimes) >= finalTime
    /\ \A t \in (initTime + 1)..finalTime : \A leg \in Legs :
         LET foot == FootAt(swings, leg, t)
         IN  /\ foot.swing <=> leg \notin modeNumber2StanceLeg[ModeAtTime(modeSchedule, t)]
             /\ foot.swing => foot.liftOff < t /\ t <= foot.touchDown

\* getModeSchedule forgets: however long the robot runs, at most one event lies
\* before the fetched interval, so the schedule cannot grow with time.  (The first run
\* may start long after the initial schedule has ended, and then fills the whole gap.)
PastIsForgotten ==
  [][solved /\ initTime' # initTime =>
       Cardinality({i \in DOMAIN gaitSchedule'.eventTimes :
                      gaitSchedule'.eventTimes[i] < initTime' - timeHorizon}) <= 1]_vars

\* A and B follow each other within one gait.
Follow(m1, m2) ==
  \E tpl \in Gaits \cup {defaultTemplate} : \E j \in 0..(Len(tpl.modeSequence) - 1) :
     TileMode(tpl, j) = m1 /\ TileMode(tpl, j + 1) = m2

\* The robot never goes from one gait straight into another: two moving phases
\* in a row are consecutive phases of one gait.
NoAbruptGaitSwitch ==
  \A i \in 1..(Len(gaitSchedule.modeSequence) - 1) :
    LET m1 == gaitSchedule.modeSequence[i]
        m2 == gaitSchedule.modeSequence[i + 1]
    IN  m1 # STANCE /\ m2 # STANCE => Follow(m1, m2)

\* What the solver has already planned stays: no gait command, extension of the
\* schedule or clearing of its past changes the mode of a time that the previous
\* solver run optimised over and the next one still covers.
CommittedHorizon ==
  [][solved => \A t \in (initTime' + 1)..finalTime :
                  ModeAtTime(modeSchedule', t) = ModeAtTime(modeSchedule, t)]_vars

\* A foot in the air keeps its take-off and landing times from run to run: the
\* height reference of a swing never jumps in mid-air.  (A reset of the clock puts
\* the feet elsewhere anyway.)
SwingInProgressIsKept ==
  [][solved /\ initTime' > initTime => \A leg \in Legs :
        LET now == FootAt(swings', leg, initTime' + 1)
        IN  now.swing => now = FootAt(swings, leg, initTime' + 1)]_vars

\* GaitSchedule.h asks insertModeSequenceTemplate for a time period, from a start time
\* to a final time: what preSolverRun passes, when it applies a command, is one.
InsertPeriodOrdered ==
  [][gaitUpdated /\ ~ gaitUpdated' => InsertStart(initTime') <= InsertFinal(initTime')]_vars

\* A commanded gait is adopted, unless a newer command replaces it.
GaitCommandServed ==
  \A tpl \in Gaits :
    (gaitUpdated /\ receivedGait = tpl) ~> (gaitSchedule.template = tpl \/ receivedGait # tpl)

---------------------------------------------------------------------------------
(***************************************************************************)
(* The abstract specification.                                             *)
(***************************************************************************)
LastTime == MaxTime + 3 * timeHorizon

FirstTime == (IF solved THEN initTime ELSE 0) - timeHorizon

\* The mode of a gait d ticks after a cycle of it has started.
RepeatedMode(tpl, d) ==
  LET tick == (d - 1) % Duration(tpl)
  IN  ModeAtTime([eventTimes |-> Tail(tpl.switchingTimes), modeSequence |-> tpl.modeSequence],
                 Head(tpl.switchingTimes) + tick + 1)

\* The mode the gait schedule stands for at time t: past its last event, the
\* repetition of the template it will be extended with.
PromisedMode(s, t) ==
  IF t <= Last(s.eventTimes) THEN ModeAtTime(s, t)
  ELSE RepeatedMode(s.template, t - Last(s.eventTimes))

promises == [t \in FirstTime..LastTime |-> PromisedMode(gaitSchedule, t)]

Timeline == INSTANCE GaitTimeline
              WITH timeline <- promises, template <- gaitSchedule.template

\* The lazily tiled and pruned event list implements the endless timeline: what
\* GaitSchedule.h promises of getModeSchedule and insertModeSequenceTemplate.
ImplementsTimeline == Timeline!TSpec

================================================================================
