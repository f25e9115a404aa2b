------------------------------ MODULE GaitTimeline ------------------------------
(***************************************************************************)
(* What the gait planning promises, without event lists, tiling or         *)
(* pruning: at every moment the planner holds one mode for every time that *)
(* still matters, as far into the future as anyone looks.  A solver run    *)
(* changes no mode up to the end of its horizon; a gait that is waiting    *)
(* starts there, after a stance if the robot is not standing, and then     *)
(* repeats for ever.                                                       *)
(***************************************************************************)
EXTENDS Integers, Sequences, FiniteSets, MotionPhaseDefinition

CONSTANTS Gaits, ExternalSchedules, timeHorizon, phaseTransitionStanceTime,
          LastTime   \* the last time of interest

VARIABLES timeline,       \* the mode of every time of the window
          template,       \* the gait that is repeated in the end
          initTime,       \* start of the latest solver run
          solved,         \* there was a solver run
          receivedGait, gaitUpdated   \* the waiting gait, if gaitUpdated

tvars == <<timeline, template, initTime, solved, receivedGait, gaitUpdated>>

\* The times that matter to the run that starts at t: one horizon back, and on.
WindowOf(t) == (t - timeHorizon)..LastTime

Window == IF solved THEN WindowOf(initTime) ELSE WindowOf(0)

\* The mode of a gait d ticks after it started (a phase includes its last tick).
CycleMode(tpl, d) ==
  LET n     == Len(tpl.modeSequence)
      at(i) == tpl.switchingTimes[i] - tpl.switchingTimes[1]
      tick  == ((d - 1) % at(n + 1)) + 1
  IN  tpl.modeSequence[CHOOSE i \in 1..n : at(i) < tick /\ tick <= at(i + 1)]

\* The timeline that follows old up to time f and the gait from start on.
SwitchAt(old, f, start, tpl) ==
  [t \in DOMAIN old |-> IF t <= f THEN old[t]
                        ELSE IF t <= start THEN STANCE
                        ELSE CycleMode(tpl, t - start)]

\* When a gait that is inserted at time f starts.  After a reset f may lie before the
\* window, where nobody knows any more whether the robot stood.
Starts(old, f) ==
  IF f \in DOMAIN old
  THEN {IF old[f] = STANCE THEN f ELSE f + phaseTransitionStanceTime}
  ELSE {f, f + phaseTransitionStanceTime}

---------------------------------------------------------------------------------
TInit ==
  /\ timeline \in [Window -> Modes]
  /\ solved = FALSE /\ gaitUpdated = FALSE

Command ==
  /\ receivedGait' \in Gaits /\ gaitUpdated'
  /\ UNCHANGED <<timeline, template, initTime, solved>>

\* Another node replaces the plan up to its last event, where the gait starts
\* over; the mode it gives after that event is not used.
Replace ==
  /\ \E ms \in ExternalSchedules :
       LET end == ms.eventTimes[Len(ms.eventTimes)]
           before(t) == {i \in DOMAIN ms.eventTimes : ms.eventTimes[i] < t}
       IN  timeline' = [t \in Window |->
                          IF t <= end THEN ms.modeSequence[Cardinality(before(t)) + 1]
                          ELSE CycleMode(template, t - end)]
  /\ UNCHANGED <<template, initTime, solved, receivedGait, gaitUpdated>>

Run ==
  /\ solved' /\ ~ gaitUpdated'
  /\ LET f == initTime' + timeHorizon
     IN  \E promised \in IF gaitUpdated
                         THEN {SwitchAt(timeline, f, start, receivedGait) :
                                 start \in Starts(timeline, f)}
                         ELSE {timeline} :
           \A t \in DOMAIN timeline \cap DOMAIN timeline' : timeline'[t] = promised[t]
  /\ DOMAIN timeline' = Window'
  /\ template' = IF gaitUpdated THEN receivedGait ELSE template
  /\ UNCHANGED receivedGait

TNext == Command \/ Replace \/ Run

TSpec == TInit /\ [][TNext]_tvars
=================================================================================
