------------------------ MODULE SwingTrajectoryPlanner ------------------------
(***************************************************************************)
(* Class SwingTrajectoryPlanner (foot_planner/SwingTrajectoryPlanner.cpp): *)
(* when each foot leaves the ground and when it lands, read off a mode     *)
(* schedule.  Heights and velocities are left out; a foot trajectory is    *)
(* the pair of its node times, which is all that phases tell apart.        *)
(*                                                                         *)
(* Phases and events are numbered from 1, so phase p lies between events   *)
(* p-1 and p.                                                              *)
(***************************************************************************)
EXTENDS GaitSchedule

NumPhases(ms) == Len(ms.modeSequence)

\* extractContactFlags, for one leg: the phases it spends on the ground.
ContactPhases(ms, leg) ==
  {p \in 1..NumPhases(ms) : leg \in modeNumber2StanceLeg[ms.modeSequence[p]]}

(***************************************************************************)
(* findIndex: the events at which the swing that covers phase p starts and *)
(* ends.  0, and the number of phases, stand for "there is no such event". *)
(***************************************************************************)
StartTimesIndex(ms, leg, p) == Max({0} \cup {q \in ContactPhases(ms, leg) : q < p})

\* Slip: the swing ends where the contact ends.
FinalTimesIndexLate(ms, leg, p) ==
  Min({NumPhases(ms)} \cup {c \in ContactPhases(ms, leg) : c > p})

FinalTimesIndex(ms, leg, p) ==
  Min({NumPhases(ms)} \cup {q - 1 : q \in {c \in ContactPhases(ms, leg) : c > p}})

\* checkThatIndicesAreValid: it throws when this is false.
IndicesAreValid(ms, leg, p) ==
  /\ StartTimesIndex(ms, leg, p) >= 1
  /\ FinalTimesIndex(ms, leg, p) < NumPhases(ms)

\* Some phase makes update throw.
UpdateFails(ms) ==
  \E leg \in Legs : \E p \in (1..NumPhases(ms)) \ ContactPhases(ms, leg) :
     ~ IndicesAreValid(ms, leg, p)

\* The nodes of a foot that stays on the ground ("arbitrarily 0.0 -> 1.0").
StanceFoot == [swing |-> FALSE, liftOff |-> 0, touchDown |-> 0]

(***************************************************************************)
(* update: one trajectory per leg and phase, and the event times they are  *)
(* looked up by.                                                           *)
(***************************************************************************)
Trajectory(ms, leg, p) ==
  IF p \in ContactPhases(ms, leg) THEN StanceFoot
  ELSE [swing     |-> TRUE,
        liftOff   |-> ms.eventTimes[StartTimesIndex(ms, leg, p)],
        touchDown |-> ms.eventTimes[FinalTimesIndex(ms, leg, p)]]

Update(ms) ==
  [events |-> ms.eventTimes,
   feet   |-> [leg \in Legs |-> [p \in 1..NumPhases(ms) |-> Trajectory(ms, leg, p)]]]

\* The trajectory getZvelocityConstraint and getZpositionConstraint evaluate.
FootAt(swings, leg, t) == swings.feet[leg][LowerBound(swings.events, t) + 1]
================================================================================
