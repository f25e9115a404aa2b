------------------------------ MODULE GaitSchedule ------------------------------
(***************************************************************************)
(* Class GaitSchedule (gait/GaitSchedule.h, .cpp) as operators on its      *)
(* state.  A gait schedule is a record                                     *)
(*                                                                         *)
(*   eventTimes    the times at which the contact mode changes             *)
(*   modeSequence  the modes between the events, one more than the events  *)
(*   template      the ModeSequenceTemplate the schedule is extended with  *)
(*   failed        an exception left the method, or it erased from an      *)
(*                 empty vector: the process does not continue             *)
(*                                                                         *)
(* Times are integer ticks.  Mode i lasts from event i-1 (exclusive) to    *)
(* event i (inclusive), the convention of ModeSchedule::modeAtTime.        *)
(***************************************************************************)
EXTENDS Integers, SequencesExt, MotionPhaseDefinition

CONSTANT phaseTransitionStanceTime   \* stance between two gaits, in ticks

ASSUME TransitionAssumption == phaseTransitionStanceTime \in Nat

---------------------------------------------------------------------------------
(***************************************************************************)
(* Mode sequence templates: one cycle of a gait.                           *)
(***************************************************************************)
IsModeSequenceTemplate(tpl) ==
  LET n == Len(tpl.modeSequence)
  IN  /\ tpl.modeSequence \in Seq(Modes) /\ n > 0
      /\ tpl.switchingTimes \in Seq(Int) /\ Len(tpl.switchingTimes) = n + 1
      /\ \A i, j \in 1..(n + 1) : i < j => tpl.switchingTimes[i] < tpl.switchingTimes[j]

Duration(tpl) == Last(tpl.switchingTimes) - Head(tpl.switchingTimes)

\* The j-th event and the j-th mode (from 0) of the endless repetition of a
\* template that starts at time start.
TileTime(tpl, start, j) ==
  LET n == Len(tpl.modeSequence)
  IN  start + (j \div n) * Duration(tpl)
            + (tpl.switchingTimes[(j % n) + 1] - Head(tpl.switchingTimes))

TileMode(tpl, j) == tpl.modeSequence[(j % Len(tpl.modeSequence)) + 1]

\* Cycles the while loop of tileModeSequenceTemplate runs: the fewest that reach
\* finalTime.
Repetitions(tpl, start, final) ==
  IF start >= final THEN 0
  ELSE ((final - start) + Duration(tpl) - 1) \div Duration(tpl)

---------------------------------------------------------------------------------
(***************************************************************************)
(* std::lower_bound on the event times: how many events, from the front,   *)
(* are before time t.                                                      *)
(***************************************************************************)
LowerBound(eventTimes, t) ==
  CHOOSE i \in 0..Len(eventTimes) :
    /\ \A j \in 1..i : eventTimes[j] < t
    /\ i < Len(eventTimes) => eventTimes[i + 1] >= t

ModeAtTime(schedule, t) ==
  schedule.modeSequence[LowerBound(schedule.eventTimes, t) + 1]

(***************************************************************************)
(* tileModeSequenceTemplate: append whole cycles of the template from      *)
(* start until final is reached, then the default stance phase.  Without a *)
(* template mode the last mode simply goes on.                             *)
(***************************************************************************)
Tile(s, start, final) ==
  IF s.template.modeSequence = <<>> THEN s
  ELSE IF s.eventTimes # <<>> /\ start <= Last(s.eventTimes)
  THEN [s EXCEPT !.failed = TRUE]
  ELSE LET k == Repetitions(s.template, start, final) * Len(s.template.modeSequence)
       IN  [s EXCEPT
              !.eventTimes   = @ \o [j \in 1..(k + 1) |-> TileTime(s.template, start, j - 1)],
              !.modeSequence = Append(@ \o [j \in 1..k |-> TileMode(s.template, j - 1)],
                                      STANCE)]

\* Slip: the mode before the oldest event stays what it was.
DropPastKeepMode(s, lower) ==
  LET index == LowerBound(s.eventTimes, lower)
  IN  IF index = 0 THEN s
      ELSE [s EXCEPT !.eventTimes   = SubSeq(@, index, Len(@)),
                     !.modeSequence = SubSeq(@, index, Len(@))]

\* Slip: nothing is forgotten.
DropPastNever(s, lower) == s

(***************************************************************************)
(* The first half of getModeSchedule: forget the events before the last    *)
(* one that precedes lower; what came before them becomes stance.          *)
(***************************************************************************)
DropPast(s, lower) ==
  LET index == LowerBound(s.eventTimes, lower)
  IN  IF index = 0 THEN s
      ELSE [s EXCEPT
              !.eventTimes   = SubSeq(@, index, Len(@)),
              !.modeSequence = <<STANCE>> \o SubSeq(@, index + 1, Len(@))]

(***************************************************************************)
(* getModeSchedule: forget the past, take the default stance phase off the *)
(* end and extend the schedule with the template up to upper.              *)
(***************************************************************************)
GetModeSchedule(s, lower, upper) ==
  LET kept == DropPast(s, lower)
  IN  IF kept.eventTimes = <<>>
      THEN [kept EXCEPT !.failed = TRUE]
      ELSE Tile([kept EXCEPT !.eventTimes = Front(@), !.modeSequence = Front(@)],
                Last(kept.eventTimes), upper)

\* Slip: the old plan is not cut off.
CutAtNowhere(s, tpl, start) == [s EXCEPT !.template = tpl]

\* Slip: the mode at the cut is kept for the old plan's sake, one mode too many.
CutAtKeepMode(s, tpl, start) ==
  LET index == LowerBound(s.eventTimes, start)
  IN  [s EXCEPT !.template     = tpl,
                !.eventTimes   = SubSeq(@, 1, index),
                !.modeSequence = SubSeq(@, 1, index + 2)]

(***************************************************************************)
(* insertModeSequenceTemplate: cut the schedule at start, stand still for  *)
(* the transition time unless the robot stands at start anyway, and go on  *)
(* with the new template.                                                  *)
(***************************************************************************)
CutAt(s, tpl, start) ==
  LET index == LowerBound(s.eventTimes, start)
  IN  [s EXCEPT !.template     = tpl,
                !.eventTimes   = SubSeq(@, 1, index),
                !.modeSequence = SubSeq(@, 1, index + 1)]

StandFrom(s, start) ==
  [s EXCEPT !.eventTimes = Append(@, start), !.modeSequence = Append(@, STANCE)]

\* Slip: no stance between two gaits.
InsertAtOnce(s, tpl, start, final) == Tile(CutAt(s, tpl, start), start, final)

InsertModeSequenceTemplate(s, tpl, start, final) ==
  LET kept       == CutAt(s, tpl, start)
      transition == IF Last(kept.modeSequence) = STANCE THEN 0
                    ELSE phaseTransitionStanceTime
      stand      == IF transition = 0 THEN kept ELSE StandFrom(kept, start)
  IN  Tile(stand, start + transition, final)

\* Slip: the last event of the new schedule is dropped.
SetModeScheduleShort(s, ms) ==
  [s EXCEPT !.eventTimes = Front(ms.eventTimes), !.modeSequence = Front(ms.modeSequence)]

\* GaitSchedule::setModeSchedule: replace the events and modes, keep the template.
SetModeSchedule(s, ms) ==
  [s EXCEPT !.eventTimes = ms.eventTimes, !.modeSequence = ms.modeSequence]

---------------------------------------------------------------------------------
(***************************************************************************)
(* Events in order, one mode more than events: what every user of a        *)
(* ModeSchedule relies on.                                                 *)
(***************************************************************************)
Ordered(eventTimes) ==
  \A i \in 1..(Len(eventTimes) - 1) : eventTimes[i] < eventTimes[i + 1]

IsSchedule(ms) ==
  /\ ms.eventTimes \in Seq(Int) /\ ms.modeSequence \in Seq(Modes)
  /\ Len(ms.modeSequence) = Len(ms.eventTimes) + 1
  /\ Ordered(ms.eventTimes)

\* The schedules whose template is in T.
Schedules(T) ==
  {s \in [eventTimes : Seq(Int), modeSequence : Seq(Modes), template : T, failed : BOOLEAN] :
     IsSchedule(s)}
=================================================================================
