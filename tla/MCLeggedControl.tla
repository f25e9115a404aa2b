----------------------------- MODULE MCLeggedControl -----------------------------
(***************************************************************************)
(* A small instance of LeggedControl for TLC: one gait with a flight       *)
(* phase, which follows the standing robot and itself.                     *)
(***************************************************************************)
EXTENDS LeggedControl

Phases == INSTANCE MotionPhaseDefinition

Pace == [switchingTimes |-> <<0, 1, 2, 3>>,
         modeSequence   |-> <<Phases!LF_LH, Phases!FLY, Phases!RF_RH>>]

MCGaits == {Pace}
MCDefault == [switchingTimes |-> <<0, 2>>, modeSequence |-> <<Phases!STANCE>>]
MCInitial == [eventTimes |-> <<1>>, modeSequence |-> <<Phases!STANCE, Phases!STANCE>>]
================================================================================
