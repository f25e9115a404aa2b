------------------------- MODULE MotionPhaseDefinition -------------------------
(***************************************************************************)
(* The contact modes of the robot: gait/MotionPhaseDefinition.h.  A mode   *)
(* is the number of enum ModeNumber; the contact flags of a mode are the   *)
(* set of the legs that carry the robot while the mode lasts.              *)
(***************************************************************************)
EXTENDS Integers

Legs == {"LF", "RF", "LH", "RH"}

Modes == 0..15

FLY    == 0
RF_RH  == 5
RF_LH  == 6
LF_RH  == 9
LF_LH  == 10
STANCE == 15

(***************************************************************************)
(* The switch of modeNumber2StanceLeg.                                     *)
(***************************************************************************)
modeNumber2StanceLeg ==
  LET stanceLegs == << {},           {"RH"},             {"LH"},             {"LH", "RH"},
                       {"RF"},       {"RF", "RH"},       {"RF", "LH"},       {"RF", "LH", "RH"},
                       {"LF"},       {"LF", "RH"},       {"LF", "LH"},       {"LF", "LH", "RH"},
                       {"LF", "RF"}, {"LF", "RF", "RH"}, {"LF", "RF", "LH"}, Legs >>
  IN  [m \in Modes |-> stanceLegs[m + 1]]
================================================================================
