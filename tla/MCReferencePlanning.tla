-------------------------- MODULE MCReferencePlanning --------------------------
(***************************************************************************)
(* Small instances of ReferencePlanning for TLC.                           *)
(***************************************************************************)
EXTENDS ReferencePlanning

\* The diagonal pairs in turn with a stance between them; the lateral pairs, with
\* a flight phase between them.
StandingTrot == [switchingTimes |-> <<0, 1, 2, 3>>, modeSequence |-> <<LF_RH, STANCE, RF_LH>>]
Pace == [switchingTimes |-> <<0, 1, 3, 4>>, modeSequence |-> <<LF_LH, FLY, RF_RH>>]

MCGaits == {StandingTrot, Pace}
MCDefault == StanceTemplate(2)
MCInitial == [eventTimes |-> <<1>>, modeSequence |-> <<STANCE, STANCE>>]

\* No node of the repository publishes a mode schedule; one that another could.
NoSchedules == {}
MCSchedules ==
  {[eventTimes |-> <<2, 4, 5>>, modeSequence |-> <<STANCE, RF_LH, STANCE, LF_RH>>]}

\* A schedule that never changes the mode: no event, one mode, as the message asks for.
Eventless == [eventTimes |-> <<>>, modeSequence |-> <<STANCE>>]
MCEventless == {Eventless}
MCPace == {Pace}
================================================================================
