----------------------------- MODULE SampledControl -----------------------------
(***************************************************************************)
(* What the control loop promises: a sampled-data system.  Until control   *)
(* is started the robot moves freely.  When it is started, time stands     *)
(* still until the command for the current state is there.  From then on   *)
(* every period applies a command, and the command for the next period is  *)
(* computed from the state at its start.                                   *)
(***************************************************************************)
EXTENDS Integers

VARIABLES time,      \* in control periods
          started,
          sample     \* time of the measurement the next command is computed from

svars == <<time, started, sample>>

SInit == time = 0 /\ ~ started /\ sample = 0

FreePeriod == ~ started /\ time' = time + 1 /\ UNCHANGED <<started, sample>>

Start == ~ started /\ started' /\ sample' = time /\ UNCHANGED time

Period == started /\ time' = time + 1 /\ sample' = time /\ UNCHANGED started

SNext == FreePeriod \/ Start \/ Period

SSpec == SInit /\ [][SNext]_svars
=================================================================================
