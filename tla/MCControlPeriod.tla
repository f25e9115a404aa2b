---------------------------- MODULE MCControlPeriod ----------------------------
(***************************************************************************)
(* The values of user_command/config/a1/simulation.info: a timestep of     *)
(* 0.001 s and a control frequency of 500 Hz.  Both doubles are written in *)
(* units of 2^-62: 0.001 is 4611686018427388 of them, 0.002 twice as many. *)
(***************************************************************************)
EXTENDS ControlPeriod

MCTimestep == <<1048, 1207959, 1157628>>
MCControlPeriod == <<2097, 318767, 218104>>
================================================================================
