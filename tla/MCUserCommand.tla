----------------------------- MODULE MCUserCommand -----------------------------
(***************************************************************************)
(* Small instances of UserCommand for TLC.                                 *)
(***************************************************************************)
EXTENDS UserCommand
================================================================================
