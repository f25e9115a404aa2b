----------------------------- MODULE MCControlLoop -----------------------------
(***************************************************************************)
(* Small instances of ControlLoop for TLC.                                 *)
(***************************************************************************)
EXTENDS ControlLoop
================================================================================
