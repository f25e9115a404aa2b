--------------------------- MODULE MCWholeBodyControl ---------------------------
(***************************************************************************)
(* WholeBodyControl for TLC: every mode, every foot; the rank of a task is *)
(* full or one short.                                                      *)
(***************************************************************************)
EXTENDS WholeBodyControl
=================================================================================
