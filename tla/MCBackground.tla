----------------------------- MODULE MCBackground -----------------------------
(***************************************************************************)
(* Small instances of BackgroundExecutor for TLC.                          *)
(***************************************************************************)
EXTENDS BackgroundProperties
=============================================================================
