------------------------------- MODULE MCMainLoop ------------------------------
(***************************************************************************)
(* Values for the model checker.                                           *)
(***************************************************************************)
EXTENDS MainLoop

CONSTANTS g1, g2

MCGroups == <<g1, g2>>
================================================================================
