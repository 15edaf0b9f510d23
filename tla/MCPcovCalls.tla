------------------------------- MODULE MCPcovCalls -------------------------------
(***************************************************************************)
(* The programs of MCPcovFrames under the hypotheses on which exits and    *)
(* paths are proved to be those of whole invocations: TLC evaluates them,  *)
(* so the properties of the run calls are instances of the theorems.  The  *)
(* last one, NoArgumentCalls, is what the run lost_path lacks.             *)
(***************************************************************************)
EXTENDS MCPcovFrames

ASSUME WellBehaved ==
  OwnAddresses /\ AllReceived /\ Driven /\ NoCallbacks /\ ExitsLeave
================================================================================
