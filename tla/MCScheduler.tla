---------------------------- MODULE MCScheduler ----------------------------
(***************************************************************************)
(* The instance of Scheduler for TLC whose foreground asks for characters  *)
(* as well as commands.                                                    *)
(***************************************************************************)
EXTENDS Scheduler

AllCalls == Functions
=============================================================================
