----------------------------- MODULE MCSpooler -----------------------------
(***************************************************************************)
(* Instances of Spooler for TLC: a queue that wraps and fills while a      *)
(* foreground reads characters, and a fair run.                            *)
(***************************************************************************)
EXTENDS Spooler

CommandCalls == {"command"}
CharacterCalls == {"character"}
PlainText == {"other"}
LineEnds == {"cr", "lf"}
AllCommands == {"kill", "suspend"}
NoCommands == {}
=============================================================================
