----------------------------- MODULE MCSdDriver -----------------------------
(***************************************************************************)
(* Both halves of one block, a sector of another drive, and a drive that   *)
(* is not there; sectors of two bytes.                                     *)
(***************************************************************************)
EXTENDS SdDriver

MCHalf == 2
MCBlockSize == 4
MCFiller == <<"filler", 0>>
MCByte == (Values \X (0 .. 1)) \cup {MCFiller}
MCSectors == {<<0, 1, 1>>, <<0, 1, 2>>, <<1, 1, 1>>, <<4, 1, 1>>}
MCBlocks == {18, 2066}

\* The instance is one the theorem on the driver speaks of.
ASSUME DocumentedInstance == Documented
=============================================================================
