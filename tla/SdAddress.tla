------------------------------ MODULE SdAddress ------------------------------
(***************************************************************************)
(* Where a sector of a FLEX drive lies on the SD card: LDSDADRS and the    *)
(* drive table of CONSOLE_FPGA.ASM, a byte at a time as the 6809 adds.     *)
(***************************************************************************)
EXTENDS Integers

Byte256 == 0 .. 255

\* The bytes <<LBA2, LBA1, LBA0>> of the four drives.
DriveTable == [d \in 0 .. 3 |-> <<0, 8 * d, 0>>]

\* CMPA #3, BGT: a signed comparison.
Signed(byte) == IF byte < 128 THEN byte ELSE byte - 256
NODRV(drive) == Signed(drive) > 3

\* SUBB #1: the half of the block is its lowest bit.
SECPOSOf(sector) == (sector - 1) % 256

\* ADDB, ADCB, ADCB: sector offset and drive.
Scratch(base, sector) ==
  LET b0 == (SECPOSOf(sector) \div 2) + base[3]
      b1 == base[2] + (b0 \div 256)
      b2 == base[1] + (b1 \div 256)
  IN  <<b2 % 256, b1 % 256, b0 % 256>>

\* MUL, ADDB, ADCA, ADCA: tracks of eighteen blocks.
LDSDADRS(base, track, sector) ==
  LET s  == Scratch(base, sector)
      d  == 18 * track
      b0 == (d % 256) + s[3]
      b1 == (d \div 256) + s[2] + (b0 \div 256)
      b2 == s[1] + (b1 \div 256)
  IN  (b2 % 256) * 65536 + (b1 % 256) * 256 + (b0 % 256)
=============================================================================
