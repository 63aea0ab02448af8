---------------------------- MODULE Disassembler ----------------------------
(***************************************************************************)
(* The disassembler of the simulator's console (dis6809.c): how many bytes *)
(* it takes an instruction to have.  The console steps over a subroutine   *)
(* and lists memory by these lengths; the text it prints is left out.      *)
(***************************************************************************)
EXTENDS Cpu6809

LOCAL At16(row, lo) == row[lo + 1]

Row1Size == <<1, 1, 1, 1, 1, 1, 3, 3, 1, 1, 2, 1, 2, 1, 2, 2>>
Row3Size == <<2, 2, 2, 2, 2, 2, 2, 2, 1, 1, 1, 1, 2, 1, 1, 1>>
Row8Size == <<2, 2, 2, 3, 2, 2, 2, 1, 2, 2, 2, 2, 3, 2, 3, 1>>
RowCSize == <<2, 2, 2, 3, 2, 2, 2, 1, 2, 2, 2, 2, 3, 1, 3, 1>>

\* Rows 0, 6 and 7, with the columns that hold no instruction.
UnarySize(lo, n) == IF lo \in {1, 2, 5, 11} THEN 1 ELSE n

\* The table size, without the extra bytes of an index postbyte.
Size1(hi, lo) ==
  CASE hi \in {0, 6}                  -> UnarySize(lo, 2)
    [] hi = 7                         -> UnarySize(lo, 3)
    [] hi = 1                         -> At16(Row1Size, lo)
    [] hi = 3                         -> At16(Row3Size, lo)
    [] hi \in {4, 5}                  -> 1
    [] hi = 8                         -> At16(Row8Size, lo)
    [] hi = 12                        -> At16(RowCSize, lo)
    [] hi \in {2, 9, 10, 13, 14}      -> 2
    [] hi \in {11, 15}                -> 3

\* Immediate and extended operands of the pages 2 and 3 are words.
SizeLong(hi) == IF hi % 4 \in {0, 3} THEN 4 ELSE 3

Size2(hi, lo) ==
  CASE hi = 2 /\ lo > 0                                 -> 4
    [] hi = 3 /\ lo = 15                                -> 2
    [] hi \in 8 .. 11 /\ lo \in {3, 12, 14}             -> SizeLong(hi)
    [] hi \in 12 .. 15 /\ lo = 14                       -> SizeLong(hi)
    [] hi \in (9 .. 11) \cup (13 .. 15) /\ lo = 15      -> SizeLong(hi)
    [] OTHER                                            -> 1

Size3(hi, lo) ==
  CASE hi = 3 /\ lo = 15                    -> 2
    [] hi \in 8 .. 11 /\ lo \in {3, 12}     -> SizeLong(hi)
    [] OTHER                                -> 1

\* The instructions whose mode is 3: indexed.
IsIndexed(page, hi, lo) ==
  \/ page = 1 /\ (hi \in {6, 10, 14} \/ (hi = 3 /\ lo < 4))
  \/ page = 2 /\ Size2(hi, lo) = 3 /\ hi \in {10, 14}
  \/ page = 3 /\ Size3(hi, lo) = 3 /\ hi = 10

\* Mutant: without the addresses relative to the program counter.
ExtraPlain(pb) ==
  CASE pb >= 128 /\ pb % 16 = 8        -> 1
    [] pb >= 128 /\ pb % 16 \in {9, 15} -> 2
    [] OTHER                           -> 0

\* What the operand of the index postbyte pb adds.
Extra(pb) ==
  CASE pb >= 128 /\ pb % 16 \in {8, 12}      -> 1
    [] pb >= 128 /\ pb % 16 \in {9, 13, 15}  -> 2
    [] OTHER                                 -> 0

\* dis6809: stepcnt is set before the postbyte is looked at.
Dis6809(m, adr) ==
  LET first == Read(m, adr)
      page  == IF first = 16 THEN 2 ELSE IF first = 17 THEN 3 ELSE 1
      r     == IF page = 1 THEN first ELSE Read(m, W(adr + 1))
      hi    == r \div 16
      lo    == r % 16
      s     == CASE page = 1 -> Size1(hi, lo) [] page = 2 -> Size2(hi, lo) [] page = 3 -> Size3(hi, lo)
      more  == IF IsIndexed(page, hi, lo) THEN Extra(Read(m, W(adr + s - 1))) ELSE 0
  IN  [len |-> s + more, stepcnt |-> s]
=============================================================================
