------------------------------ MODULE HexFiles ------------------------------
(***************************************************************************)
(* Programs on their way into the simulator and the FPGA: Motorola records *)
(* of the assembler through mot2hex.c, or a binary through bin2hexw.c,     *)
(* become Intel hex, which the console's l command loads (intel.c).        *)
(*                                                                         *)
(* A file is a sequence of records; two hex digits are the byte they spell.*)
(* An Intel record is [n, addr, type, data, sum], a Motorola record        *)
(* [kind, count, addr, data, sum].                                         *)
(***************************************************************************)
EXTENDS Integers, Sequences, SequencesExt, FiniteSetsExt, TLC

LOCAL Total(s) == FoldLeft(LAMBDA x, y : x + y, 0, s)

\* The byte that makes a sum zero.
Negated(sum) == (256 - (sum % 256)) % 256

Rec(n, addr, type, data, sum) ==
  [n |-> n, addr |-> addr, type |-> type, data |-> data, sum |-> sum]

Summed(addr, data) ==
  Rec(Len(data), addr, 0, data,
      Negated(Len(data) + (addr \div 256) + (addr % 256) + Total(data)))

Eof(addr, sum) == Rec(0, addr, 1, <<>>, sum)

\* Mutant: the last piece is forgotten unless it is full.
PiecesFull(bytes, n) ==
  [i \in 1 .. (Len(bytes) \div n) |-> SubSeq(bytes, (n * (i - 1)) + 1, n * i)]

\* The pieces of n bytes a file is read in; the last may be short.
Pieces(bytes, n) ==
  [i \in 1 .. ((Len(bytes) + n - 1) \div n) |->
     SubSeq(bytes, n * (i - 1) + 1, IF n * i < Len(bytes) THEN n * i ELSE Len(bytes))]

\* bin2hex: sixteen bytes a record, from address 0.
Bin2hex(bytes) ==
  LET p == Pieces(bytes, 16)
  IN  [i \in DOMAIN p |-> Summed(16 * (i - 1), p[i])] \o <<Eof(0, 255)>>

\* bin2hexw: two bytes a record; the addresses count words.
Bin2hexw(bytes) ==
  LET p == Pieces(bytes, 2)
  IN  [i \in DOMAIN p |-> Summed(i - 1, p[i])] \o <<Eof(0, 255)>>

\* mot2hex: other records than S1 are skipped.  A record that ends at the
\* top of memory ends the conversion.  The last record names the first
\* address and has no sum.
Mot2hex(srecs) ==
  LET s1   == SelectSeq(srecs, LAMBDA r : r.kind = 1)
      tops == {i \in DOMAIN s1 : s1[i].addr + s1[i].count - 3 > 65535}
      used == IF tops = {} THEN s1 ELSE SubSeq(s1, 1, Min(tops))
      start == IF s1 = <<>> THEN 65535 ELSE s1[1].addr
  IN  [i \in DOMAIN used |-> Summed(used[i].addr, SubSeq(used[i].data, 1, used[i].count - 3))]
        \o <<Eof(start, 0)>>

\* set_memb of the data, byte by byte: the address is a tt_u16.
Store(mem, addr, data) ==
  FoldLeft(LAMBDA acc, i : ((addr + i - 1) % 65536 :> data[i]) @@ acc, mem,
           [i \in DOMAIN data |-> i])

\* read_line: the data is in memory before the sum is looked at.
ReadLine(acc, r) ==
  LET sum == r.n + (r.addr \div 256) + (r.addr % 256) + r.type + Total(r.data) + r.sum
  IN  [mem |-> Store(acc.mem, r.addr, r.data),
       end |-> r.type = 1 \/ sum % 256 # 0]

\* load_intelhex, for records that fit linebuf.
LoadIntelhex(mem, recs) ==
  FoldLeft(LAMBDA acc, r : IF acc.end THEN acc ELSE ReadLine(acc, r),
           [mem |-> mem, end |-> FALSE], recs).mem
=============================================================================
