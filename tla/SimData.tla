------------------------------- MODULE SimData -------------------------------
(***************************************************************************)
(* What the simulator's computations must agree with: its arithmetic with  *)
(* the processor of the FPGA (the same FLEX binaries run on both), the     *)
(* branches with the order of the numbers compared, the disassembler with  *)
(* the processor that fetches, and the hex loader with the converters.     *)
(*                                                                         *)
(* The variable walks through the bytes, a bit at a time; the properties   *)
(* take it for one operand or for an opcode and quantify over the others.  *)
(***************************************************************************)
EXTENDS Disassembler, SequencesExt

CONSTANTS Samples,    \* second operands of the sixteen bit operations
          Postbytes,  \* second bytes of the instructions
          Lengths,    \* sizes of the files converted
          TextLengths, \* sizes of the files saved and loaded
          SectorBytes,
          Places      \* the sectors of the disks, as <<drive, track, sector>>

ASSUME SamplesAssumption == Samples \subseteq Byte

F == INSTANCE FpgaAlu
H == INSTANCE HexFiles
T == INSTANCE SimText
K == INSTANCE SimDisk

VARIABLE byte

Init == byte = 0
Next == \E bit \in 0 .. 1 : byte' = ((2 * byte) + bit) % 256
Spec == Init /\ [][Next]_byte

Flags(c, h, k) == [c |-> c, v |-> k, z |-> k, n |-> k, i |-> 0, h |-> h, f |-> 0, e |-> 0]

-----------------------------------------------------------------------------
\* The value and the flags C, V, Z, N of both; H too where the FPGA sets it.
LOCAL Agree(g, f, width) ==
  /\ g.r % width = f.out % width
  /\ g.cc.c = f.c /\ g.cc.v = f.v /\ g.cc.z = f.z /\ g.cc.n = f.n
LOCAL AgreeH(g, f) == Agree(g, f, 256) /\ Flag(g.cc.h # 0) = f.h

\* Sums and differences, and what is computed bit by bit.
TwoOperands(a, b) ==
  \A c \in 0 .. 1 :
    LET cc == Flags(c, 0, 1 - c) IN
      /\ AgreeH(Add(cc, a, b), F!Alu("add8", cc, a, b))
      /\ AgreeH(Adc(cc, a, b), F!Alu("adc", cc, a, b))
      /\ Agree(Sub(cc, a, b), F!Alu("sub8", cc, a, b), 256)
      /\ Agree(Sbc(cc, a, b), F!Alu("sbc", cc, a, b), 256)
      /\ Cmp8(cc, a, b).r = a /\ Cmp8(cc, a, b).cc = [Sub(cc, a, b).cc EXCEPT !.h = 0]
      /\ Agree(And(cc, a, b), F!Alu("and", cc, a, b), 256)
      /\ Agree(Or(cc, a, b), F!Alu("ora", cc, a, b), 256)
      /\ Agree(Eor(cc, a, b), F!Alu("eor", cc, a, b), 256)

OneOperand(a) ==
  \A c, h, k \in 0 .. 1 :
    LET cc == Flags(c, h, k) IN
      /\ AgreeH(Asl(cc, a), F!Alu("asl8", cc, a, 0))
      /\ AgreeH(Rol(cc, a), F!Alu("rol8", cc, a, 0))
      /\ AgreeH(Asr(cc, a), F!Alu("asr8", cc, a, 0))
      /\ AgreeH(Lsr(cc, a), F!Alu("lsr8", cc, a, 0))
      /\ AgreeH(Ror(cc, a), F!Alu("ror8", cc, a, 0))
      /\ AgreeH(Neg(cc, a), F!Alu("neg", cc, a, 0))
      /\ AgreeH(Com(cc, a), F!Alu("com", cc, a, 0))
      /\ AgreeH(Clr(cc, a), F!Alu("clr", cc, a, 0))
      /\ AgreeH(Dec(cc, a), F!Alu("dec", cc, a, 1))
      /\ AgreeH(Inc(cc, a), F!Alu("inc", cc, a, 1))
      /\ AgreeH(Tst(cc, a), F!Alu("ld8", cc, 0, a))

Words(a, b) ==
  \A lo \in {0, 255}, v \in {256 * b, (256 * b) + 1, (256 * b) + 255} :
    LET cc == Flags(0, 0, 1)
        d  == (256 * a) + lo
    IN  /\ Agree(Addd(cc, d, v), F!Alu("add16", cc, d, v), 65536)
        /\ Agree(Subd(cc, d, v), F!Alu("sub16", cc, d, v), 65536)

\* Two digits in a byte, and DAA after the sum of two such bytes.  The
\* carry DAA gives is left out: the simulator's forgets the one of the sum.
IsDecimal(a)   == a % 16 <= 9 /\ a \div 16 <= 9
ValueOf(a)     == (10 * (a \div 16)) + (a % 16)
DecimalSums(a, b) ==
  IsDecimal(a) /\ IsDecimal(b) =>
    \A c \in 0 .. 1 :
      LET x   == Adc(Flags(c, 0, 0), a, b)
          fcc == [x.cc EXCEPT !.h = Flag(@ # 0)]
          g   == Daa(x.cc, x.r)
          f   == F!Alu("daa", fcc, x.r, 0)
      IN  /\ g.r = f.out % 256 /\ g.cc.z = f.z /\ g.cc.n = f.n
          /\ IsDecimal(g.r)
          /\ ValueOf(g.r) = (ValueOf(a) + ValueOf(b) + c) % 100

\* The simulator computes what the FPGA's processor computes: value and
\* flags of the byte and word arithmetic of inst6809.c and calc6809.h, and
\* decimal sums.  (MUL's carry, SEX's V, DAA's V and carry, and the half
\* carry of subtractions differ and are not compared.)
SameAlu ==
  /\ OneOperand(byte)
  /\ \A b \in Byte : TwoOperands(byte, b) /\ DecimalSums(byte, b)
  /\ \A b \in Samples : Words(byte, b)

-----------------------------------------------------------------------------
\* After CMPA, CMPB, CMPD ... CMPS and SUB, a conditional branch is taken
\* exactly when the numbers stand in the order it is named for, unsigned or
\* two's complement, overflow included (inst6809.c, V and C of calc6809.h).  Of CMPS
\* the opcodes 11 AC and 11 BC are decoded as CMPU (emu6809.c:202).
BranchesCompare ==
  LET cc == Flags(1, 0, 1) IN
  /\ \A b \in Byte : /\ Orders(Cmp8(cc, byte, b).cc, byte, b, ByteSign)
                     /\ Orders(Sub(cc, byte, b).cc, byte, b, ByteSign)
  /\ \A b \in Samples, lo, lo2 \in {0, 1, 255} :
       Orders(Cmp16(cc, (256 * byte) + lo, (256 * b) + lo2).cc,
              (256 * byte) + lo, (256 * b) + lo2, WordSign)

-----------------------------------------------------------------------------
\* A machine about to execute prefix r pb 0 0 at 256.
AtInstruction(prefix, r, pb) ==
  LET code == (IF prefix = 1 THEN <<>> ELSE <<14 + prefix>>) \o <<r, pb, 0, 0>>
      mem  == [a \in 256 .. 255 + Len(code) |-> code[a - 255]]
  IN  [PowerOn(mem) EXCEPT !.pc = 256, !.s = 1024, !.u = 1280]

\* The instruction sends the program counter away for good.
Leaves(page, r, pb) ==
  LET op == Decode(page, r).op IN
  \/ op \in {"jmp", "jsr", "rts", "rti", "swi2", "swi3"}
  \/ op \in {"puls", "pulu"} /\ pb >= 128
  \/ op \in {"exg", "tfr"} /\ 5 \in {pb % 16, pb \div 16}
  \/ Decode(page, r).mode \in {"relb", "relw"} /\ pb # 0

\* dis6809 returns the number of bytes the processor fetches, of every legal
\* instruction with every postbyte; of a JSR, the distance of the return
\* address.  The console continues its listings there.
LengthsAgree ==
  \A page \in 1 .. 3, pb \in Postbytes :
    LET m    == AtInstruction(page, byte, pb)
        m1   == Execute(m)
        next == 256 + Dis6809(m, 256).len
    IN  (page # 1 \/ byte \notin {16, 17}) /\ m1.err \in {"none", "swi"} =>
          /\ ~Leaves(page, byte, pb) => m1.pc = next
          /\ Decode(page, byte).op = "jsr" => ReadW(m1, m1.s) = next

-----------------------------------------------------------------------------
\* A file of n bytes, and the same bytes as S1 records of `per' bytes from
\* address addr on, among other records.
FileOf(n) == [i \in 1 .. n |-> ((37 * i) + (byte * i) + byte) % 256]

Assembled(bytes, addr, per) ==
  LET p == H!Pieces(bytes, per)
  IN  <<[kind |-> 0, count |-> 3, addr |-> 0, data |-> <<>>, sum |-> 252]>>
        \o [i \in DOMAIN p |-> [kind |-> 1, count |-> Len(p[i]) + 3,
                                 addr |-> addr + (per * (i - 1)), data |-> p[i], sum |-> 0]]
        \o <<[kind |-> 9, count |-> 3, addr |-> 0, data |-> <<>>, sum |-> 252]>>

\* The bytes of the file, at addr and up, and nothing else.
Placed(bytes, addr) == [a \in addr .. (addr + Len(bytes) - 1) |-> bytes[a - addr + 1]]

\* What the l command loads from a converted file is the program: every
\* record passes the loader's checksum and every byte is at its address;
\* also a program that ends at the last byte of memory.  The FPGA's word
\* file holds the bytes in pairs with sums that fit.
HexLoads ==
  \A n \in Lengths :
    LET bytes == FileOf(n) IN
    /\ H!LoadIntelhex(<<>>, H!Bin2hex(bytes)) = Placed(bytes, 0)
    /\ \A addr \in {256 * byte, 65536 - n}, per \in {1, 16, 32} :
         addr + n <= 65536 =>
           H!LoadIntelhex(<<>>, H!Mot2hex(Assembled(bytes, addr, per))) = Placed(bytes, addr)
    /\ LET w == H!Bin2hexw(bytes)
       IN  /\ \A i \in DOMAIN w : ~(w[i].type = 0 /\ H!ReadLine([mem |-> <<>>, end |-> FALSE], w[i]).end)
           /\ FoldLeft(LAMBDA s, r : s \o r.data, <<>>, w) = bytes
           /\ \A i \in DOMAIN w : w[i].type = 0 => w[i].addr = i - 1

-----------------------------------------------------------------------------
\* A program puts out the characters s; it reads keys up to a ^Z.
Put(t, s) == FoldLeft(T!CheckOutch, t, s)
File(letter, data) == <<T!CtrlY, letter, 65, T!CtrlZ>> \o data

Got(t) ==
  LET Key(acc, i) == IF acc.end THEN acc
                     ELSE IF T!TextKey(acc.t) = T!CtrlZ THEN [acc EXCEPT !.t = T!AfterKey(@), !.end = TRUE]
                     ELSE [acc EXCEPT !.t = T!AfterKey(@), !.keys = Append(@, T!TextKey(acc.t))]
  IN  FoldLeft(Key, [t |-> t, keys |-> <<>>, end |-> FALSE], t.text)

TextOf(n) == [i \in 1 .. n |-> LET c == FileOf(n)[i] IN IF c % 8 = 0 THEN 13 ELSE 32 + (c % 95)]

\* A file that a program has saved comes back when a program loads it: S and
\* L keep the characters of a text, W and R the bytes any digits spell; a
\* file saved in digits is the bytes, for other programs of the host; and
\* when it has been read, output goes to the terminal again.
TextComesBack ==
  \A n \in TextLengths :
    LET text  == TextOf(n)
        bytes == FileOf(n)
        asText  == Put(T!NoText(<<>>), File(T!LetterS, text) \o <<T!CtrlZ>>)
        asBytes == Put(T!NoText(<<>>), File(T!LetterW, T!HexText(bytes)) \o <<T!CtrlZ>>)
        read    == Got(Put(asText, File(T!LetterL, <<>>)))
        digits  == Got(Put(asBytes, File(T!LetterR, <<>>)))
    IN  /\ asText.files[<<65>>] = text /\ read.end /\ read.keys = text
        /\ read.t.text = <<>> /\ T!CheckOutch(read.t, 65).sv = -1
        /\ asBytes.files[<<65>>] = bytes /\ digits.end /\ digits.keys = T!HexText(bytes)

-----------------------------------------------------------------------------
\* A driver for the FD1771: the track by a seek, then the command, then all
\* bytes of the sector.
Ports(k, writes) == FoldLeft(LAMBDA acc, w : K!PortWrite(acc, w[1], w[2]), k, writes)
At1771(k, place) ==
  Ports(k, << <<"drv", place[1]>>, <<"dat", place[2]>>, <<"com", 24>>, <<"sec", place[3]>> >>)

PortsRead(k, place) ==
  FoldLeft(LAMBDA acc, i : LET r == K!PortRead(acc.k, "dat")
                           IN  [k |-> r.k, data |-> Append(acc.data, r.val)],
           [k |-> Ports(At1771(k, place), << <<"com", 136>> >>), data |-> <<>>],
           [i \in 1 .. SectorBytes |-> i])

PortsWrite(k, place, data) ==
  Ports(At1771(k, place), << <<"com", 168>> >> \o [i \in 1 .. SectorBytes |-> <<"dat", data[i]>>])

Block(seq) == [i \in 0 .. SectorBytes - 1 |-> seq[i + 1]]
TestDisks == K!Disks([d \in 0 .. 3 |-> IF d = 3 THEN <<>>
                        ELSE [b \in 1 .. 72 |-> [i \in 0 .. SectorBytes - 1 |-> (b + d + i + byte) % 256]]])

\* A sector written through the controller's registers, after another was
\* read, is in the image where the drivers' interrupt finds it, comes back
\* through the registers, and is the only one that changed: the seek's use of
\* the data register counts as no byte of either.
PortsTransfer ==
  \A p, q \in Places :
    LET new   == [i \in 1 .. SectorBytes |-> (byte + (3 * i)) % 256]
        first == PortsRead(TestDisks, p)
        k     == PortsWrite(first.k, q, new)
        again == PortsRead(k, q)
        b     == K!BlockOf(q[2], q[3]) + 1
    IN  /\ Block(first.data) = TestDisks.images[p[1]][K!BlockOf(p[2], p[3]) + 1]
        /\ k.images = [TestDisks.images EXCEPT ![q[1]][b] = Block(new)]
        /\ again.data = new /\ again.k.fdc.com % 2 = 0
        /\ \A p2 \in Places : p2 # q => PortsRead(again.k, p2).data = PortsRead(TestDisks, p2).data
=============================================================================
