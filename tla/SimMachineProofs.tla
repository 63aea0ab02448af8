-------------------------- MODULE SimMachineProofs --------------------------
(***************************************************************************)
(* What holds of the simulator for any images, keys, services, break and   *)
(* trace points and bounds.                                                *)
(*                                                                         *)
(* Types says that the machine is a 6809 whose registers and bytes have    *)
(* the widths of their C types, and that the loop's variables, the image   *)
(* files and the sector buffer are what they should be; it is inductive    *)
(* once every instruction of the processor is known to map such machines   *)
(* to such machines (ExecuteTyped), which takes up most of this module:    *)
(* arithmetic, stack, exchange, addressing modes, decoding, execution.     *)
(* Passed adds what a step must know of the loop: when it goes round       *)
(* again, no break point stands where it is.                               *)
(*                                                                         *)
(* The second part proves that the drivers give FMS its registers back     *)
(* (RegistersStay) and that the command n executes one instruction         *)
(* (StepsOne).  Frame says at each place of each driver what has been      *)
(* pushed and what the registers hold, Caller what FMS has asked for, and  *)
(* Notice where a key that was noticed can take the program counter back   *)
(* to; Stepping how the inner loop can be left under n.  What an           *)
(* instruction of the drivers does is derived from Execute byte by byte.   *)
(*                                                                         *)
(* The last part proves that drivers, interrupt and image files implement  *)
(* SectorDisk (SimIsSectorDisk).  Served says at each place of a driver    *)
(* for the disk what it has been given and what the host has answered.     *)
(***************************************************************************)
EXTENDS SimMachine, SequenceTheorems, TLAPS

\* A bit.
LEMMA BtstBit == ASSUME NEW a \in Int, NEW w \in Nat \ {0} PROVE Btst(a, w) \in 0 .. 1
  BY SMT DEF Btst

LEMMA FlagBit == ASSUME NEW p PROVE Flag(p) \in 0 .. 1
  BY DEF Flag

LEMMA NZTyped ==
  ASSUME NEW cc \in CC, NEW res \in Int, NEW s, s \in {ByteSign, WordSign}
  PROVE  SetNZ(cc, res, s) \in CC
<1>1. Btst(res, s) \in 0 .. 1
  BY BtstBit DEF ByteSign, WordSign
<1>2. Flag(res % (2 * s) = 0) \in 0 .. 1
  BY FlagBit
<1> QED  BY <1>1, <1>2 DEF SetNZ, CC

LEMMA NZVCTyped ==
  ASSUME NEW cc \in CC, NEW a \in Int, NEW b \in Int, NEW res \in Int, NEW s, s \in {ByteSign, WordSign}
  PROVE  SetNZVC(cc, a, b, res, s) \in CC
<1>1. SetNZ(cc, res, s) \in CC
  BY NZTyped
<1>2. Btst(a, s) \in 0 .. 1 /\ Btst(b, s) \in 0 .. 1 /\ Btst(res, s) \in 0 .. 1 /\ Btst(res, 2 * s) \in 0 .. 1
  BY BtstBit DEF ByteSign, WordSign
<1>3. Odd4(Btst(a, s), Btst(b, s), Btst(res, s), Btst(res, 2 * s)) \in 0 .. 1
  BY <1>2, SMT DEF Odd4
<1> QED  BY <1>1, <1>2, <1>3 DEF SetNZVC, CC

LEMMA HTyped ==
  ASSUME NEW cc \in CC, NEW a \in Int, NEW b \in Int, NEW res \in Int
  PROVE  SetH(cc, a, b, res) \in CC
<1>1. Btst(a, 16) \in 0 .. 1 /\ Btst(b, 16) \in 0 .. 1 /\ Btst(res, 16) \in 0 .. 1
  BY BtstBit
<1>2. 2 * Odd4(Btst(a, 16), Btst(b, 16), Btst(res, 16), 0) \in 0 .. 2
  BY <1>1, SMT DEF Odd4
<1> QED  BY <1>2 DEF SetH, CC

LEMMA MoveTyped ==
  ASSUME NEW cc \in CC, NEW res \in Int, NEW s, s \in {ByteSign, WordSign}
  PROVE  Move(cc, res, s).r = res /\ Move(cc, res, s).cc \in CC
<1>1. SetNZ(cc, res, s) \in CC
  BY NZTyped
<1> QED  BY <1>1 DEF Move, Gives, CC

\* The flags as a byte.
LEMMA GetccByte == ASSUME NEW cc \in CC PROVE Getcc(cc) \in Byte
<1>1. /\ cc.c \in 0 .. 1 /\ cc.v \in 0 .. 1 /\ cc.z \in 0 .. 1 /\ cc.n \in 0 .. 1
      /\ cc.i \in 0 .. 1 /\ cc.e \in 0 .. 1 /\ cc.f \in 0 .. 1 /\ cc.h \in 0 .. 2
  BY DEF CC
<1>2. Flag(cc.f = 1 \/ cc.h = 2) \in 0 .. 1
  BY FlagBit
<1>3. cc.h % 2 \in 0 .. 1
  BY <1>1, SMT
<1> QED  BY <1>1, <1>2, <1>3, SMT DEF Getcc, Byte

LEMMA SetccTyped == ASSUME NEW i \in Int PROVE Setcc(i) \in CC
<1>1. /\ Btst(i, 1) \in 0 .. 1 /\ Btst(i, 2) \in 0 .. 1 /\ Btst(i, 4) \in 0 .. 1 /\ Btst(i, 8) \in 0 .. 1
      /\ Btst(i, 16) \in 0 .. 1 /\ Btst(i, 32) \in 0 .. 1 /\ Btst(i, 64) \in 0 .. 1 /\ Btst(i, 128) \in 0 .. 1
  BY BtstBit
<1> QED  BY <1>1 DEF Setcc, CC

\* A byte is its bits.
LEMMA ByteBits ==
  ASSUME NEW a \in Byte
  PROVE  a = Btst(a, 1) + 2 * Btst(a, 2) + 4 * Btst(a, 4) + 8 * Btst(a, 8)
               + 16 * Btst(a, 16) + 32 * Btst(a, 32) + 64 * Btst(a, 64) + 128 * Btst(a, 128)
  BY SMT DEF Byte, Btst

\* & of two bytes.
\* Bits of a conjunction, x, and the bits y and z they come from, of weight w
\* together.
AndBit(x, y, z, w) ==
  /\ x \in Int /\ y \in Int /\ z \in Int /\ 0 <= x /\ x <= w
  /\ 0 <= y + z - 2 * x /\ y + z - 2 * x <= w /\ 0 <= y + z - x /\ y + z - x <= w

LEMMA BitsAdd ==
  ASSUME NEW v \in Nat, NEW w \in Nat, NEW x, NEW y, NEW z, NEW x2, NEW y2, NEW z2,
         AndBit(x, y, z, v), AndBit(x2, y2, z2, w)
  PROVE  AndBit(x + x2, y + y2, z + z2, v + w)
  BY SMT DEF AndBit

LEMMA BitwiseBytes ==
  ASSUME NEW a \in Byte, NEW b \in Byte
  PROVE  And8(a, b) \in Byte /\ Or8(a, b) \in Byte /\ Xor8(a, b) \in Byte
<1> DEFINE both(w) == w * Btst(a, w) * Btst(b, w)
           A(w) == w * Btst(a, w)
           B(w) == w * Btst(b, w)
           Fine(w) == AndBit(both(w), A(w), B(w), w)
<1>1. ASSUME NEW w \in {1, 2, 4, 8, 16, 32, 64, 128}
      PROVE  Fine(w)
  <2>1. w \in Nat \ {0} /\ a \in Int /\ b \in Int
    BY DEF Byte
  <2>2. Btst(a, w) \in 0 .. 1 /\ Btst(b, w) \in 0 .. 1
    BY <2>1, BtstBit
  <2> DEFINE p == Btst(a, w)  q == Btst(b, w)
  <2>3. (p = 0 \/ p = 1) /\ (q = 0 \/ q = 1)
    BY <2>2, SMT
  <2> HIDE DEF p, q
  <2>4. LET x == w * p * q y == w * p z == w * q IN
        /\ x \in Int /\ y \in Int /\ z \in Int
        /\ 0 <= x /\ x <= w
        /\ 0 <= y + z - 2 * x /\ y + z - 2 * x <= w
        /\ 0 <= y + z - x /\ y + z - x <= w
    <3>1. CASE p = 0 /\ q = 0
      BY <2>1, <3>1, SMT
    <3>4. CASE p = 0 /\ q = 1
      BY <2>1, <3>4, SMT
    <3>2. CASE p = 1 /\ q = 0
      BY <2>1, <3>2, SMT
    <3>3. CASE p = 1 /\ q = 1
      BY <2>1, <3>3, SMT
    <3> QED  BY <2>3, <3>1, <3>2, <3>3, <3>4
  <2> QED  BY <2>4 DEF p, q, AndBit
<1> DEFINE X == both(1) + both(2) + both(4) + both(8) + both(16) + both(32) + both(64) + both(128)
           Y == A(1) + A(2) + A(4) + A(8) + A(16) + A(32) + A(64) + A(128)
           Z == B(1) + B(2) + B(4) + B(8) + B(16) + B(32) + B(64) + B(128)
<1>2. a = Y
  BY ByteBits, SMT DEF Byte, Btst
<1>3. b = Z
  BY ByteBits, SMT DEF Byte, Btst
<1>4. And8(a, b) = X
  BY Zenon DEF And8
<1>5. /\ Fine(1) /\ Fine(2) /\ Fine(4) /\ Fine(8) /\ Fine(16) /\ Fine(32) /\ Fine(64) /\ Fine(128)
  BY <1>1
<1>6. AndBit(X, Y, Z, 255)
  <2> HIDE DEF both, A, B
  <2>1. AndBit(both(1), A(1), B(1), 1)
    BY <1>5
  <2>2. AndBit(both(1) + both(2),
             A(1) + A(2),
             B(1) + B(2), 3)
    BY <2>1, <1>5, BitsAdd, 1 + 2 = 3
  <2>3. AndBit(both(1) + both(2) + both(4),
             A(1) + A(2) + A(4),
             B(1) + B(2) + B(4), 7)
    BY <2>2, <1>5, BitsAdd, 3 + 4 = 7
  <2>4. AndBit(both(1) + both(2) + both(4) + both(8),
             A(1) + A(2) + A(4) + A(8),
             B(1) + B(2) + B(4) + B(8), 15)
    BY <2>3, <1>5, BitsAdd, 7 + 8 = 15
  <2>5. AndBit(both(1) + both(2) + both(4) + both(8) + both(16),
             A(1) + A(2) + A(4) + A(8) + A(16),
             B(1) + B(2) + B(4) + B(8) + B(16), 31)
    BY <2>4, <1>5, BitsAdd, 15 + 16 = 31
  <2>6. AndBit(both(1) + both(2) + both(4) + both(8) + both(16) + both(32),
             A(1) + A(2) + A(4) + A(8) + A(16) + A(32),
             B(1) + B(2) + B(4) + B(8) + B(16) + B(32), 63)
    BY <2>5, <1>5, BitsAdd, 31 + 32 = 63
  <2>7. AndBit(both(1) + both(2) + both(4) + both(8) + both(16) + both(32) + both(64),
             A(1) + A(2) + A(4) + A(8) + A(16) + A(32) + A(64),
             B(1) + B(2) + B(4) + B(8) + B(16) + B(32) + B(64), 127)
    BY <2>6, <1>5, BitsAdd, 63 + 64 = 127
  <2>8. AndBit(both(1) + both(2) + both(4) + both(8) + both(16) + both(32) + both(64) + both(128),
             A(1) + A(2) + A(4) + A(8) + A(16) + A(32) + A(64) + A(128),
             B(1) + B(2) + B(4) + B(8) + B(16) + B(32) + B(64) + B(128), 255)
    BY <2>7, <1>5, BitsAdd, 127 + 128 = 255
  <2> QED  BY <2>8
<1> HIDE DEF X, Y, Z
<1>7. Or8(a, b) = Y + Z - X /\ Xor8(a, b) = Y + Z - 2 * X
  BY <1>2, <1>3, <1>4 DEF Or8, Xor8
<1> QED  BY <1>4, <1>6, <1>7, SMT DEF AndBit, Byte

-----------------------------------------------------------------------------
\* Values and flags.
ByteGives == [r : Byte, cc : CC]
WordGives == [r : Word, cc : CC]

LEMMA ByteInt == ASSUME NEW a \in Byte PROVE a \in Int /\ 0 <= a /\ a < 256 /\ a \in Word
  BY SMT DEF Byte, Word

LEMMA WordInt == ASSUME NEW a \in Word PROVE a \in Int /\ 0 <= a /\ a < 65536
  BY SMT DEF Word

LEMMA ModByte == ASSUME NEW n \in Int PROVE n % 256 \in Byte
  BY SMT DEF Byte

LEMMA ModWord == ASSUME NEW n \in Int PROVE n % 65536 \in Word /\ W(n) \in Word
  BY SMT DEF Word, W

LEMMA WrapInt == ASSUME NEW n \in Int PROVE Wrap(n, ByteSign) \in Int /\ Wrap(n, WordSign) \in Int
  BY SMT DEF Wrap, ByteSign, WordSign

\* One flag changes.
LEMMA FlagSet ==
  ASSUME NEW cc \in CC, NEW x \in 0 .. 1
  PROVE  /\ [cc EXCEPT !.n = x] \in CC /\ [cc EXCEPT !.v = x] \in CC
         /\ [cc EXCEPT !.c = x] \in CC /\ [cc EXCEPT !.z = x] \in CC
  BY SMT DEF CC

LEMMA Bits == 0 \in 0 .. 1 /\ 1 \in 0 .. 1
  BY SMT

\* Several change at once.
LEMMA FlagsSet ==
  ASSUME NEW cc \in CC, NEW x \in 0 .. 1, NEW y \in 0 .. 1, NEW z \in 0 .. 1, NEW w \in 0 .. 1
  PROVE  /\ [cc EXCEPT !.c = x, !.v = y] \in CC
         /\ [cc EXCEPT !.z = x, !.c = y] \in CC
         /\ [cc EXCEPT !.c = x, !.z = y, !.n = z] \in CC
         /\ [cc EXCEPT !.n = x, !.c = y, !.z = z] \in CC
         /\ [cc EXCEPT !.n = x, !.v = y, !.c = z, !.z = w] \in CC
<1> DEFINE cx == [cc EXCEPT !.c = x]
           zx == [cc EXCEPT !.z = x]
           nx == [cc EXCEPT !.n = x]
<1>1. cx \in CC /\ zx \in CC /\ nx \in CC
  BY FlagSet
<1> HIDE DEF cx, zx, nx
<1> DEFINE cxzy == [cx EXCEPT !.z = y]
           nxcy == [nx EXCEPT !.c = y]
           nxvy == [nx EXCEPT !.v = y]
<1>2. [cx EXCEPT !.v = y] \in CC /\ [zx EXCEPT !.c = y] \in CC /\ cxzy \in CC /\ nxcy \in CC /\ nxvy \in CC
  BY <1>1, FlagSet
<1> HIDE DEF cxzy, nxcy, nxvy
<1> DEFINE nxvycz == [nxvy EXCEPT !.c = z]
<1>3. [cxzy EXCEPT !.n = z] \in CC /\ [nxcy EXCEPT !.z = z] \in CC /\ nxvycz \in CC
  BY <1>2, FlagSet
<1> HIDE DEF nxvycz
<1>4. [nxvycz EXCEPT !.z = w] \in CC
  BY <1>3, Bits, FlagSet, Zenon
<1>5. /\ [cc EXCEPT !.c = x, !.v = y] = [cx EXCEPT !.v = y]
      /\ [cc EXCEPT !.z = x, !.c = y] = [zx EXCEPT !.c = y]
  BY SMT DEF cx, zx
<1>6. /\ [cc EXCEPT !.c = x, !.z = y, !.n = z] = [cxzy EXCEPT !.n = z]
      /\ [cc EXCEPT !.n = x, !.c = y, !.z = z] = [nxcy EXCEPT !.z = z]
  BY SMT DEF cx, nx, cxzy, nxcy
<1>7. [cc EXCEPT !.n = x, !.v = y, !.c = z, !.z = w] = [nxvycz EXCEPT !.z = w]
  BY SMT DEF nx, nxvy, nxvycz
<1> QED  BY <1>2, <1>3, <1>4, <1>5, <1>6, <1>7

LEMMA CarryTyped == ASSUME NEW cc \in CC PROVE cc.c \in 0 .. 1
  BY DEF CC

\* The instructions with an accumulator and an operand.
ByteOps == {"sub", "cmp", "sbc", "and", "bit", "ld", "eor", "adc", "or", "add"}

LEMMA SumTyped ==
  ASSUME NEW cc \in CC, NEW a \in Byte, NEW v \in Byte, NEW res \in Int
  PROVE  /\ SetNZVC(cc, a, v, res, ByteSign) \in CC
         /\ SetH(SetNZVC(cc, a, v, res, ByteSign), a, v, res) \in CC
         /\ res % 256 \in Byte
  BY NZVCTyped, HTyped, ByteInt, ModByte

LEMMA BinaryTyped ==
  ASSUME NEW cc \in CC, NEW a \in Byte, NEW v \in Byte, NEW op \in ByteOps
  PROVE  Binary(op, cc, a, v) \in ByteGives
<1>0. a \in Int /\ v \in Int /\ cc.c \in Int
  BY ByteInt, CarryTyped
<1>1. CASE op = "sub"
  <2> DEFINE res == Wrap(a - v, ByteSign)
  <2>1. res \in Int
    <3>1. a - v \in Int
      BY <1>0
    <3> QED  BY <3>1, WrapInt
  <2>2. res % 256 \in Byte /\ SetH(SetNZVC(cc, a, v, res, ByteSign), a, v, res) \in CC
    BY <2>1, SumTyped
  <2> QED  BY <1>1, <2>2 DEF Binary, Sub, Gives, ByteGives
<1>2. CASE op = "cmp"
  <2> DEFINE res == Wrap(a - v, ByteSign)
  <2>1. res \in Int
    <3>1. a - v \in Int
      BY <1>0
    <3> QED  BY <3>1, WrapInt
  <2>2. SetNZVC(cc, a, v, res, ByteSign) \in CC
    BY <2>1, SumTyped
  <2> QED  BY <1>2, <2>2 DEF Binary, Cmp8, Gives, ByteGives
<1>3. CASE op = "sbc"
  <2> DEFINE res == Wrap(a - v - cc.c, ByteSign)
  <2>1. res \in Int
    <3>1. a - v - cc.c \in Int
      BY <1>0
    <3> QED  BY <3>1, WrapInt
  <2>2. res % 256 \in Byte /\ SetH(SetNZVC(cc, a, v, res, ByteSign), a, v, res) \in CC
    BY <2>1, SumTyped
  <2> QED  BY <1>3, <2>2 DEF Binary, Sbc, Gives, ByteGives
<1>4. CASE op = "adc"
  <2> DEFINE res == a + v + cc.c
  <2>1. res \in Int
    BY <1>0
  <2>2. res % 256 \in Byte /\ SetH(SetNZVC(cc, a, v, res, ByteSign), a, v, res) \in CC
    BY <2>1, SumTyped
  <2> QED  BY <1>4, <2>2 DEF Binary, Adc, Gives, ByteGives
<1>5. CASE op = "add"
  <2> DEFINE res == a + v
  <2>1. res \in Int
    BY <1>0
  <2>2. res % 256 \in Byte /\ SetH(SetNZVC(cc, a, v, res, ByteSign), a, v, res) \in CC
    BY <2>1, SumTyped
  <2> QED  BY <1>5, <2>2 DEF Binary, Add, Gives, ByteGives
<1>6. CASE op \in {"and", "or", "eor", "bit", "ld"}
  <2>1. And8(a, v) \in Byte /\ Or8(a, v) \in Byte /\ Xor8(a, v) \in Byte
    BY BitwiseBytes
  <2>2. ASSUME NEW res \in Byte PROVE Move(cc, res, ByteSign).cc \in CC /\ Move(cc, res, ByteSign) \in ByteGives
    <3>1. SetNZ(cc, res, ByteSign) \in CC
      BY NZTyped, ByteInt
    <3>2. [SetNZ(cc, res, ByteSign) EXCEPT !.v = 0] \in CC
      BY <3>1, Bits, FlagSet, Zenon
    <3> QED  BY <3>2 DEF Move, Gives, ByteGives
  <2> QED  BY <1>6, <2>1, <2>2 DEF Binary, And, Or, Eor, Bit, Gives, ByteGives
<1> QED  BY <1>1, <1>2, <1>3, <1>4, <1>5, <1>6 DEF ByteOps

\* Those with a word.
WordOps == {"subd", "addd", "cmp16", "ld16"}

LEMMA WideTyped ==
  ASSUME NEW cc \in CC, NEW d \in Word, NEW v \in Word, NEW op \in WordOps
  PROVE  Wide(op, cc, d, v) \in WordGives
<1>0. d \in Int /\ v \in Int
  BY WordInt
<1>1. ASSUME NEW res \in Int PROVE SetNZVC(cc, d, v, res, WordSign) \in CC /\ res % 65536 \in Word
  BY <1>0, NZVCTyped, ModWord
<1>2. CASE op \in {"subd", "cmp16"}
  <2> DEFINE res == Wrap(d - v, WordSign)
  <2>1. res \in Int
    <3>1. d - v \in Int
      BY <1>0
    <3> QED  BY <3>1, WrapInt
  <2>2. SetNZVC(cc, d, v, res, WordSign) \in CC /\ res % 65536 \in Word
    BY <2>1, <1>1
  <2> QED  BY <1>2, <2>2 DEF Wide, Subd, Cmp16, Gives, WordGives
<1>3. CASE op = "addd"
  <2>1. SetNZVC(cc, d, v, d + v, WordSign) \in CC /\ (d + v) % 65536 \in Word
    BY <1>0, <1>1
  <2> QED  BY <1>3, <2>1 DEF Wide, Addd, Gives, WordGives
<1>4. CASE op = "ld16"
  <2>1. SetNZ(cc, v, WordSign) \in CC
    BY <1>0, NZTyped
  <2>2. [SetNZ(cc, v, WordSign) EXCEPT !.v = 0] \in CC
    BY <2>1 DEF CC
  <2> QED  BY <1>4, <2>2 DEF Wide, Move, Gives, WordGives
<1> QED  BY <1>2, <1>3, <1>4 DEF WordOps

\* Those with one byte.
UnaryOps == {"neg", "com", "lsr", "ror", "asr", "asl", "rol", "dec", "inc", "tst", "clr"}

LEMMA OneByteTyped ==
  ASSUME NEW cc \in CC, NEW a \in Byte, NEW op \in UnaryOps
  PROVE  OneByte(op, cc, a) \in ByteGives
<1>0. a \in Int /\ cc.c \in 0 .. 1 /\ cc.c \in Int
  BY ByteInt, CarryTyped
<1>1. /\ a \div 2 \in 0 .. 127 /\ a % 2 \in 0 .. 1
      /\ Btst(a, 128) \in 0 .. 1
  BY <1>0, BtstBit, SMT DEF Byte
<1>2. ASSUME NEW res \in Byte
      PROVE  SetNZ(cc, res, ByteSign) \in CC /\ Btst(res, 128) \in 0 .. 1
  <2>1. res \in Int /\ 128 \in Nat \ {0}
    BY ByteInt
  <2> QED  BY <2>1, NZTyped, BtstBit
<1>3. CASE op = "neg"
  <2> DEFINE res == Wrap(0 - a, ByteSign)
  <2>1. res \in Int /\ 0 \in Int
    <3>1. 0 - a \in Int
      BY <1>0
    <3> QED  BY <3>1, WrapInt
  <2>2. res % 256 \in Byte /\ SetNZVC(cc, 0, a, res, ByteSign) \in CC
    BY <1>0, <2>1, NZVCTyped, ModByte
  <2> QED  BY <1>3, <2>2 DEF OneByte, Neg, Gives, ByteGives
<1>4. CASE op \in {"com", "tst"}
  <2>1. 255 - a \in Byte
    BY SMT DEF Byte
  <2>2. ASSUME NEW res \in Byte PROVE Move(cc, res, ByteSign).cc \in CC /\ Move(cc, res, ByteSign) \in ByteGives
    <3>2. [SetNZ(cc, res, ByteSign) EXCEPT !.v = 0] \in CC
      BY <1>2, Bits, FlagSet, Zenon
    <3> QED  BY <3>2 DEF Move, Gives, ByteGives
  <2>3. [Move(cc, 255 - a, ByteSign).cc EXCEPT !.c = 1] \in CC
    BY <2>1, <2>2, Bits, FlagSet, Zenon
  <2> QED  BY <1>4, <2>1, <2>2, <2>3 DEF OneByte, Com, Tst, Gives, ByteGives
<1>5. CASE op = "lsr"
  <2>1. Flag(a \div 2 = 0) \in 0 .. 1
    BY FlagBit
  <2>2. [cc EXCEPT !.c = a % 2, !.z = Flag(a \div 2 = 0), !.n = 0] \in CC
    BY <1>1, <2>1, Bits, FlagsSet, Zenon
  <2>3. a \div 2 \in Byte
    BY <1>1, SMT DEF Byte
  <2> QED  BY <1>5, <2>2, <2>3 DEF OneByte, Lsr, Gives, ByteGives
<1>6. CASE op = "ror"
  <2> DEFINE res == 128 * cc.c + a \div 2
  <2>1. Flag(res = 0) \in 0 .. 1
    BY FlagBit
  <2>2. [cc EXCEPT !.n = cc.c, !.c = a % 2, !.z = Flag(res = 0)] \in CC
    BY <1>0, <1>1, <2>1, Bits, FlagsSet, Zenon
  <2>3. res \in Byte
    BY <1>0, <1>1, SMT DEF Byte
  <2> QED  BY <1>6, <2>2, <2>3 DEF OneByte, Ror, Gives, ByteGives
<1>7. CASE op = "asr"
  <2> DEFINE res == 128 * Btst(a, 128) + a \div 2
  <2>1. res \in Byte
    BY <1>1, SMT DEF Byte
  <2>2. [SetNZ(cc, res, ByteSign) EXCEPT !.c = a % 2] \in CC
    BY <1>1, <1>2, <2>1, Bits, FlagSet, Zenon
  <2> QED  BY <1>7, <2>1, <2>2 DEF OneByte, Asr, Gives, ByteGives
<1>8. ASSUME NEW res \in Byte
      PROVE  [SetNZ(cc, res, ByteSign) EXCEPT !.c = Btst(a, 128), !.v = (Btst(res, 128) + Btst(a, 128)) % 2] \in CC
  <2>1. (Btst(res, 128) + Btst(a, 128)) % 2 \in 0 .. 1
    BY <1>1, <1>2, SMT
  <2> DEFINE f == SetNZ(cc, res, ByteSign)
             c == Btst(a, 128)
             v == (Btst(res, 128) + Btst(a, 128)) % 2
  <2>2. f \in CC /\ c \in 0 .. 1 /\ v \in 0 .. 1
    BY <1>1, <1>2, <2>1
  <2> HIDE DEF f, c, v
  <2>3. [f EXCEPT !.c = c, !.v = v] \in CC
    BY <2>2, FlagsSet, Zenon
  <2> QED  BY <2>3 DEF f, c, v
<1>9. CASE op = "asl"
  <2>1. (2 * a) % 256 \in Byte
    <3>1. (2 * a) \in Int
      BY <1>0
    <3> QED  BY <3>1, ModByte
  <2> QED  BY <1>9, <1>8, <2>1 DEF OneByte, Asl, Gives, ByteGives
<1>10. CASE op = "rol"
  <2>1. (2 * a + cc.c) % 256 \in Byte
    <3>1. (2 * a + cc.c) \in Int
      BY <1>0
    <3> QED  BY <3>1, ModByte
  <2> QED  BY <1>10, <1>8, <2>1 DEF OneByte, Rol, Gives, ByteGives
<1>11. ASSUME NEW res \in Byte, NEW p
       PROVE  [SetNZ(cc, res, ByteSign) EXCEPT !.v = Flag(p)] \in CC
  BY <1>2, FlagBit, Bits, FlagSet, Zenon
<1>12. CASE op = "dec"
  <2>1. (a - 1) % 256 \in Byte
    <3>1. (a - 1) \in Int
      BY <1>0
    <3> QED  BY <3>1, ModByte
  <2> QED  BY <1>12, <1>11, <2>1 DEF OneByte, Dec, Gives, ByteGives
<1>13. CASE op = "inc"
  <2>1. (a + 1) % 256 \in Byte
    <3>1. (a + 1) \in Int
      BY <1>0
    <3> QED  BY <3>1, ModByte
  <2> QED  BY <1>13, <1>11, <2>1 DEF OneByte, Inc, Gives, ByteGives
<1>14. CASE op = "clr"
  <2>1. [cc EXCEPT !.n = 0, !.v = 0, !.c = 0, !.z = 1] \in CC
    BY Bits, FlagsSet, Zenon
  <2>2. 0 \in Byte
    BY DEF Byte
  <2> QED  BY <1>14, <2>1, <2>2 DEF OneByte, Clr, Gives, ByteGives
<1> QED  BY <1>3, <1>4, <1>5, <1>6, <1>7, <1>9, <1>10, <1>12, <1>13, <1>14 DEF UnaryOps

\* DAA, MUL, SEX and the flags changed directly.
LEMMA DaaTyped ==
  ASSUME NEW cc \in CC, NEW a \in Byte
  PROVE  Daa(cc, a) \in ByteGives
<1> DEFINE m1 == 16 * (a \div 16)
           l == a % 16
           low == IF l > 9 \/ cc.h # 0 THEN 6 ELSE 0
           high == IF (m1 > 128 /\ l > 9) \/ m1 > 144 \/ cc.c = 1 THEN 96 ELSE 0
           t == low + high + a
<1>1. low \in Int /\ high \in Int
  OBVIOUS
<1> HIDE DEF low, high
<1>2. t \in Int
  BY <1>1, ByteInt
<1>3. SetNZ(cc, t, ByteSign) \in CC /\ Btst(t, 256) \in 0 .. 1 /\ t % 256 \in Byte
  <2>1. 256 \in Nat \ {0}
    OBVIOUS
  <2> QED  BY <1>2, <2>1, NZTyped, BtstBit, ModByte
<1>4. [SetNZ(cc, t, ByteSign) EXCEPT !.c = Btst(t, 256), !.v = 0] \in CC
  <2> DEFINE f == SetNZ(cc, t, ByteSign)
             c == Btst(t, 256)
  <2>1. f \in CC /\ c \in 0 .. 1
    BY <1>3
  <2> HIDE DEF f, c
  <2>2. [f EXCEPT !.c = c, !.v = 0] \in CC
    BY <2>1, Bits, FlagsSet, Zenon
  <2> QED  BY <2>2 DEF f, c
<1>5. Daa(cc, a) = Gives(t % 256, [SetNZ(cc, t, ByteSign) EXCEPT !.c = Btst(t, 256), !.v = 0])
  BY DEF Daa, low, high
<1> QED  BY <1>3, <1>4, <1>5 DEF Gives, ByteGives

LEMMA MulTyped ==
  ASSUME NEW cc \in CC, NEW a \in Byte, NEW b \in Byte
  PROVE  Mul(cc, a, b) \in WordGives
<1>1. a * b \in Word
  <2>1. a \in Int /\ b \in Int /\ 0 <= a /\ a <= 255 /\ 0 <= b /\ b <= 255
    BY DEF Byte
  <2>2. 0 <= a * b /\ a * b <= 255 * b
    BY <2>1, SMT
  <2> QED  BY <2>1, <2>2, SMT DEF Word
<1>2. Flag(a * b = 0) \in 0 .. 1 /\ Btst(b, 128) \in 0 .. 1
  <2>1. b \in Int /\ 128 \in Nat \ {0}
    BY ByteInt
  <2> QED  BY <2>1, FlagBit, BtstBit
<1>3. [cc EXCEPT !.z = Flag(a * b = 0), !.c = Btst(b, 128)] \in CC
  BY <1>2, Bits, FlagsSet, Zenon
<1> QED  BY <1>1, <1>3 DEF Mul, Gives, WordGives

LEMMA SexTyped ==
  ASSUME NEW cc \in CC, NEW b \in Byte
  PROVE  Sex(cc, b) \in WordGives
<1>1. (IF Btst(b, 128) = 1 THEN 65280 ELSE 0) + b \in Word
  BY SMT DEF Word, Byte
<1>2. SetNZ(cc, b, ByteSign) \in CC
  BY NZTyped, ByteInt
<1> QED  BY <1>1, <1>2 DEF Sex, Gives, WordGives

LEMMA FlagsTyped ==
  ASSUME NEW cc \in CC, NEW v \in Byte
  PROVE  Andcc(cc, v) \in CC /\ Orcc(cc, v) \in CC /\ Cwai(cc, v) \in CC
<1>1. Getcc(cc) \in Byte /\ 128 \in Byte
  BY GetccByte DEF Byte
<1>2. /\ And8(Getcc(cc), v) \in Byte /\ Or8(Getcc(cc), v) \in Byte
      /\ Or8(And8(Getcc(cc), v), 128) \in Byte
  BY <1>1, BitwiseBytes
<1> QED  BY <1>2, SetccTyped, ByteInt DEF Andcc, Orcc, Cwai

-----------------------------------------------------------------------------
(* Machines whose registers have the widths of their C types.              *)

Memories == UNION {[adrs -> Byte] : adrs \in SUBSET Word}
Errors == {"none", "swi", "exgr", "postbyte", "addrmode", "opcode"}
Words == {"pc", "x", "y", "u", "s"}
Bytes == {"a", "b", "dp"}

Machines ==
  [pc : Word, x : Word, y : Word, u : Word, s : Word, a : Byte, b : Byte, dp : Byte,
   cc : CC, mem : Memories, err : Errors]

LEMMA Fields ==
  ASSUME NEW m0 \in Machines
  PROVE  /\ \A R \in Words : m0[R] \in Word
         /\ \A R \in Bytes : m0[R] \in Byte
         /\ m0.cc \in CC /\ m0.mem \in Memories
         /\ m0.pc \in Word /\ m0.s \in Word /\ m0.x \in Word /\ m0.y \in Word
         /\ m0.a \in Byte /\ m0.b \in Byte /\ m0.dp \in Byte
  BY DEF Machines, Bytes, Words

LEMMA WordSet ==
  ASSUME NEW m0 \in Machines, NEW R \in Words, NEW v \in Word
  PROVE  [m0 EXCEPT ![R] = v] \in Machines
  BY DEF Machines, Words

LEMMA ByteSet ==
  ASSUME NEW m0 \in Machines, NEW R \in Bytes, NEW v \in Byte
  PROVE  [m0 EXCEPT ![R] = v] \in Machines
  BY DEF Machines, Bytes

LEMMA OtherSet ==
  ASSUME NEW m0 \in Machines
  PROVE  /\ \A cc \in CC : [m0 EXCEPT !.cc = cc] \in Machines
         /\ \A f \in Memories : [m0 EXCEPT !.mem = f] \in Machines
         /\ \A e \in Errors : [m0 EXCEPT !.err = e] \in Machines
         /\ \A v \in Word : [m0 EXCEPT !.pc = v] \in Machines
         /\ \A v \in Word : [m0 EXCEPT !.x = v] \in Machines
         /\ \A v \in Word : [m0 EXCEPT !.s = v] \in Machines
         /\ \A v \in Byte : [m0 EXCEPT !.a = v] \in Machines
         /\ \A v \in Byte : [m0 EXCEPT !.b = v] \in Machines
<1>1. \A cc \in CC : [m0 EXCEPT !.cc = cc] \in Machines
  BY DEF Machines
<1>2. \A f \in Memories : [m0 EXCEPT !.mem = f] \in Machines
  BY DEF Machines
<1>3. \A e \in Errors : [m0 EXCEPT !.err = e] \in Machines
  BY DEF Machines
<1>4. \A v \in Word : [m0 EXCEPT !.pc = v] \in Machines
  BY DEF Machines
<1>5. \A v \in Word : [m0 EXCEPT !.x = v] \in Machines
  BY DEF Machines
<1>6. \A v \in Word : [m0 EXCEPT !.s = v] \in Machines
  BY DEF Machines
<1>7. \A v \in Byte : [m0 EXCEPT !.a = v] \in Machines
  BY DEF Machines
<1>8. \A v \in Byte : [m0 EXCEPT !.b = v] \in Machines
  BY DEF Machines
<1> QED  BY <1>1, <1>2, <1>3, <1>4, <1>5, <1>6, <1>7, <1>8

\* Memory.
LEMMA MemoryByte ==
  ASSUME NEW f \in Memories, NEW a \in DOMAIN f
  PROVE  f[a] \in Byte /\ a \in Word
<1>1. PICK adrs \in SUBSET Word : f \in [adrs -> Byte]
  BY DEF Memories
<1> QED  BY <1>1

LEMMA MemoryGiven ==
  ASSUME NEW adrs \in SUBSET Word, NEW f \in [adrs -> Byte]
  PROVE  f \in Memories
  BY Zenon DEF Memories

LEMMA OverMemory ==
  ASSUME NEW f \in Memories, NEW g \in Memories
  PROVE  Over(g, f) \in Memories
<1> DEFINE adrs == DOMAIN g \cup DOMAIN f
<1>1. \A a \in adrs : (IF a \in DOMAIN g THEN g[a] ELSE f[a]) \in Byte /\ a \in Word
  BY MemoryByte
<1>2. Over(g, f) \in [adrs -> Byte] /\ adrs \in SUBSET Word
  BY <1>1 DEF Over
<1> QED  BY <1>2, MemoryGiven, Zenon

LEMMA OneByteMemory ==
  ASSUME NEW a \in Word, NEW v \in Byte
  PROVE  [x \in {a} |-> v] \in Memories
<1>1. [x \in {a} |-> v] \in [{a} -> Byte] /\ {a} \in SUBSET Word
  OBVIOUS
<1> QED  BY <1>1, MemoryGiven, Zenon

LEMMA ReadTyped == ASSUME NEW m0 \in Machines, NEW a PROVE Read(m0, a) \in Byte
<1>1. m0.mem \in Memories
  BY Fields
<1>2. 255 \in Byte
  BY SMT DEF Byte
<1> QED  BY <1>1, <1>2, MemoryByte DEF Read

LEMMA BytesOfWord ==
  ASSUME NEW h \in Byte, NEW l \in Byte
  PROVE  256 * h + l \in Word
  BY SMT DEF Byte, Word

LEMMA HalvesOfWord ==
  ASSUME NEW v \in Word
  PROVE  v \div 256 \in Byte /\ v % 256 \in Byte
<1>1. v \in Int /\ 0 <= v /\ v < 65536
  BY WordInt
<1> QED  BY <1>1, SMT DEF Byte

LEMMA ReadWTyped == ASSUME NEW m0 \in Machines, NEW a PROVE ReadW(m0, a) \in Word
  BY ReadTyped, BytesOfWord DEF ReadW

LEMMA WriteTyped ==
  ASSUME NEW m0 \in Machines, NEW a \in Word, NEW v \in Byte
  PROVE  Write(m0, a, v) \in Machines
<1>1. Over([x \in {a} |-> v], m0.mem) \in Memories
  BY Fields, OneByteMemory, OverMemory, Zenon
<1>2. Write(m0, a, v) = [m0 EXCEPT !.mem = Over([x \in {a} |-> v], m0.mem)]
  BY DEF Write
<1> QED  BY <1>1, <1>2, OtherSet, Zenon

LEMMA WriteWTyped ==
  ASSUME NEW m0 \in Machines, NEW a \in Word, NEW v \in Word
  PROVE  WriteW(m0, a, v) \in Machines
<1>1. v \div 256 \in Byte /\ v % 256 \in Byte
  BY HalvesOfWord
<1>2. W(a + 1) \in Word
  <2>1. a + 1 \in Int
    BY WordInt
  <2> QED  BY <2>1, ModWord
<1>3. Write(m0, a, v \div 256) \in Machines
  BY <1>1, WriteTyped
<1> QED  BY <1>1, <1>2, <1>3, WriteTyped DEF WriteW

\* Sums of a word and a number.
LEMMA NearWord ==
  ASSUME NEW v \in Word, NEW n \in Int
  PROVE  W(v + n) \in Word /\ W(v - n) \in Word
<1>1. v + n \in Int /\ v - n \in Int
  BY WordInt
<1> QED  BY <1>1, ModWord

LEMMA SkipTyped ==
  ASSUME NEW m0 \in Machines, NEW n \in Int
  PROVE  Skip(m0, n) \in Machines
<1>1. W(m0.pc + n) \in Word
  BY NearWord, Fields
<1>2. Skip(m0, n) = [m0 EXCEPT !.pc = W(m0.pc + n)]
  BY DEF Skip
<1> QED  BY <1>1, <1>2, OtherSet

LEMMA FailTyped == ASSUME NEW m0 \in Machines, NEW e \in Errors PROVE Fail(m0, e) \in Machines
  BY OtherSet, Zenon DEF Fail

\* The register D and the other words.
LEMMA DTyped == ASSUME NEW m0 \in Machines PROVE D(m0) \in Word
  BY Fields, BytesOfWord DEF D

LEMMA SetDTyped ==
  ASSUME NEW m0 \in Machines, NEW v \in Word
  PROVE  SetD(m0, v) \in Machines
<1>1. v \div 256 \in Byte /\ v % 256 \in Byte
  BY HalvesOfWord
<1> DEFINE m1 == [m0 EXCEPT !.a = v \div 256]
<1>2. m1 \in Machines
  BY <1>1, OtherSet, Zenon
<1>3. [m1 EXCEPT !.b = v % 256] \in Machines
  <2> HIDE DEF m1
  <2> QED  BY <1>1, <1>2, OtherSet, Zenon
<1>4. SetD(m0, v) = [m1 EXCEPT !.b = v % 256]
  BY SMT DEF SetD
<1> QED  BY <1>3, <1>4

LEMMA Load16Typed ==
  ASSUME NEW m0 \in Machines, NEW R \in Words \cup {"d"}, NEW v \in Word
  PROVE  Load16(m0, R, v) \in Machines
  BY WordSet, SetDTyped, Zenon DEF Load16

LEMMA Reg16Typed ==
  ASSUME NEW m0 \in Machines, NEW R \in Words \cup {"d"}
  PROVE  Reg16(m0, R) \in Word
  BY Fields, DTyped, Zenon DEF Reg16

-----------------------------------------------------------------------------
(* The stacks.                                                             *)

Stacks == {"s", "u"}
Pushable == Words \cup Bytes \cup {"cc"}

LEMMA PushTyped ==
  ASSUME NEW m0 \in Machines, NEW sp \in Stacks, NEW R \in Pushable
  PROVE  Push(m0, sp, R) \in Machines
<1> DEFINE t1 == W(m0[sp] - 1)
           t2 == W(m0[sp] - 2)
           v  == IF R = "cc" THEN Getcc(m0.cc) ELSE m0[R]
<1>0. sp \in Words /\ m0[sp] \in Word
  BY Fields DEF Stacks, Words
<1>1. t1 \in Word /\ t2 \in Word
  BY <1>0, NearWord
<1>2. [m0 EXCEPT ![sp] = t1] \in Machines /\ [m0 EXCEPT ![sp] = t2] \in Machines
  <2> HIDE DEF t1, t2
  <2> QED  BY <1>0, <1>1, WordSet, Zenon
<1>3. CASE R \in {"dp", "a", "b", "cc"}
  <2>1. v \in Byte
    BY <1>3, Fields, GetccByte, Zenon DEF Bytes
  <2>2. Push(m0, sp, R) = Write([m0 EXCEPT ![sp] = t1], t1, v)
    BY <1>3, Zenon DEF Push
  <2> HIDE DEF t1, v
  <2> QED  BY <1>1, <1>2, <2>1, <2>2, WriteTyped, Zenon
<1>4. CASE R \notin {"dp", "a", "b", "cc"}
  <2>1. m0[R] \in Word
    BY <1>4, Fields, Zenon DEF Pushable, Bytes
  <2>2. Push(m0, sp, R) = WriteW([m0 EXCEPT ![sp] = t2], t2, m0[R])
    BY <1>4, Zenon DEF Push
  <2> HIDE DEF t2
  <2> QED  BY <1>1, <1>2, <2>1, <2>2, WriteWTyped, Zenon
<1> QED  BY <1>3, <1>4

LEMMA PullTyped ==
  ASSUME NEW m0 \in Machines, NEW sp \in Stacks, NEW R \in Pushable, R # sp
  PROVE  Pull(m0, sp, R) \in Machines
<1> DEFINE t1 == W(m0[sp] + 1)
           t2 == W(m0[sp] + 2)
           b1 == Read(m0, m0[sp])
           w1 == ReadW(m0, m0[sp])
           c1 == Setcc(b1)
<1>0. sp \in Words /\ m0[sp] \in Word /\ sp # "cc"
  BY Fields DEF Stacks, Words
<1>1. t1 \in Word /\ t2 \in Word
  BY <1>0, NearWord
<1>2. b1 \in Byte /\ w1 \in Word
  BY ReadTyped, ReadWTyped
<1>3. c1 \in CC
  <2> HIDE DEF b1
  <2> QED  BY <1>2, SetccTyped, ByteInt
<1>4. CASE R = "cc"
  <2> DEFINE m1 == [m0 EXCEPT !.cc = c1]
  <2>1. m1 \in Machines
    <3> HIDE DEF c1
    <3> QED  BY <1>3, OtherSet, Zenon
  <2>2. [m1 EXCEPT ![sp] = t1] \in Machines
    <3> HIDE DEF m1, t1
    <3> QED  BY <1>0, <1>1, <2>1, WordSet, Zenon
  <2>3. Pull(m0, sp, R) = [m1 EXCEPT ![sp] = t1]
    <3> HIDE DEF c1
    <3> QED  BY <1>4, <1>0 DEF Pull, c1, Machines
  <2> QED  BY <2>2, <2>3
<1>5. CASE R \in Bytes
  <2> DEFINE m1 == [m0 EXCEPT ![R] = b1]
  <2>1. m1 \in Machines
    <3> HIDE DEF b1
    <3> QED  BY <1>2, <1>5, ByteSet, Zenon
  <2>2. [m1 EXCEPT ![sp] = t1] \in Machines
    <3> HIDE DEF m1, t1
    <3> QED  BY <1>0, <1>1, <2>1, WordSet, Zenon
  <2>3. R # "cc" /\ R \in {"dp", "a", "b"}
    BY <1>5 DEF Bytes
  <2>4. Pull(m0, sp, R) = [m1 EXCEPT ![sp] = t1]
    BY <2>3, <1>0 DEF Pull, Machines
  <2> QED  BY <2>2, <2>4
<1>6. CASE R \in Words
  <2> DEFINE m1 == [m0 EXCEPT ![R] = w1]
  <2>1. m1 \in Machines
    <3> HIDE DEF w1
    <3> QED  BY <1>2, <1>6, WordSet, Zenon
  <2>2. [m1 EXCEPT ![sp] = t2] \in Machines
    <3> HIDE DEF m1, t2
    <3> QED  BY <1>0, <1>1, <2>1, WordSet, Zenon
  <2>3. R # "cc" /\ R \notin {"dp", "a", "b"}
    BY <1>6 DEF Words
  <2>4. Pull(m0, sp, R) = [m1 EXCEPT ![sp] = t2]
    BY <2>3, <1>0 DEF Pull, Machines
  <2> QED  BY <2>2, <2>4
<1> QED  BY <1>4, <1>5, <1>6 DEF Pushable

LEMMA PshTyped ==
  ASSUME NEW m0 \in Machines, NEW sp \in Stacks, NEW np \in Stacks, NEW post
  PROVE  Psh(m0, sp, np, post) \in Machines
<1>1. \A k \in Machines : \A R \in Pushable : \A w : PushIf(k, sp, post, w, R) \in Machines
  BY PushTyped, Zenon DEF PushIf
<1>2. {"pc", np, "y", "x", "dp", "b", "a", "cc"} \subseteq Pushable
  BY DEF Pushable, Words, Bytes, Stacks
<1> DEFINE m1 == PushIf(m0, sp, post, 128, "pc")
           m2 == PushIf(m1, sp, post, 64, np)
           m3 == PushIf(m2, sp, post, 32, "y")
           m4 == PushIf(m3, sp, post, 16, "x")
           m5 == PushIf(m4, sp, post, 8, "dp")
           m6 == PushIf(m5, sp, post, 4, "b")
           m7 == PushIf(m6, sp, post, 2, "a")
           m8 == PushIf(m7, sp, post, 1, "cc")
<1>3. m1 \in Machines
  <2> QED  BY <1>1, <1>2, Zenon
<1>4. m2 \in Machines
  <2> HIDE DEF m1
  <2> QED  BY <1>1, <1>2, <1>3, Zenon
<1>5. m3 \in Machines
  <2> HIDE DEF m2
  <2> QED  BY <1>1, <1>2, <1>4, Zenon
<1>6. m4 \in Machines
  <2> HIDE DEF m3
  <2> QED  BY <1>1, <1>2, <1>5, Zenon
<1>7. m5 \in Machines
  <2> HIDE DEF m4
  <2> QED  BY <1>1, <1>2, <1>6, Zenon
<1>8. m6 \in Machines
  <2> HIDE DEF m5
  <2> QED  BY <1>1, <1>2, <1>7, Zenon
<1>9. m7 \in Machines
  <2> HIDE DEF m6
  <2> QED  BY <1>1, <1>2, <1>8, Zenon
<1>10. m8 \in Machines
  <2> HIDE DEF m7
  <2> QED  BY <1>1, <1>2, <1>9, Zenon
<1> QED  BY <1>10 DEF Psh

LEMMA PulTyped ==
  ASSUME NEW m0 \in Machines, NEW sp \in Stacks, NEW np \in Stacks, np # sp, NEW post
  PROVE  Pul(m0, sp, np, post) \in Machines
<1>1. \A k \in Machines : \A R \in Pushable : \A w : R # sp => PullIf(k, sp, post, w, R) \in Machines
  BY PullTyped, Zenon DEF PullIf
<1>2. {"pc", np, "y", "x", "dp", "b", "a", "cc"} \subseteq {R \in Pushable : R # sp}
  BY DEF Pushable, Words, Bytes, Stacks
<1> DEFINE m1 == PullIf(m0, sp, post, 1, "cc")
           m2 == PullIf(m1, sp, post, 2, "a")
           m3 == PullIf(m2, sp, post, 4, "b")
           m4 == PullIf(m3, sp, post, 8, "dp")
           m5 == PullIf(m4, sp, post, 16, "x")
           m6 == PullIf(m5, sp, post, 32, "y")
           m7 == PullIf(m6, sp, post, 64, np)
           m8 == PullIf(m7, sp, post, 128, "pc")
<1>3. m1 \in Machines
  <2> QED  BY <1>1, <1>2, Zenon
<1>4. m2 \in Machines
  <2> HIDE DEF m1
  <2> QED  BY <1>1, <1>2, <1>3, Zenon
<1>5. m3 \in Machines
  <2> HIDE DEF m2
  <2> QED  BY <1>1, <1>2, <1>4, Zenon
<1>6. m4 \in Machines
  <2> HIDE DEF m3
  <2> QED  BY <1>1, <1>2, <1>5, Zenon
<1>7. m5 \in Machines
  <2> HIDE DEF m4
  <2> QED  BY <1>1, <1>2, <1>6, Zenon
<1>8. m6 \in Machines
  <2> HIDE DEF m5
  <2> QED  BY <1>1, <1>2, <1>7, Zenon
<1>9. m7 \in Machines
  <2> HIDE DEF m6
  <2> QED  BY <1>1, <1>2, <1>8, Zenon
<1>10. m8 \in Machines
  <2> HIDE DEF m7
  <2> QED  BY <1>1, <1>2, <1>9, Zenon
<1> QED  BY <1>10 DEF Pul

-----------------------------------------------------------------------------
(* Effective addresses.                                                    *)

Places == [adr : Word, m : Machines]

LEMMA AtTyped ==
  ASSUME NEW a \in Word, NEW m0 \in Machines
  PROVE  At(a, m0) \in Places
  BY Zenon DEF At, Places

LEMMA PlaceFields == ASSUME NEW e \in Places PROVE e.adr \in Word /\ e.m \in Machines
  BY DEF Places

LEMMA Ext8Int == ASSUME NEW v \in Byte PROVE Ext8(v) \in Int
  BY ByteInt DEF Ext8

LEMMA Ext5Int == ASSUME NEW v \in Byte PROVE Ext5(v) \in Int
<1>1. v \in Int
  BY ByteInt
<1> QED  BY <1>1 DEF Ext5

LEMMA SimpleTyped ==
  ASSUME NEW m0 \in Machines
  PROVE  /\ \A n \in Int : Imm(m0, n) \in Places
         /\ Dir(m0) \in Places /\ Ext(m0) \in Places
         /\ Relb(m0) \in Places /\ Relw(m0) \in Places
<1>1. /\ m0.pc \in Word /\ m0.pc \in Int /\ m0.dp \in Byte
      /\ \A n \in Int : Skip(m0, n) \in Machines
  BY Fields, WordInt, SkipTyped
<1>2. Read(m0, m0.pc) \in Byte /\ ReadW(m0, m0.pc) \in Word
  BY ReadTyped, ReadWTyped
<1>3. \A n \in Int : Imm(m0, n) \in Places
  BY <1>1, AtTyped, Zenon DEF Imm
<1>4. Dir(m0) \in Places
  <2>1. 256 * m0.dp + Read(m0, m0.pc) \in Word
    BY <1>1, <1>2, BytesOfWord
  <2>2. Skip(m0, 1) \in Machines
    BY <1>1
  <2> QED  BY <2>1, <2>2, AtTyped, Zenon DEF Dir
<1>5. Ext(m0) \in Places
  <2>1. Skip(m0, 2) \in Machines
    BY <1>1
  <2> QED  BY <1>2, <2>1, AtTyped, Zenon DEF Ext
<1>6. Relb(m0) \in Places
  <2>1. m0.pc + 1 + Ext8(Read(m0, m0.pc)) \in Int
    BY <1>1, <1>2, Ext8Int
  <2>2. W(m0.pc + 1 + Ext8(Read(m0, m0.pc))) \in Word /\ Skip(m0, 1) \in Machines
    BY <1>1, <2>1, ModWord
  <2> QED  BY <2>2, AtTyped, Zenon DEF Relb
<1>7. Relw(m0) \in Places
  <2>1. m0.pc + 2 + ReadW(m0, m0.pc) \in Int
    BY <1>1, <1>2, WordInt
  <2>2. W(m0.pc + 2 + ReadW(m0, m0.pc)) \in Word /\ Skip(m0, 2) \in Machines
    BY <1>1, <2>1, ModWord
  <2> QED  BY <2>2, AtTyped, Zenon DEF Relw
<1> QED  BY <1>3, <1>4, <1>5, <1>6, <1>7

LEMMA IndexedTyped ==
  ASSUME NEW m0 \in Machines, NEW R \in Words, NEW v \in Byte
  PROVE  Indexed(R, v, m0) \in Places
<1>1. /\ m0[R] \in Word /\ m0.a \in Byte /\ m0.b \in Byte /\ 0 \in Word
      /\ Post(m0) \in Byte /\ ReadW(m0, m0.pc) \in Word /\ D(m0) \in Word
  BY Fields, ReadTyped, ReadWTyped, DTyped, SMT DEF Post, Word
<1>2. /\ Ext8(m0.a) \in Int /\ Ext8(m0.b) \in Int /\ Ext8(Post(m0)) \in Int /\ Ext5(v) \in Int
      /\ ReadW(m0, m0.pc) \in Int /\ D(m0) \in Int /\ 1 \in Int /\ 2 \in Int /\ -1 \in Int /\ -2 \in Int
  BY <1>1, Ext8Int, Ext5Int, WordInt
<1>3. \A n \in Int : W(m0[R] + n) \in Word /\ W(m0[R] - n) \in Word
  BY <1>1, NearWord
<1>4. \A n \in Int : [m0 EXCEPT ![R] = W(m0[R] + n)] \in Machines
  BY <1>3, WordSet, Zenon
<1>5. \A n \in Int : At(W(m0[R] + n), m0) \in Places
  BY <1>3, AtTyped, Zenon
<1>6. \A n \in Int : At(m0[R], [m0 EXCEPT ![R] = W(m0[R] + n)]) \in Places
  BY <1>1, <1>4, AtTyped, Zenon
<1>7. \A n \in Int : At(W(m0[R] - n), [m0 EXCEPT ![R] = W(m0[R] + (-n))]) \in Places
  <2> SUFFICES ASSUME NEW n \in Int
               PROVE  At(W(m0[R] - n), [m0 EXCEPT ![R] = W(m0[R] + (-n))]) \in Places
    OBVIOUS
  <2>1. -n \in Int
    OBVIOUS
  <2> QED  BY <1>3, <1>4, <2>1, AtTyped, Zenon
<1>8. At(W(m0[R] - 1), [m0 EXCEPT ![R] = W(m0[R] + (-1))]) \in Places
  BY <1>2, <1>7
<1>9. At(W(m0[R] - 2), [m0 EXCEPT ![R] = W(m0[R] + (-2))]) \in Places
  BY <1>2, <1>7
<1>10. Skip(m0, 1) \in Machines /\ Skip(m0, 2) \in Machines
  BY SkipTyped
<1>11. /\ At(W(m0[R] + Ext8(Post(m0))), Skip(m0, 1)) \in Places
       /\ At(W(m0[R] + ReadW(m0, m0.pc)), Skip(m0, 2)) \in Places
  BY <1>2, <1>3, <1>10, AtTyped, Zenon
<1>12. At(m0[R], m0) \in Places
  BY <1>1, AtTyped, Zenon
<1>13. At(0, Fail(m0, "postbyte")) \in Places
  BY <1>1, FailTyped, AtTyped, Zenon DEF Errors
<1>14. At(m0[R], [m0 EXCEPT ![R] = W(m0[R] + 1)]) \in Places /\ At(m0[R], [m0 EXCEPT ![R] = W(m0[R] + 2)]) \in Places
  BY <1>2, <1>6, Zenon
<1>15. /\ At(W(m0[R] + Ext5(v)), m0) \in Places /\ At(W(m0[R] + Ext8(m0.a)), m0) \in Places
       /\ At(W(m0[R] + Ext8(m0.b)), m0) \in Places /\ At(W(m0[R] + D(m0)), m0) \in Places
  BY <1>2, <1>5, Zenon
<1> QED  BY <1>8, <1>9, <1>11, <1>12, <1>13, <1>14, <1>15, SimpleTyped DEF Indexed

LEMMA IdxTyped == ASSUME NEW m0 \in Machines PROVE Idx(m0) \in Places
<1> DEFINE v == Post(m0)
           i == (v \div 32) % 4
           R == <<"x", "y", "u", "s">>[1 + i]
           e == Indexed(R, v, Skip(m0, 1))
<1>1. v \in Byte
  BY ReadTyped DEF Post
<1>2. R \in Words
  <2>1. v \in Int
    BY <1>1, ByteInt
  <2>2. i \in Int /\ 0 <= i /\ i < 4
    <3> HIDE DEF v
    <3> QED  BY <2>1, SMT
  <2>3. i = 0 \/ i = 1 \/ i = 2 \/ i = 3
    <3> HIDE DEF i
    <3> QED  BY <2>2, SMT
  <2> HIDE DEF i
  <2> QED  BY <2>3 DEF Words
<1>3. e \in Places
  <2>1. Skip(m0, 1) \in Machines
    BY SkipTyped
  <2> HIDE DEF v, R
  <2> QED  BY <1>1, <1>2, <2>1, IndexedTyped, Zenon
<1>4. At(ReadW(e.m, e.adr), e.m) \in Places
  <2> HIDE DEF e
  <2> QED  BY <1>3, PlaceFields, ReadWTyped, AtTyped, Zenon
<1>5. Idx(m0) = Indirect(v, e)
  BY Zenon DEF Idx
<1> HIDE DEF e, v
<1> QED  BY <1>3, <1>4, <1>5, Zenon DEF Indirect

\* An address the code does not know is an error, not an address.
LEMMA EATyped ==
  ASSUME NEW m0 \in Machines, NEW mode, NEW n \in Int
  PROVE  EA(m0, mode, n) \in Places
<1>1. At(0, Fail(m0, "addrmode")) \in Places
  <2>1. 0 \in Word /\ Fail(m0, "addrmode") \in Machines
    BY FailTyped, SMT DEF Errors, Word
  <2> QED  BY <2>1, AtTyped, Zenon
<1> QED  BY <1>1, SimpleTyped, IdxTyped, Zenon DEF EA

-----------------------------------------------------------------------------
(* The instructions.  Which registers the tables give them:                *)

Plain == {"null", "jmp", "nop", "syn", "bsr", "daa", "orcc", "andc", "sex", "exg", "tfr", "pshs", "puls",
          "pshu", "pulu", "rts", "abx", "rti", "cwai", "mul", "swi", "swi2", "swi3", "jsr"}
BranchOps == {"bra", "brn", "bhi", "bls", "bcc", "bcs", "bne", "beq",
              "bvc", "bvs", "bpl", "bmi", "bge", "blt", "bgt", "ble"}

Legal(i) ==
  \/ i.op \in ByteOps \cup {"st"} /\ i.R \in {"a", "b"}
  \/ i.op \in WordOps \cup {"st16"} /\ i.R \in Words \cup {"d"}
  \/ i.op = "lea" /\ i.R \in Words
  \/ i.op \in UnaryOps /\ i.R \in {"a", "b", "mem"}
  \/ i.op \in Plain \cup BranchOps

LEMMA CcSet == ASSUME NEW m0 \in Machines, NEW cc \in CC PROVE [m0 EXCEPT !.cc = cc] \in Machines
  BY OtherSet

LEMMA PcSet == ASSUME NEW m0 \in Machines, NEW v \in Word PROVE [m0 EXCEPT !.pc = v] \in Machines
  BY OtherSet

LEMMA CcTyped == ASSUME NEW m0 \in Machines PROVE m0.cc \in CC
  BY Fields

LEMMA IntoTyped ==
  ASSUME NEW m0 \in Machines, NEW R \in Bytes, NEW g \in ByteGives
  PROVE  Into(m0, R, g) \in Machines
<1> DEFINE m1 == [m0 EXCEPT ![R] = g.r]
<1>1. g.r \in Byte /\ g.cc \in CC
  BY DEF ByteGives
<1>2. m1 \in Machines
  BY <1>1, ByteSet
<1>3. Into(m0, R, g) = [m1 EXCEPT !.cc = g.cc]
  BY DEF Into
<1> HIDE DEF m1
<1> QED  BY <1>1, <1>2, <1>3, CcSet

LEMMA IntoWideTyped ==
  ASSUME NEW m0 \in Machines, NEW R \in Words \cup {"d"}, NEW g \in WordGives
  PROVE  IntoWide(m0, R, g) \in Machines
<1>1. g.r \in Word /\ g.cc \in CC
  BY DEF WordGives
<1>2. Load16(m0, R, g.r) \in Machines
  BY <1>1, Load16Typed
<1> QED  BY <1>1, <1>2, CcSet DEF IntoWide

LEMMA OnAccuTyped ==
  ASSUME NEW m0 \in Machines, NEW i, i.op \in ByteOps, i.R \in {"a", "b"}, NEW e \in Places
  PROVE  OnAccu(m0, i, e) \in Machines
<1>1. i.R \in Bytes /\ m0[i.R] \in Byte /\ Read(e.m, e.adr) \in Byte /\ m0.cc \in CC /\ e.m \in Machines
  BY Fields, PlaceFields, ReadTyped DEF Bytes
<1>2. Binary(i.op, m0.cc, m0[i.R], Read(e.m, e.adr)) \in ByteGives
  BY <1>1, BinaryTyped
<1> QED  BY <1>1, <1>2, IntoTyped DEF OnAccu

LEMMA OnWideTyped ==
  ASSUME NEW m0 \in Machines, NEW i, i.op \in WordOps, i.R \in Words \cup {"d"}, NEW e \in Places
  PROVE  OnWide(m0, i, e) \in Machines
<1>1. e.m \in Machines /\ m0.cc \in CC
  BY PlaceFields, Fields
<1>2. Reg16(e.m, i.R) \in Word /\ ReadW(e.m, e.adr) \in Word
  BY <1>1, Reg16Typed, ReadWTyped
<1>3. Wide(i.op, m0.cc, Reg16(e.m, i.R), ReadW(e.m, e.adr)) \in WordGives
  BY <1>1, <1>2, WideTyped
<1> QED  BY <1>1, <1>3, IntoWideTyped DEF OnWide

LEMMA StTyped ==
  ASSUME NEW m0 \in Machines, NEW i, i.R \in {"a", "b"}, NEW e \in Places
  PROVE  St(m0, i, e) \in Machines
<1>1. m0[i.R] \in Byte /\ m0.cc \in CC /\ e.m \in Machines /\ e.adr \in Word
  BY Fields, PlaceFields DEF Bytes
<1>2. Move(m0.cc, m0[i.R], ByteSign).cc \in CC
  BY <1>1, ByteInt, MoveTyped
<1>3. Write(e.m, e.adr, m0[i.R]) \in Machines
  BY <1>1, WriteTyped
<1> QED  BY <1>2, <1>3, CcSet DEF St

LEMMA St16Typed ==
  ASSUME NEW m0 \in Machines, NEW i, i.R \in Words \cup {"d"}, NEW e \in Places
  PROVE  St16(m0, i, e) \in Machines
<1>1. Reg16(m0, i.R) \in Word /\ m0.cc \in CC /\ e.m \in Machines /\ e.adr \in Word
  BY Fields, PlaceFields, Reg16Typed
<1>2. Move(m0.cc, Reg16(m0, i.R), WordSign).cc \in CC
  BY <1>1, WordInt, MoveTyped
<1>3. WriteW(e.m, e.adr, Reg16(m0, i.R)) \in Machines
  BY <1>1, WriteWTyped
<1> QED  BY <1>2, <1>3, CcSet DEF St16

LEMMA OnByteTyped ==
  ASSUME NEW m0 \in Machines, NEW i, i.op \in UnaryOps, i.R \in {"a", "b"}
  PROVE  OnByte(m0, i) \in Machines
<1>1. i.R \in Bytes /\ m0[i.R] \in Byte /\ m0.cc \in CC
  BY Fields DEF Bytes
<1>2. OneByte(i.op, m0.cc, m0[i.R]) \in ByteGives
  BY <1>1, OneByteTyped
<1> QED  BY <1>1, <1>2, IntoTyped DEF OnByte

LEMMA OnMemoryTyped ==
  ASSUME NEW m0 \in Machines, NEW i, i.op \in UnaryOps, NEW e \in Places
  PROVE  OnMemory(m0, i, e) \in Machines
<1> DEFINE g == OneByte(i.op, m0.cc, Read(e.m, e.adr))
<1>1. Read(e.m, e.adr) \in Byte /\ m0.cc \in CC /\ e.m \in Machines /\ e.adr \in Word
  BY Fields, PlaceFields, ReadTyped
<1>2. g \in ByteGives
  BY <1>1, OneByteTyped
<1>3. g.r \in Byte /\ g.cc \in CC
  BY <1>2 DEF ByteGives
<1>4. OnMemory(m0, i, e) = IntoByte(e.m, i, e.adr, g)
  BY Zenon DEF OnMemory
<1> HIDE DEF g
<1>5. [e.m EXCEPT !.cc = g.cc] \in Machines
  BY <1>1, <1>3, CcSet
<1> QED  BY <1>1, <1>3, <1>4, <1>5, WriteTyped, Zenon DEF IntoByte

LEMMA LeaTyped ==
  ASSUME NEW i, i.R \in Words, NEW e \in Places
  PROVE  Lea(i, e) \in Machines
<1> DEFINE m1 == [e.m EXCEPT ![i.R] = e.adr]
           cc == IF i.R \in {"x", "y"} THEN LeaZ(e.m.cc, e.adr) ELSE e.m.cc
<1>1. e.m \in Machines /\ e.adr \in Word /\ e.m.cc \in CC
  BY PlaceFields, CcTyped
<1>2. m1 \in Machines
  BY <1>1, WordSet
<1>3. LeaZ(e.m.cc, e.adr) \in CC
  BY <1>1, FlagBit, FlagSet, Zenon DEF LeaZ
<1>4. cc \in CC
  BY <1>1, <1>3
<1>5. Lea(i, e) = [m1 EXCEPT !.cc = cc]
  <2>1. m1.cc = e.m.cc
    BY <1>1 DEF Words, Machines
  <2> QED  BY <2>1 DEF Lea
<1> HIDE DEF m1, cc
<1> QED  BY <1>2, <1>4, <1>5, CcSet

LEMMA JumpsTyped ==
  ASSUME NEW m0 \in Machines, NEW e \in Places, NEW c
  PROVE  Jmp(e) \in Machines /\ Jsr(e) \in Machines /\ Branch(m0, c, e) \in Machines
<1>1. e.m \in Machines /\ e.adr \in Word
  BY PlaceFields
<1>2. Jmp(e) \in Machines
  BY <1>1, PcSet DEF Jmp
<1>3. Push(e.m, "s", "pc") \in Machines
  BY <1>1, PushTyped DEF Stacks, Pushable, Words
<1>4. Jsr(e) \in Machines
  BY <1>1, <1>3, PcSet DEF Jsr
<1>5. Branch(m0, c, e) \in Machines
  BY <1>1, PcSet, Zenon DEF Branch
<1> QED  BY <1>2, <1>4, <1>5

LEMMA BsrTyped == ASSUME NEW m0 \in Machines, NEW mode PROVE Bsr(m0, mode) \in Machines
<1> DEFINE pc1 == W(m0.pc + IF mode = "relb" THEN 1 ELSE 2)
           t  == W(m0.s - 2)
           m1 == WriteW(m0, t, pc1)
           m2 == Pushed(m0, pc1)
<1>1. pc1 \in Word /\ t \in Word
  BY Fields, NearWord
<1>2. m1 \in Machines
  <2> HIDE DEF t, pc1
  <2> QED  BY <1>1, WriteWTyped
<1>3. W(m1.s - 2) \in Word
  <2> HIDE DEF m1
  <2> QED  BY <1>2, Fields, NearWord
<1>4. m2 = [m1 EXCEPT !.s = W(m1.s - 2)]
  BY DEF Pushed
<1>5. m2 \in Machines
  <2> HIDE DEF m1, m2
  <2> QED  BY <1>2, <1>3, <1>4, OtherSet
<1>6. EA(m2, mode, 1) \in Places
  <2> HIDE DEF m2
  <2> QED  BY <1>5, EATyped
<1>7. Bsr(m0, mode) = Jmp(EA(m2, mode, 1))
  BY Zenon DEF Bsr
<1> HIDE DEF m2
<1> QED  BY <1>5, <1>6, <1>7, JumpsTyped

-----------------------------------------------------------------------------
LEMMA ReturnsTyped ==
  ASSUME NEW m0 \in Machines
  PROVE  Rts(m0) \in Machines /\ Rti(m0) \in Machines
<1>1. "s" \in Stacks /\ "u" \in Stacks /\ "pc" \in Pushable /\ "pc" # "s" /\ "u" # "s"
  BY DEF Stacks, Pushable, Words
<1>2. Rts(m0) \in Machines
  BY <1>1, PullTyped DEF Rts
<1>3. Pul(m0, "s", "u", 1) \in Machines
  BY <1>1, PulTyped
<1>4. \A k \in Machines : RtiRest(k) \in Machines
  BY <1>1, PulTyped, Zenon DEF RtiRest
<1> QED  BY <1>2, <1>3, <1>4, Zenon DEF Rti

\* The flags the interrupts set.
LEMMA OneFlag ==
  ASSUME NEW cc \in CC, NEW x \in 0 .. 1
  PROVE  /\ [cc EXCEPT !.i = x] \in CC /\ [cc EXCEPT !.f = x] \in CC /\ [cc EXCEPT !.e = x] \in CC
  BY SMT DEF CC

LEMMA InterruptsTyped ==
  ASSUME NEW m0 \in Machines
  PROVE  /\ PushAll(m0) \in Machines
         /\ Swi(m0) \in Machines /\ Swi2(m0) \in Machines /\ Swi3(m0) \in Machines
<1> DEFINE m1 == [m0 EXCEPT !.cc.e = 1]
           m2 == PushAll(m0)
<1>1. m1 \in Machines
  <2>1. [m0.cc EXCEPT !.e = 1] \in CC
    BY CcTyped, OneFlag, Bits
  <2>2. m1 = [m0 EXCEPT !.cc = [m0.cc EXCEPT !.e = 1]]
    OBVIOUS
  <2> QED  BY <2>1, <2>2, CcSet, Zenon
<1>2. m2 \in Machines
  <2> HIDE DEF m1
  <2>1. Psh(m1, "s", "u", 255) \in Machines
    BY <1>1, PshTyped DEF Stacks
  <2>2. m2 = Psh(m1, "s", "u", 255)
    BY DEF PushAll, m1
  <2> HIDE DEF m2
  <2> QED  BY <2>1, <2>2
<1>3. Swi(m0) \in Machines
  <2> HIDE DEF m2
  <2> DEFINE c1 == [m2.cc EXCEPT !.i = 1]
             c2 == [c1 EXCEPT !.f = 1]
  <2>1. c1 \in CC
    BY <1>2, CcTyped, OneFlag, Bits
  <2>2. c2 \in CC
    <3> HIDE DEF c1
    <3> QED  BY <2>1, OneFlag, Bits
  <2>3. [m2 EXCEPT !.cc.i = 1, !.cc.f = 1] = [m2 EXCEPT !.cc = c2]
    BY <1>2 DEF Machines
  <2>4. Swi(m0) = Fail([m2 EXCEPT !.cc = c2], "swi")
    BY <2>3 DEF Swi, m2
  <2> HIDE DEF c2
  <2>5. [m2 EXCEPT !.cc = c2] \in Machines
    BY <1>2, <2>2, CcSet
  <2> QED  BY <2>4, <2>5, FailTyped DEF Errors
<1>4. \A k \in Machines : \A vector : Vectored(k, vector) \in Machines
  BY ReadWTyped, PcSet DEF Vectored
<1>5. Swi2(m0) \in Machines /\ Swi3(m0) \in Machines
  <2>1. \A vector : Vectored(m2, vector) \in Machines
    <3> HIDE DEF m2
    <3> QED  BY <1>2, <1>4
  <2>2. Swi2(m0) = Vectored(m2, 65524) /\ Swi3(m0) = Vectored(m2, 65522)
    BY SMT DEF Swi2, Swi3
  <2> HIDE DEF m2
  <2> QED  BY <2>1, <2>2, SMT
<1> QED  BY <1>2, <1>3, <1>5

\* TFR and EXG.
Half4 == {n \in Nat : n < 16}

LEMMA ExgNamed ==
  ASSUME NEW c \in Half4
  PROVE  \/ c \in 0 .. 5 /\ ExgName(c) \in Words \cup {"d"}
         \/ c \notin 0 .. 5 /\ ExgName(c) \in Bytes \cup {"cc", "none"}
<1>1. c \in Int /\ 0 <= c /\ c < 16
  BY DEF Half4
<1>2. CASE c < 6
  <2>1. c = 0 \/ c = 1 \/ c = 2 \/ c = 3 \/ c = 4 \/ c = 5
    BY <1>1, <1>2, SMT
  <2> QED  BY <2>1 DEF ExgName, ExgNames, Words
<1>3. CASE ~(c < 6)
  <2>1. \/ c = 6 \/ c = 7 \/ c = 8 \/ c = 9 \/ c = 10 \/ c = 11 \/ c = 12 \/ c = 13 \/ c = 14 \/ c = 15
    BY <1>1, <1>3, SMT
  <2> QED  BY <2>1 DEF ExgName, ExgNames, Bytes
<1> QED  BY <1>2, <1>3

LEMMA GetexrTyped ==
  ASSUME NEW m0 \in Machines, NEW c \in Half4
  PROVE  Getexr(m0, c) \in Word
<1>1. Getcc(m0.cc) \in Word /\ 0 \in Word
  BY CcTyped, GetccByte, ByteInt, SMT DEF Word
<1>2. ASSUME ExgName(c) \in Words \cup {"d"} PROVE Reg16(m0, ExgName(c)) \in Word
  BY <1>2, Reg16Typed
<1>3. ASSUME ExgName(c) \in Bytes PROVE Reg16(m0, ExgName(c)) \in Word
  <2>1. m0[ExgName(c)] \in Word /\ ExgName(c) # "d"
    BY <1>3, Fields, ByteInt DEF Bytes
  <2> QED  BY <2>1 DEF Reg16
<1> QED  BY <1>1, <1>2, <1>3, ExgNamed DEF Getexr

LEMMA SetexrTyped ==
  ASSUME NEW m0 \in Machines, NEW c \in Half4, NEW v \in Word
  PROVE  Setexr(m0, c, v) \in Machines
<1>1. v % 256 \in Byte /\ v % 256 \in Int
  BY HalvesOfWord, ByteInt
<1>2. [m0 EXCEPT !.cc = Setcc(v % 256)] \in Machines
  BY <1>1, SetccTyped, CcSet
<1>3. Fail(m0, "exgr") \in Machines
  BY FailTyped DEF Errors
<1>4. ASSUME ExgName(c) \in Words \cup {"d"} PROVE Load16(m0, ExgName(c), v) \in Machines
  BY <1>4, Load16Typed
<1>5. ASSUME ExgName(c) \in Bytes PROVE [m0 EXCEPT ![ExgName(c)] = v % 256] \in Machines
  BY <1>1, <1>5, ByteSet
<1> QED  BY <1>2, <1>3, <1>4, <1>5, ExgNamed, Zenon DEF Setexr

LEMMA TransfersTyped ==
  ASSUME NEW m0 \in Machines, NEW c1 \in Half4, NEW c2 \in Half4
  PROVE  /\ Known(m0, c1) \in Machines
         /\ Exg(m0, c1, c2) \in Machines /\ Tfr(m0, c1, c2) \in Machines
<1>1. Known(m0, c1) \in Machines
  BY FailTyped, Zenon DEF Known, Errors
<1>2. Tfr(m0, c1, c2) \in Machines
  BY GetexrTyped, SetexrTyped DEF Tfr
<1>3. Exg(m0, c1, c2) \in Machines
  BY GetexrTyped, SetexrTyped DEF Exg
<1> QED  BY <1>1, <1>2, <1>3

LEMMA HalvesOfByte ==
  ASSUME NEW v \in Byte
  PROVE  v % 16 \in Half4 /\ v \div 16 \in Half4
  BY SMT DEF Byte, Half4

-----------------------------------------------------------------------------
(* Every opcode is found in the tables with registers it can have; the two *)
(* that open another table are not performed.                              *)

LEMMA Sixteen ==
  ASSUME NEW c \in Half4
  PROVE  \/ c = 0 \/ c = 1 \/ c = 2 \/ c = 3 \/ c = 4 \/ c = 5 \/ c = 6 \/ c = 7
         \/ c = 8 \/ c = 9 \/ c = 10 \/ c = 11 \/ c = 12 \/ c = 13 \/ c = 14 \/ c = 15
  BY SMT DEF Half4

LEMMA Columns ==
  ASSUME NEW lo \in Half4
  PROVE  /\ Column(Unary, lo) \in UnaryOps \cup {"null", "jmp"}
         /\ Column(Short, lo) \in BranchOps
         /\ lo \notin {0, 1} => Column(Row1, lo) \in Plain \cup BranchOps
         /\ lo < 4 => Column(<<"x", "y", "s", "u">>, lo) \in Words
         /\ ~(lo < 4) => Column(Row3, lo) \in Plain
         /\ lo \notin 12 .. 15 \cup {3} => Column(Accu, lo) \in ByteOps \cup {"st"}
<1>1. Column(Unary, lo) \in UnaryOps \cup {"null", "jmp"}
  BY Sixteen DEF Column, Unary, UnaryOps
<1>2. Column(Short, lo) \in BranchOps
  BY Sixteen DEF Column, Short, BranchOps
<1>3. lo \notin {0, 1} => Column(Row1, lo) \in Plain \cup BranchOps
  BY Sixteen DEF Column, Row1, Plain, BranchOps
<1>4. lo < 4 => Column(<<"x", "y", "s", "u">>, lo) \in Words
  BY Sixteen DEF Column, Words
<1>5. ~(lo < 4) => Column(Row3, lo) \in Plain
  BY Sixteen DEF Column, Row3, Plain
<1>6. lo \notin 12 .. 15 \cup {3} => Column(Accu, lo) \in ByteOps \cup {"st"}
  BY Sixteen DEF Column, Accu, ByteOps
<1> QED  BY <1>1, <1>2, <1>3, <1>4, <1>5, <1>6

LEMMA InsLegal ==
  ASSUME NEW op, NEW R, NEW mode,
         \/ op \in ByteOps \cup {"st"} /\ R \in {"a", "b"}
         \/ op \in WordOps \cup {"st16"} /\ R \in Words \cup {"d"}
         \/ op = "lea" /\ R \in Words
         \/ op \in UnaryOps /\ R \in {"a", "b", "mem"}
         \/ op \in Plain \cup BranchOps
  PROVE  Legal(Ins(op, R, mode))
  BY Zenon DEF Legal, Ins

LEMMA UnaryLegal ==
  ASSUME NEW lo \in Half4, NEW R \in {"a", "b", "mem"}, NEW mode
  PROVE  Legal(Ins(Column(Unary, lo), R, mode))
  BY Columns, InsLegal, Zenon DEF Plain

LEMMA NullLegal == Legal(Null)
  BY InsLegal, Zenon DEF Null, Plain

LEMMA Page1Legal ==
  ASSUME NEW hi \in Half4, NEW lo \in Half4, ~(hi = 1 /\ lo \in {0, 1})
  PROVE  Legal(Page1(hi, lo))
<1>1. \A mode : Legal(Ins(Column(Unary, lo), "mem", mode))
  BY UnaryLegal
<1>2. \A mode : hi = 1 => Legal(Ins(Column(Row1, lo), "none", mode))
  BY Columns, InsLegal, Zenon
<1>3. \A mode : Legal(Ins(Column(Short, lo), "none", mode))
  BY Columns, InsLegal, Zenon
<1>4. \A mode : lo < 4 => Legal(Ins("lea", Column(<<"x", "y", "s", "u">>, lo), mode))
  BY Columns, InsLegal
<1>5. \A mode : ~(lo < 4) => Legal(Ins(Column(Row3, lo), "none", mode))
  BY Columns, InsLegal, Zenon
<1>6. \A mode : \A R \in {"a", "b"} : Legal(Ins(Column(Unary, lo), R, mode))
  BY UnaryLegal
<1>7. \A mode : \A R \in {"a", "b"} :
        lo \notin 12 .. 15 \cup {3} => Legal(Ins(Column(Accu, lo), R, mode))
  BY Columns, InsLegal, Zenon
<1>8. \A mode : /\ Legal(Ins("subd", "d", mode)) /\ Legal(Ins("addd", "d", mode))
                /\ Legal(Ins("cmp16", "x", mode)) /\ Legal(Ins("ld16", "d", mode))
                /\ Legal(Ins("st16", "d", mode))
                /\ \A R \in {"x", "u"} : Legal(Ins("ld16", R, mode)) /\ Legal(Ins("st16", R, mode))
  BY InsLegal DEF WordOps, Words
<1>9. \A mode : Legal(Ins("bsr", "none", mode)) /\ Legal(Ins("jsr", "none", mode))
  BY InsLegal DEF Plain
<1>10. CASE hi = 0
  BY <1>1, <1>10 DEF Page1
<1>11. CASE hi = 1
  BY <1>2, <1>11 DEF Page1
<1>12. CASE hi = 2
  BY <1>3, <1>12 DEF Page1
<1>13. CASE hi = 3
  BY <1>4, <1>5, <1>13 DEF Page1
<1>14. CASE hi \in {4, 5}
  BY <1>6, <1>14, NullLegal DEF Page1
<1>15. CASE hi \in {6, 7}
  BY <1>1, <1>15 DEF Page1
<1>16. CASE ~(hi < 8)
  <2>1. hi \notin {0, 1, 2, 3, 4, 5, 6, 7}
    BY <1>16, SMT DEF Half4
  <2>2. (IF hi < 12 THEN "a" ELSE "b") \in {"a", "b"} /\ (IF hi < 12 THEN "x" ELSE "u") \in {"x", "u"}
    OBVIOUS
  <2> QED  BY <2>1, <2>2, <1>7, <1>8, <1>9, NullLegal DEF Page1
<1> QED  BY <1>10, <1>11, <1>12, <1>13, <1>14, <1>15, <1>16, Sixteen

LEMMA OtherPagesLegal ==
  ASSUME NEW hi \in Half4, NEW lo \in Half4
  PROVE  Legal(Page2(hi, lo)) /\ Legal(Page3(hi, lo))
<1>1. \A mode : Legal(Ins(Column(Short, lo), "none", mode))
  BY Columns, InsLegal, Zenon
<1>2. \A mode : Legal(Ins("swi2", "none", mode)) /\ Legal(Ins("swi3", "none", mode))
  BY InsLegal DEF Plain
<1>3. \A mode : \A R \in {"d", "y", "s", "u"} :
        /\ Legal(Ins("cmp16", R, mode)) /\ Legal(Ins("ld16", R, mode)) /\ Legal(Ins("st16", R, mode))
  BY InsLegal DEF WordOps, Words
<1>4. Legal(Page2(hi, lo))
  BY <1>1, <1>2, <1>3, NullLegal DEF Page2
<1>5. Legal(Page3(hi, lo))
  BY <1>2, <1>3, NullLegal DEF Page3
<1> QED  BY <1>4, <1>5

LEMMA DecodeLegal ==
  ASSUME NEW page \in {1, 2, 3}, NEW v \in Byte, ~(page = 1 /\ v \in {16, 17})
  PROVE  Legal(Decode(page, v))
<1>1. v \div 16 \in Half4 /\ v % 16 \in Half4
  BY HalvesOfByte
<1>2. CASE page = 1
  <2>1. ~(v \div 16 = 1 /\ v % 16 \in {0, 1})
    BY <1>2, SMT DEF Byte
  <2> QED  BY <1>1, <1>2, <2>1, Page1Legal DEF Decode
<1>3. CASE page \in {2, 3}
  BY <1>1, <1>3, OtherPagesLegal DEF Decode
<1> QED  BY <1>2, <1>3

-----------------------------------------------------------------------------
\* The names after which an instruction branches.
LEMMA ConditionNames == ASSUME NEW cc PROVE DOMAIN Conditions(cc) = BranchOps
  BY DEF Conditions, BranchOps

LEMMA PlainTyped ==
  ASSUME NEW m0 \in Machines, NEW i, i.op \in Plain \cup BranchOps
  PROVE  Perform(m0, i) \in Machines
<1> DEFINE v == Post(m0)
           k == Skip(m0, 1)
<1>1. v \in Byte /\ k \in Machines /\ k.cc \in CC
  BY ReadTyped, SkipTyped, CcTyped DEF Post
<1>2. v % 16 \in Half4 /\ v \div 16 \in Half4
  <2> HIDE DEF v
  <2> QED  BY <1>1, HalvesOfByte
<1>3. \A n \in {1, 2} : EA(m0, i.mode, n) \in Places
  BY EATyped
<1>4. \A n \in {1, 2} : /\ Jmp(EA(m0, i.mode, n)) \in Machines /\ Jsr(EA(m0, i.mode, n)) \in Machines
                        /\ \A c : Branch(m0, c, EA(m0, i.mode, n)) \in Machines
  BY <1>3, JumpsTyped
<1>5. Fail(m0, "opcode") \in Machines
  BY FailTyped DEF Errors
<1>6. Exg(Known(Known(k, v % 16), v \div 16), v % 16, v \div 16) \in Machines
  <2> HIDE DEF k, v
  <2> QED  BY <1>1, <1>2, TransfersTyped
<1>7. Tfr(Known(k, v \div 16), v % 16, v \div 16) \in Machines
  <2> HIDE DEF k, v
  <2> QED  BY <1>1, <1>2, TransfersTyped
<1>8. /\ Psh(k, "s", "u", v) \in Machines /\ Psh(k, "u", "s", v) \in Machines
      /\ Pul(k, "s", "u", v) \in Machines /\ Pul(k, "u", "s", v) \in Machines
  <2> HIDE DEF k, v
  <2> QED  BY <1>1, PshTyped, PulTyped DEF Stacks
<1>9. [m0 EXCEPT !.x = W(m0.x + m0.b)] \in Machines
  <2>1. m0.x \in Word /\ m0.b \in Int
    BY Fields, ByteInt
  <2>2. W(m0.x + m0.b) \in Word
    BY <2>1, NearWord
  <2> QED  BY <2>2, OtherSet
<1>10. /\ [k EXCEPT !.cc = Andcc(k.cc, v)] \in Machines /\ [k EXCEPT !.cc = Orcc(k.cc, v)] \in Machines
       /\ [k EXCEPT !.cc = Cwai(k.cc, v)] \in Machines
  <2> HIDE DEF k, v
  <2> QED  BY <1>1, FlagsTyped, CcSet
<1>11. /\ Into(m0, "a", Daa(m0.cc, m0.a)) \in Machines
       /\ IntoWide(m0, "d", Mul(m0.cc, m0.a, m0.b)) \in Machines
       /\ IntoWide(m0, "d", Sex(m0.cc, m0.b)) \in Machines
  <2>1. m0.cc \in CC /\ m0.a \in Byte /\ m0.b \in Byte
    BY Fields
  <2>2. Daa(m0.cc, m0.a) \in ByteGives /\ Mul(m0.cc, m0.a, m0.b) \in WordGives /\ Sex(m0.cc, m0.b) \in WordGives
    BY <2>1, DaaTyped, MulTyped, SexTyped
  <2> QED  BY <2>2, IntoTyped, IntoWideTyped DEF Bytes
<1> HIDE DEF Machines
<1>b. i.op \in Plain => i.op \notin DOMAIN Conditions(m0.cc)
  BY ConditionNames DEF Plain, BranchOps
<1>12. CASE i.op = "null"
  BY <1>12, <1>5, <1>b DEF Perform, Plain
<1>13. CASE i.op = "jmp"
  BY <1>13, <1>4, <1>b DEF Perform, Plain
<1>14. CASE i.op = "nop"
  BY <1>14, <1>b DEF Perform, Plain
<1>15. CASE i.op = "syn"
  BY <1>15, <1>b DEF Perform, Plain
<1>16. CASE i.op = "bsr"
  BY <1>16, BsrTyped, <1>b DEF Perform, Plain
<1>17. CASE i.op = "daa"
  BY <1>17, <1>11, <1>b DEF Perform, Plain
<1>18. CASE i.op = "orcc"
  BY <1>18, <1>10, <1>b DEF Perform, Plain
<1>19. CASE i.op = "andc"
  BY <1>19, <1>10, <1>b DEF Perform, Plain
<1>20. CASE i.op = "sex"
  BY <1>20, <1>11, <1>b DEF Perform, Plain
<1>21. CASE i.op = "exg"
  BY <1>21, <1>6, <1>b DEF Perform, Plain
<1>22. CASE i.op = "tfr"
  BY <1>22, <1>7, <1>b DEF Perform, Plain
<1>23. CASE i.op = "pshs"
  BY <1>23, <1>8, <1>b DEF Perform, Plain
<1>24. CASE i.op = "puls"
  BY <1>24, <1>8, <1>b DEF Perform, Plain
<1>25. CASE i.op = "pshu"
  BY <1>25, <1>8, <1>b DEF Perform, Plain
<1>26. CASE i.op = "pulu"
  BY <1>26, <1>8, <1>b DEF Perform, Plain
<1>27. CASE i.op = "rts"
  BY <1>27, ReturnsTyped, <1>b DEF Perform, Plain
<1>28. CASE i.op = "abx"
  BY <1>28, <1>9, <1>b DEF Perform, Plain
<1>29. CASE i.op = "rti"
  BY <1>29, ReturnsTyped, <1>b DEF Perform, Plain
<1>30. CASE i.op = "cwai"
  BY <1>30, <1>10, <1>b DEF Perform, Plain
<1>31. CASE i.op = "mul"
  BY <1>31, <1>11, <1>b DEF Perform, Plain
<1>32. CASE i.op = "swi"
  BY <1>32, InterruptsTyped, <1>b DEF Perform, Plain
<1>33. CASE i.op = "swi2"
  BY <1>33, InterruptsTyped, <1>b DEF Perform, Plain
<1>34. CASE i.op = "swi3"
  BY <1>34, InterruptsTyped, <1>b DEF Perform, Plain
<1>35. CASE i.op = "jsr"
  BY <1>35, <1>4, <1>b DEF Perform, Plain
<1>36. CASE i.op \in BranchOps
  <2>1. Perform(m0, i) = Branch(m0, i.op, EA(m0, i.mode, 1))
    BY <1>36, ConditionNames DEF Perform, BranchOps
  <2> QED  BY <2>1, <1>4
<1> QED  BY <1>12, <1>13, <1>14, <1>15, <1>16, <1>17, <1>18, <1>19, <1>20, <1>21, <1>22, <1>23, <1>24, <1>25, <1>26, <1>27, <1>28, <1>29, <1>30, <1>31, <1>32, <1>33, <1>34, <1>35, <1>36 DEF Plain

LEMMA PerformTyped ==
  ASSUME NEW m0 \in Machines, NEW i, Legal(i)
  PROVE  Perform(m0, i) \in Machines
<1>1. \A n \in {1, 2} : EA(m0, i.mode, n) \in Places
  BY EATyped
<1>2. CASE i.op \in ByteOps /\ i.R \in {"a", "b"}
  <2>1. Perform(m0, i) = OnAccu(m0, i, EA(m0, i.mode, 1))
    BY <1>2, ConditionNames DEF Perform, BranchOps, ByteOps
  <2> QED  BY <1>1, <1>2, <2>1, OnAccuTyped
<1>3. CASE i.op \in WordOps /\ i.R \in Words \cup {"d"}
  <2>1. Perform(m0, i) = OnWide(m0, i, EA(m0, i.mode, 2))
    BY <1>3, ConditionNames DEF Perform, BranchOps, WordOps
  <2> QED  BY <1>1, <1>3, <2>1, OnWideTyped
<1>4. CASE i.op = "st" /\ i.R \in {"a", "b"}
  <2>1. Perform(m0, i) = St(m0, i, EA(m0, i.mode, 1))
    BY <1>4, ConditionNames DEF Perform, BranchOps
  <2> QED  BY <1>1, <1>4, <2>1, StTyped
<1>5. CASE i.op = "st16" /\ i.R \in Words \cup {"d"}
  <2>1. Perform(m0, i) = St16(m0, i, EA(m0, i.mode, 2))
    BY <1>5, ConditionNames DEF Perform, BranchOps
  <2> QED  BY <1>1, <1>5, <2>1, St16Typed
<1>6. CASE i.op = "lea" /\ i.R \in Words
  <2>1. Perform(m0, i) = Lea(i, EA(m0, i.mode, 2))
    BY <1>6, ConditionNames DEF Perform, BranchOps
  <2> QED  BY <1>1, <1>6, <2>1, LeaTyped
<1>7. CASE i.op \in UnaryOps /\ i.R \in {"a", "b", "mem"}
  <2>1. Perform(m0, i) = IF i.R = "mem" THEN OnMemory(m0, i, EA(m0, i.mode, 1)) ELSE OnByte(m0, i)
    BY <1>7, ConditionNames DEF Perform, UnaryOps, BranchOps
  <2>2. OnMemory(m0, i, EA(m0, i.mode, 1)) \in Machines
    BY <1>1, <1>7, OnMemoryTyped
  <2>3. i.R # "mem" => OnByte(m0, i) \in Machines
    BY <1>7, OnByteTyped
  <2> QED  BY <2>1, <2>2, <2>3
<1>8. CASE i.op \in Plain \cup BranchOps
  BY <1>8, PlainTyped
<1> QED  BY <1>2, <1>3, <1>4, <1>5, <1>6, <1>7, <1>8 DEF Legal

\* Every instruction leaves every register, and every byte it writes, in the
\* width of its C type, whatever the memory holds: inst6809.c masks each
\* result.  So the program counter, which m6809_execute reads next, is an
\* address, and the only errors are those execute() looks for.
THEOREM ExecuteTyped == ASSUME NEW m0 \in Machines PROVE Execute(m0) \in Machines
<1> DEFINE k == Skip([m0 EXCEPT !.err = "none"], 1)
           opcode == Post(m0)
<1>1. k \in Machines
  <2>1. [m0 EXCEPT !.err = "none"] \in Machines
    BY OtherSet DEF Errors
  <2> QED  BY <2>1, SkipTyped
<1>2. opcode \in Byte
  BY ReadTyped DEF Post
<1>3. Execute(m0) = Fetch(k, opcode)
  BY Zenon DEF Execute
<1> HIDE DEF k, opcode
<1>4. CASE opcode \in {16, 17}
  <2>1. Post(k) \in Byte /\ Skip(k, 1) \in Machines
    BY <1>1, ReadTyped, SkipTyped DEF Post
  <2>2. opcode - 14 \in {2, 3}
    BY <1>4
  <2>3. Legal(Decode(opcode - 14, Post(k)))
    BY <2>1, <2>2, DecodeLegal
  <2>4. Perform(Skip(k, 1), Decode(opcode - 14, Post(k))) \in Machines
    BY <2>1, <2>3, PerformTyped
  <2> QED  BY <1>3, <1>4, <2>4 DEF Fetch
<1>5. CASE opcode \notin {16, 17}
  <2>1. Legal(Decode(1, opcode))
    BY <1>2, <1>5, DecodeLegal
  <2> QED  BY <1>1, <1>3, <1>5, <2>1, PerformTyped DEF Fetch
<1> QED  BY <1>4, <1>5

-----------------------------------------------------------------------------
(* The disks.                                                              *)

Fdcs == [drv : Nat, com : Nat, trk : Nat, sec : Nat, dat : Nat, dcount : Nat, dmax : Nat, delay : Nat]
Buffers == [0 .. (2 * SectorBytes) - 1 -> Byte]
DiskStates == [images : [K!Drives -> Seq(Blocks)], seldrv : Byte, buf : Buffers, fdc : Fdcs]

LEMMA Size == SectorBytes \in Nat /\ 0 < SectorBytes /\ SectorBytes <= 256
  BY SizeAssumption

LEMMA FilledTyped ==
  ASSUME NEW k \in DiskStates, NEW block \in Blocks
  PROVE  K!Filled(k, block) \in Buffers
<1>1. k.buf \in Buffers
  BY DEF DiskStates
<1>2. \A i \in 0 .. (2 * SectorBytes) - 1 : i < SectorBytes => i \in 0 .. SectorBytes - 1
  BY Size
<1> QED  BY <1>1, <1>2 DEF K!Filled, Buffers, Blocks

LEMMA HalfTyped == ASSUME NEW k \in DiskStates PROVE K!Half(k) \in Blocks
<1>1. k.buf \in Buffers
  BY DEF DiskStates
<1>2. \A i \in 0 .. SectorBytes - 1 : i \in 0 .. (2 * SectorBytes) - 1
  BY Size
<1> QED  BY <1>1, <1>2 DEF K!Half, Buffers, Blocks

LEMMA BlockOfNat ==
  ASSUME NEW t \in Byte, NEW s \in Byte
  PROVE  K!BlockOf(t, s) + 1 \in Nat \ {0}
<1>1. t \in Int /\ s \in Int
  BY ByteInt
<1> QED  BY <1>1 DEF K!BlockOf, K!TrackSectors

LEMMA BufSet == ASSUME NEW k \in DiskStates, NEW b \in Buffers PROVE [k EXCEPT !.buf = b] \in DiskStates
  BY DEF DiskStates

LEMMA FileReadTyped ==
  ASSUME NEW k \in DiskStates, NEW t \in Byte, NEW s \in Byte
  PROVE  K!FileRead(k, t, s) \in DiskStates
<1> DEFINE image == k.images[k.seldrv]
           b == K!BlockOf(t, s) + 1
           k1 == [k EXCEPT !.fdc.dmax = SectorBytes]
           buf == IF b <= Len(image) THEN K!Filled(k, image[b]) ELSE k.buf
<1>1. CASE ~K!Ready(k)
  BY <1>1 DEF K!FileRead
<1>2. CASE K!Ready(k)
  <2>1. b \in Nat \ {0}
    BY BlockOfNat
  <2>2. image \in Seq(Blocks)
    BY <1>2 DEF K!Ready, DiskStates
  <2>3. b <= Len(image) => image[b] \in Blocks
    <3> HIDE DEF b, image
    <3> QED  BY <2>1, <2>2
  <2>4. buf \in Buffers
    <3>1. k.buf \in Buffers
      BY DEF DiskStates
    <3> HIDE DEF b, image
    <3> QED  BY <2>3, <3>1, FilledTyped
  <2>5. k1 \in DiskStates
    <3>1. k.fdc \in Fdcs
      BY DEF DiskStates
    <3>2. [k.fdc EXCEPT !.dmax = SectorBytes] \in Fdcs
      BY <3>1, Size DEF Fdcs
    <3> QED  BY <3>2 DEF DiskStates
  <2>6. K!FileRead(k, t, s) = [k1 EXCEPT !.buf = buf]
    BY <1>2 DEF K!FileRead
  <2> HIDE DEF k1, buf
  <2> QED  BY <2>4, <2>5, <2>6, BufSet
<1> QED  BY <1>1, <1>2

LEMMA FileWriteTyped ==
  ASSUME NEW k \in DiskStates, NEW t \in Byte, NEW s \in Byte
  PROVE  K!FileWrite(k, t, s) \in DiskStates
<1> DEFINE image == k.images[k.seldrv]
           b == K!BlockOf(t, s) + 1
           n == IF b > Len(image) THEN b ELSE Len(image)
           longer == [i \in 1 .. n |-> IF i = b THEN K!Half(k)
                                       ELSE IF i <= Len(image) THEN image[i] ELSE K!Zeros]
<1>1. CASE ~K!Ready(k)
  BY <1>1 DEF K!FileWrite
<1>2. CASE K!Ready(k)
  <2>1. b \in Nat \ {0}
    BY BlockOfNat
  <2>2. image \in Seq(Blocks)
    BY <1>2 DEF K!Ready, DiskStates
  <2>3. K!Half(k) \in Blocks
    BY HalfTyped
  <2>4. K!Zeros \in Blocks
    BY DEF K!Zeros, Blocks, Byte
  <2>5. longer \in Seq(Blocks)
    <3> HIDE DEF b, image
    <3>1. n \in Nat
      BY <2>1, <2>2
    <3>2. \A i \in 1 .. n : (IF i = b THEN K!Half(k)
                             ELSE IF i <= Len(image) THEN image[i] ELSE K!Zeros) \in Blocks
      BY <2>1, <2>2, <2>3, <2>4
    <3> HIDE DEF n
    <3>3. longer \in [1 .. n -> Blocks]
      BY <3>2
    <3> QED  BY <3>1, <3>3
  <2>6. K!FileWrite(k, t, s) = [k EXCEPT !.images[k.seldrv] = longer]
    BY <1>2 DEF K!FileWrite
  <2> HIDE DEF longer
  <2> QED  BY <1>2, <2>5, <2>6 DEF DiskStates
<1> QED  BY <1>1, <1>2

-----------------------------------------------------------------------------
(* What the simulator starts from.                                         *)

LEMMA Routines ==
  /\ INCH \in Seq(Byte) /\ Len(INCH) = 10
  /\ INCHE \in Seq(Byte) /\ Len(INCHE) = 17
  /\ INCHEK \in Seq(Byte) /\ Len(INCHEK) = 11
  /\ OUTCH \in Seq(Byte) /\ Len(OUTCH) = 10
  /\ \A n \in Byte : S(n) \in Seq(Byte) /\ Len(S(n)) = 12
  /\ BAD \in Seq(Byte) /\ Len(BAD) = 2
<1>1. INCH \in Seq(Byte) /\ Len(INCH) = 10
  BY DEF INCH, Byte
<1>2. INCHE \in Seq(Byte) /\ Len(INCHE) = 17
  BY DEF INCHE, Byte
<1>3. INCHEK \in Seq(Byte) /\ Len(INCHEK) = 11
  BY DEF INCHEK, Byte
<1>4. OUTCH \in Seq(Byte) /\ Len(OUTCH) = 10
  BY DEF OUTCH, Byte
<1>5. \A n \in Byte : S(n) \in Seq(Byte) /\ Len(S(n)) = 12
  BY DEF S, Byte
<1>6. BAD \in Seq(Byte) /\ Len(BAD) = 2
  BY DEF BAD, Byte
<1> QED  BY <1>1, <1>2, <1>3, <1>4, <1>5, <1>6

LEMMA Concat ==
  ASSUME NEW s \in Seq(Byte), NEW t \in Seq(Byte)
  PROVE  s \o t \in Seq(Byte) /\ Len(s \o t) = Len(s) + Len(t)
  BY ConcatProperties

LEMMA ConcatTwelve ==
  ASSUME NEW s \in Seq(Byte), NEW t \in Seq(Byte), Len(t) = 12
  PROVE  s \o t \in Seq(Byte) /\ Len(s \o t) = Len(s) + 12
  BY Concat

LEMMA DriverTyped == Driver \in Seq(Byte) /\ Len(Driver) = 110
<1> DEFINE d1 == INCH \o INCHE
           d2 == d1 \o INCHEK
           d3 == d2 \o OUTCH
           d4 == d3 \o S(0)
           d5 == d4 \o S(1)
           d6 == d5 \o S(2)
           d7 == d6 \o S(4)
           d8 == d7 \o S(5)
           d9 == d8 \o BAD
<1>0. /\ S(0) \in Seq(Byte) /\ Len(S(0)) = 12 /\ S(1) \in Seq(Byte) /\ Len(S(1)) = 12
      /\ S(2) \in Seq(Byte) /\ Len(S(2)) = 12 /\ S(4) \in Seq(Byte) /\ Len(S(4)) = 12
      /\ S(5) \in Seq(Byte) /\ Len(S(5)) = 12
  <2>1. 0 \in Byte /\ 1 \in Byte /\ 2 \in Byte /\ 4 \in Byte /\ 5 \in Byte
    BY DEF Byte
  <2> QED  BY <2>1, Routines, Zenon
<1>1. d1 \in Seq(Byte) /\ Len(d1) = 27
  <2>1. d1 \in Seq(Byte) /\ Len(d1) = Len(INCH) + Len(INCHE)
    BY <1>0, Routines, Concat, Zenon
  <2> HIDE DEF d1
  <2> QED  BY <1>0, <2>1, Routines
<1>2. d2 \in Seq(Byte) /\ Len(d2) = 38
  <2> HIDE DEF d1
  <2>1. d2 \in Seq(Byte) /\ Len(d2) = Len(d1) + Len(INCHEK)
    BY <1>0, <1>1, Routines, Concat, Zenon
  <2> HIDE DEF d2
  <2> QED  BY <1>0, <1>1, <2>1, Routines
<1>3. d3 \in Seq(Byte) /\ Len(d3) = 48
  <2> HIDE DEF d2
  <2>1. d3 \in Seq(Byte) /\ Len(d3) = Len(d2) + Len(OUTCH)
    BY <1>0, <1>2, Routines, Concat, Zenon
  <2> HIDE DEF d3
  <2> QED  BY <1>0, <1>2, <2>1, Routines
<1>4. d4 \in Seq(Byte) /\ Len(d4) = 60
  <2> HIDE DEF d3
  <2>1. d4 \in Seq(Byte) /\ Len(d4) = Len(d3) + 12
    BY <1>0, <1>3, ConcatTwelve, Zenon
  <2> HIDE DEF d4
  <2> QED  BY <1>3, <2>1
<1>5. d5 \in Seq(Byte) /\ Len(d5) = 72
  <2> HIDE DEF d4
  <2>1. d5 \in Seq(Byte) /\ Len(d5) = Len(d4) + 12
    BY <1>0, <1>4, ConcatTwelve, Zenon
  <2> HIDE DEF d5
  <2> QED  BY <1>4, <2>1
<1>6. d6 \in Seq(Byte) /\ Len(d6) = 84
  <2> HIDE DEF d5
  <2>1. d6 \in Seq(Byte) /\ Len(d6) = Len(d5) + 12
    BY <1>0, <1>5, ConcatTwelve, Zenon
  <2> HIDE DEF d6
  <2> QED  BY <1>5, <2>1
<1>7. d7 \in Seq(Byte) /\ Len(d7) = 96
  <2> HIDE DEF d6
  <2>1. d7 \in Seq(Byte) /\ Len(d7) = Len(d6) + 12
    BY <1>0, <1>6, ConcatTwelve, Zenon
  <2> HIDE DEF d7
  <2> QED  BY <1>6, <2>1
<1>8. d8 \in Seq(Byte) /\ Len(d8) = 108
  <2> HIDE DEF d7
  <2>1. d8 \in Seq(Byte) /\ Len(d8) = Len(d7) + 12
    BY <1>0, <1>7, ConcatTwelve, Zenon
  <2> HIDE DEF d8
  <2> QED  BY <1>7, <2>1
<1>9. d9 \in Seq(Byte) /\ Len(d9) = 110
  <2> HIDE DEF d8
  <2>1. d9 \in Seq(Byte) /\ Len(d9) = Len(d8) + Len(BAD)
    BY <1>0, <1>8, Routines, Concat, Zenon
  <2> HIDE DEF d9
  <2> QED  BY <1>0, <1>8, <2>1, Routines
<1> QED  BY <1>9 DEF Driver

LEMMA MemoryTyped == Memory \in Memories
<1> DEFINE f == [i \in Base .. Base + Len(Driver) - 1 |-> Driver[i - Base + 1]]
           g == [i \in Home .. Home + 4 |-> <<189, 0, 0, 32, 251>>[i - Home + 1]]
           S1 == Base .. Base + Len(Driver) - 1
           S2 == Home .. Home + 4
<1>1. f \in Memories
  <2>1. S1 \in SUBSET Word
    BY DriverTyped DEF Base, Word
  <2>2. \A i \in S1 : Driver[i - Base + 1] \in Byte
    <3> SUFFICES ASSUME NEW i \in S1 PROVE Driver[i - Base + 1] \in Byte
      OBVIOUS
    <3>1. i - Base + 1 \in 1 .. Len(Driver)
      BY DriverTyped DEF Base
    <3> QED  BY <3>1, DriverTyped, ElementOfSeq
  <2>3. f \in [S1 -> Byte]
    BY <2>2
  <2> QED  BY <2>1, <2>3, MemoryGiven, Zenon
<1>2. g \in Memories
  <2>1. S2 \in SUBSET Word
    BY DEF Home, Word
  <2>2. \A i \in S2 : <<189, 0, 0, 32, 251>>[i - Home + 1] \in Byte
    <3> SUFFICES ASSUME NEW i \in S2 PROVE <<189, 0, 0, 32, 251>>[i - Home + 1] \in Byte
      OBVIOUS
    <3>1. i - Home + 1 = 1 \/ i - Home + 1 = 2 \/ i - Home + 1 = 3 \/ i - Home + 1 = 4 \/ i - Home + 1 = 5
      BY DEF Home
    <3> QED  BY <3>1 DEF Byte
  <2>3. g \in [S2 -> Byte]
    BY <2>2
  <2> QED  BY <2>1, <2>3, MemoryGiven, Zenon
<1> QED  BY <1>1, <1>2, OverMemory DEF Memory

LEMMA PowerOnTyped == PowerOn(Memory) \in Machines
<1>1. 0 \in Word /\ 0 \in Byte /\ 0 \in Int
  BY SMT DEF Word, Byte
<1>2. Setcc(0) \in CC
  BY <1>1, SetccTyped
<1> QED  BY <1>1, <1>2, MemoryTyped DEF PowerOn, Machines, Errors

LEMMA InitTyped == Init => m \in Machines /\ disks \in DiskStates
<1> SUFFICES ASSUME Init PROVE m \in Machines /\ disks \in DiskStates
  OBVIOUS
<1> DEFINE m0 == PowerOn(Memory)
           m1 == [m0 EXCEPT !.pc = Home]
           m2 == [m1 EXCEPT !.s = Stack]
           m3 == [m2 EXCEPT !.y = 4660]
           m4 == [m3 EXCEPT !.u = 22136]
           m5 == [m4 EXCEPT !.dp = 7]
<1>0. Home \in Word /\ Stack \in Word /\ 4660 \in Word /\ 22136 \in Word /\ 7 \in Byte
  BY SMT DEF Home, Stack, Word, Byte
<1>1. m1 \in Machines
  BY <1>0, PowerOnTyped, OtherSet
<1>2. m2 \in Machines
  <2> HIDE DEF m1
  <2> QED  BY <1>0, <1>1, OtherSet
<1>3. m3 \in Machines
  <2> HIDE DEF m2
  <2> QED  BY <1>0, <1>2, WordSet, SMT DEF Words
<1>4. m4 \in Machines
  <2> HIDE DEF m3
  <2> QED  BY <1>0, <1>3, WordSet, SMT DEF Words
<1>5. m5 \in Machines
  <2> HIDE DEF m4
  <2> QED  BY <1>0, <1>4, ByteSet, SMT DEF Bytes
<1>6. m = m5
  BY SMT DEF Init
<1>7. disks \in DiskStates
  <2>1. K!NoRegisters \in Fdcs
    BY DEF K!NoRegisters, Fdcs
  <2>2. [i \in 0 .. (2 * SectorBytes) - 1 |-> 0] \in Buffers /\ 0 \in Byte
    BY DEF Buffers, Byte
  <2> QED  BY <2>1, <2>2, ImagesAssumption DEF Init, K!Disks, DiskStates
<1> HIDE DEF m5
<1> QED  BY <1>5, <1>6, <1>7

-----------------------------------------------------------------------------
(* The steps of the simulator.                                             *)

Routine == {"inch", "inche", "inchek", "outch", "read", "write", "verify", "drive", "chkrdy", "bad"}

LEMMA EntryTyped == ASSUME NEW R \in Routine PROVE Entry[R] \in Word
  BY SMT DEF Routine, Entry, Base, Word

LEMMA CopiedTyped ==
  ASSUME NEW m0 \in Machines, NEW adr \in Word, NEW block \in Blocks
  PROVE  Copied(m0, adr, block) \in Machines
<1> DEFINE S1 == {W(adr + i) : i \in 0 .. SectorBytes - 1}
           f  == [a \in S1 |-> block[W(a - adr)]]
<1>1. \A i \in 0 .. SectorBytes - 1 : W(W(adr + i) - adr) = i /\ W(adr + i) \in Word
  <2> SUFFICES ASSUME NEW i \in 0 .. SectorBytes - 1
               PROVE  W(W(adr + i) - adr) = i /\ W(adr + i) \in Word
    OBVIOUS
  <2>1. adr \in Int /\ 0 <= adr /\ adr < 65536 /\ i \in Int /\ 0 <= i /\ i < 65536
    BY WordInt, Size
  <2> QED  BY <2>1, SMT DEF W, Word
<1>2. S1 \in SUBSET Word
  BY <1>1
<1>3. f \in [S1 -> Byte]
  <2>1. \A a \in S1 : block[W(a - adr)] \in Byte
    <3> SUFFICES ASSUME NEW a \in S1 PROVE block[W(a - adr)] \in Byte
      OBVIOUS
    <3>1. PICK i \in 0 .. SectorBytes - 1 : a = W(adr + i)
      OBVIOUS
    <3>2. W(a - adr) = i
      BY <1>1, <3>1
    <3> QED  BY <3>2 DEF Blocks
  <2> HIDE DEF S1
  <2> QED  BY <2>1
<1>4. f \in Memories
  <2> HIDE DEF f, S1
  <2> QED  BY <1>2, <1>3, MemoryGiven
<1>5. Copied(m0, adr, block) = [m0 EXCEPT !.mem = Over(f, m0.mem)]
  BY DEF Copied
<1>6. Over(f, m0.mem) \in Memories
  <2> HIDE DEF f
  <2> QED  BY <1>4, Fields, OverMemory
<1> HIDE DEF f
<1> QED  BY <1>5, <1>6, OtherSet

\* A key is a byte.
LEMMA KeyByte == ASSUME NEW k \in Keys PROVE k \in Byte
  BY KeysAssumption DEF Byte

LEMMA ServiceTyped ==
  ASSUME NEW q \in Services
  PROVE  /\ q.op \in Routine
         /\ IsDisk(q) => q.sector[1] \in Byte /\ q.sector[2] \in Byte /\ q.sector[3] \in Byte
         /\ q.op = "write" => Pattern[q.value] \in Byte
         /\ q.op = "outch" => q.char \in Byte
         /\ q.op = "chkrdy" => q.drive \in Byte
<1>1. 1 \in 1 .. 3 /\ 2 \in 1 .. 3 /\ 3 \in 1 .. 3
  OBVIOUS
<1> QED  BY <1>1, ServicesAssumption, PatternAssumption DEF IsDisk, Routine

LEMMA OwnTyped == ASSUME NEW m0 \in Machines PROVE Own(m0) \in Machines
<1> DEFINE m1 == [PowerOn(Memory) EXCEPT !.pc = m0.pc]
           m2 == [m1 EXCEPT !.s = m0.s]
           m3 == [m2 EXCEPT !.y = m0.y]
           m4 == [m3 EXCEPT !.u = m0.u]
           m5 == [m4 EXCEPT !.dp = m0.dp]
<1>0. m0.pc \in Word /\ m0.s \in Word /\ m0.y \in Word /\ m0.u \in Word /\ m0.dp \in Byte
  BY DEF Machines
<1>1. m1 \in Machines
  BY <1>0, PowerOnTyped, OtherSet
<1>2. m2 \in Machines
  <2> HIDE DEF m1
  <2> QED  BY <1>0, <1>1, OtherSet
<1>3. m3 \in Machines
  <2> HIDE DEF m2
  <2> QED  BY <1>0, <1>2, WordSet, SMT DEF Words
<1>4. m4 \in Machines
  <2> HIDE DEF m3
  <2> QED  BY <1>0, <1>3, WordSet, SMT DEF Words
<1>5. m5 \in Machines
  <2> HIDE DEF m4
  <2> QED  BY <1>0, <1>4, ByteSet, SMT DEF Bytes
<1>6. Own(m0) = m5
  BY SMT DEF Own
<1> HIDE DEF m5
<1> QED  BY <1>5, <1>6

-----------------------------------------------------------------------------
(* The invariant: the types, and that the loop goes on to no instruction   *)
(* at a break point.                                                       *)

Types ==
  /\ m \in Machines
  /\ disks \in DiskStates
  /\ waiting \in Seq(Keys)
  /\ prepc \in Word
  /\ stage = "select" => call \in Services /\ IsDisk(call)

Passed == phase = "loop" \/ (phase = "run" /\ done # 0) => Brk(m.pc) \in {0, 2}

LEMMA StepTyped ==
  ASSUME NEW m0 \in Machines, Step(m0), prepc \in Word
  PROVE  /\ m' \in Machines /\ prepc' \in Word /\ disks' = disks /\ waiting' = waiting
         /\ brkbuf' = brkbuf
         /\ phase = "run" /\ phase' = "run" => Brk(m'.pc) = 0
         /\ phase = "run" => phase' # "loop"
<1>1. m' \in Machines
  BY ExecuteTyped DEF Step
<1>2. m'.pc \in Word
  BY <1>1, Fields
<1>3. prepc' \in Word
  BY <1>2 DEF Step
<1>4. disks' = disks /\ waiting' = waiting /\ brkbuf' = brkbuf
  BY DEF Step, devices
<1>5. phase = "run" /\ phase' = "run" => Brk(m'.pc) = 0
  BY DEF Step
<1>6. phase = "run" => phase' # "loop"
  BY DEF Step
<1> QED  BY <1>1, <1>3, <1>4, <1>5, <1>6

\* What the four actions that perform an instruction have in common.
LEMMA StepKeeps ==
  ASSUME Types, phase = "run", NEW m0 \in Machines, Step(m0),
         stage' = "select" => call' \in Services /\ IsDisk(call')
  PROVE  Types' /\ Passed'
<1>1. m' \in Machines /\ prepc' \in Word /\ disks' = disks /\ waiting' = waiting /\ brkbuf' = brkbuf
  BY StepTyped DEF Types
<1>2. phase' = "run" => Brk(m'.pc) = 0
  BY StepTyped DEF Types
<1>3. phase' # "loop"
  BY StepTyped DEF Types
<1>4. Types'
  BY <1>1 DEF Types
<1>5. Passed'
  <2>1. phase' = "run" => (IF m'.pc \in DOMAIN brkbuf' THEN brkbuf'[m'.pc] ELSE 0) = 0
    BY <1>1, <1>2 DEF Brk
  <2> QED  BY <1>3, <2>1 DEF Passed, Brk
<1> QED  BY <1>4, <1>5

LEMMA EnterTyped ==
  ASSUME NEW R \in Routine, NEW m1 \in Machines
  PROVE  WriteW(m1, Home + 1, Entry[R]) \in Machines
<1>1. Home + 1 \in Word
  BY SMT DEF Home, Word
<1> QED  BY <1>1, EntryTyped, WriteWTyped

LEMMA FcbWritten ==
  ASSUME NEW v \in Byte, Types
  PROVE  Write([m EXCEPT !.x = Fcb], Fcb + 3, v) \in Machines
<1>1. Fcb \in Word /\ Fcb + 3 \in Word
  BY SMT DEF Fcb, Word
<1>2. [m EXCEPT !.x = Fcb] \in Machines
  BY <1>1, OtherSet DEF Types
<1> QED  BY <1>1, <1>2, WriteTyped

LEMMA CallKeeps == ASSUME Types, Call PROVE Types' /\ Passed'
<1>1. PICK q \in Services : (Select(q) \/ Single(q)) /\ call' = q
  BY DEF Call
<1>2. phase = "run"
  BY DEF Call
<1>3. q.op \in Routine
  BY <1>1, ServiceTyped
<1>4. CASE Select(q)
  <2> DEFINE m1 == Write([m EXCEPT !.x = Fcb], Fcb + 3, q.sector[1])
             block == [i \in 0 .. SectorBytes - 1 |-> (Pattern[q.value] + i) % 256]
             m2 == IF q.op = "read" THEN m1 ELSE Copied(m1, Buffer, block)
  <2>1. IsDisk(q) /\ Enter("drive", m2) /\ stage' = "select"
    BY <1>4 DEF Select
  <2>2. q.sector[1] \in Byte
    BY <2>1, ServiceTyped
  <2>3. m1 \in Machines
    BY <2>2, FcbWritten
  <2>4. q.op # "read" => block \in Blocks
    <3> SUFFICES ASSUME q.op # "read" PROVE block \in Blocks
      OBVIOUS
    <3>1. q.op = "write"
      BY <2>1 DEF IsDisk
    <3>2. Pattern[q.value] \in Int
      BY <3>1, ServiceTyped, ByteInt
    <3>3. \A i \in 0 .. SectorBytes - 1 : (Pattern[q.value] + i) % 256 \in Byte
      BY <3>2, ModByte
    <3> QED  BY <3>3 DEF Blocks
  <2>5. m2 \in Machines
    <3>1. Buffer \in Word
      BY SMT DEF Buffer, Word
    <3> HIDE DEF m1, block
    <3> QED  BY <2>3, <2>4, <3>1, CopiedTyped
  <2> HIDE DEF m2
  <2>6. "drive" \in Routine
    BY DEF Routine
  <2>7. WriteW(m2, Home + 1, Entry["drive"]) \in Machines /\ Step(WriteW(m2, Home + 1, Entry["drive"]))
    BY <2>1, <2>5, <2>6, EnterTyped DEF Enter
  <2> QED  BY <1>1, <1>2, <2>1, <2>7, StepKeeps
<1>5. CASE Single(q)
  <2> DEFINE m2 == CASE q.op = "outch"  -> [m EXCEPT !.a = q.char]
                     [] q.op = "chkrdy" -> Write([m EXCEPT !.x = Fcb], Fcb + 3, q.drive)
                     [] OTHER           -> m
  <2>1. Enter(q.op, m2) /\ stage' = "transfer"
    BY <1>5 DEF Single
  <2>2. q.op = "outch" => [m EXCEPT !.a = q.char] \in Machines
    BY ServiceTyped, OtherSet DEF Types
  <2>3. q.op = "chkrdy" => Write([m EXCEPT !.x = Fcb], Fcb + 3, q.drive) \in Machines
    BY ServiceTyped, FcbWritten
  <2>4. m2 \in Machines
    BY <2>2, <2>3 DEF Types
  <2> HIDE DEF m2
  <2>5. WriteW(m2, Home + 1, Entry[q.op]) \in Machines /\ Step(WriteW(m2, Home + 1, Entry[q.op]))
    BY <1>3, <2>1, <2>4, EnterTyped DEF Enter
  <2> QED  BY <1>2, <2>1, <2>5, StepKeeps
<1> QED  BY <1>1, <1>4, <1>5

LEMMA TransferKeeps == ASSUME Types, Transfer PROVE Types' /\ Passed'
<1> DEFINE m1 == [m EXCEPT !.x = Buffer]
           m2 == [m1 EXCEPT !.a = call.sector[2]]
           m3 == [m2 EXCEPT !.b = call.sector[3]]
<1>1. phase = "run" /\ stage' = "transfer" /\ call \in Services /\ IsDisk(call)
  BY DEF Transfer, Types
<1>2. call.op \in Routine /\ call.sector[2] \in Byte /\ call.sector[3] \in Byte
  BY <1>1, ServiceTyped
<1>3. m1 \in Machines
  <2>1. Buffer \in Word
    BY SMT DEF Buffer, Word
  <2> QED  BY <2>1, OtherSet DEF Types
<1>4. m2 \in Machines
  <2> HIDE DEF m1
  <2> QED  BY <1>2, <1>3, OtherSet
<1>5. m3 \in Machines
  <2> HIDE DEF m2
  <2> QED  BY <1>2, <1>4, OtherSet
<1>6. Step(WriteW(m3, Home + 1, Entry[call.op]))
  <2>1. [m EXCEPT !.x = Buffer, !.a = call.sector[2], !.b = call.sector[3]] = m3
    BY SMT
  <2> HIDE DEF m3
  <2> QED  BY <2>1 DEF Transfer, Enter
<1> HIDE DEF m3
<1>7. WriteW(m3, Home + 1, Entry[call.op]) \in Machines
  BY <1>2, <1>5, EnterTyped
<1> QED  BY <1>1, <1>6, <1>7, StepKeeps

LEMMA ReturnKeeps == ASSUME Types, Return PROVE Types' /\ Passed'
<1>1. phase = "run" /\ Step(IF stage = "select" THEN m ELSE Own(m))
  BY DEF Return
<1>2. m \in Machines /\ Own(m) \in Machines
  BY OwnTyped DEF Types
<1>3. stage' = "select" => call' \in Services /\ IsDisk(call')
  BY DEF Return, Types, IsDisk
<1> QED  BY <1>1, <1>2, <1>3, StepKeeps

LEMMA InstructionKeeps == ASSUME Types, Instruction PROVE Types' /\ Passed'
<1>1. phase = "run" /\ Step(m) /\ stage' = stage /\ call' = call
  BY DEF Instruction
<1>2. stage' = "select" => call' \in Services /\ IsDisk(call')
  BY <1>1 DEF Types, IsDisk
<1> QED  BY <1>1, <1>2, StepKeeps DEF Types

\* The host's part of a call.
LEMMA KeyTaken ==
  ASSUME Types, waiting # <<>>
  PROVE  Head(waiting) \in Byte /\ Tail(waiting) \in Seq(Keys)
<1>1. Head(waiting) \in Keys /\ Tail(waiting) \in Seq(Keys)
  BY HeadTailProperties DEF Types
<1> QED  BY <1>1, KeyByte

LEMMA AnsTyped == ASSUME NEW m0 \in Machines, NEW ok PROVE Ans(m0, ok) \in Machines
<1>1. (IF ok THEN 4 ELSE 0) \in Int
  OBVIOUS
<1>2. Setcc(IF ok THEN 4 ELSE 0) \in CC
  BY <1>1, SetccTyped
<1> QED  BY <1>2, CcSet DEF Ans

LEMMA DriveCtrTyped == ASSUME Types, DriveCtr PROVE m' \in Machines /\ disks' \in DiskStates
<1> DEFINE dcmd == Registers.b
           h    == Registers.y \div 256
           l    == Registers.y % 256
           m1   == TrackSector(Registers)
           drv  == Read(m1, W(m1.x + 3))
           past == [m1 EXCEPT !.x = W(m1.x + SectorBytes)]
           k0   == K!FileRead(disks, m1.a, m1.b)
           buf1 == K!Filled(disks, Fetched(m1))
           k1   == K!FileWrite([disks EXCEPT !.buf = buf1], m1.a, m1.b)
<1>1. Registers \in Machines /\ disks \in DiskStates
  BY ReturnsTyped DEF Types, Registers
<1>2. Registers.y \in Word
  BY <1>1 DEF Machines
<1>3. h \in Byte /\ l \in Byte
  BY <1>2, HalvesOfWord
<1>4. m1 \in Machines
  <2> DEFINE n1 == [Registers EXCEPT !.a = h]
             n2 == [n1 EXCEPT !.b = l]
  <2>1. n1 \in Machines
    <3> HIDE DEF h
    <3> QED  BY <1>1, <1>3, OtherSet
  <2>2. n2 \in Machines
    <3> HIDE DEF n1, l
    <3> QED  BY <1>3, <2>1, OtherSet
  <2>3. m1 = n2
    BY SMT DEF TrackSector
  <2> HIDE DEF n2, m1
  <2> QED  BY <2>2, <2>3
<1>d. /\ CASE dcmd = 0 -> disks' = k0 /\ m' = Ans(Copied(past, m1.x, K!Half(k0)), K!Ready(disks))
           [] dcmd = 1 -> disks' = k1 /\ m' = Ans(past, K!Ready(disks))
           [] dcmd = 4 -> disks' = [disks EXCEPT !.seldrv = drv] /\ m' = Ans(m1, drv < 4)
           [] dcmd \in {5, 6} -> m' = Ans(m1, drv < 4) /\ UNCHANGED disks
           [] OTHER    -> m' = Ans(m1, TRUE) /\ UNCHANGED disks
  BY DEF DriveCtr
<1> HIDE DEF m1
<1>5. m1.a \in Byte /\ m1.b \in Byte /\ m1.x \in Word /\ drv \in Byte
  BY <1>4, Fields, ReadTyped
<1>6. past \in Machines
  <2>1. W(m1.x + SectorBytes) \in Word
    BY <1>5, Size, NearWord
  <2> QED  BY <1>4, <2>1, OtherSet
<1>7. k0 \in DiskStates
  BY <1>1, <1>5, FileReadTyped
<1>8. k1 \in DiskStates
  <2>1. Fetched(m1) \in Blocks
    BY <1>4, ReadTyped DEF Fetched, Blocks
  <2>2. buf1 \in Buffers
    BY <1>1, <2>1, FilledTyped
  <2>3. [disks EXCEPT !.buf = buf1] \in DiskStates
    <3> HIDE DEF buf1
    <3> QED  BY <1>1, <2>2, BufSet
  <2> HIDE DEF buf1
  <2> QED  BY <1>5, <2>3, FileWriteTyped
<1>9. [disks EXCEPT !.seldrv = drv] \in DiskStates
  <2> HIDE DEF drv
  <2> QED  BY <1>1, <1>5 DEF DiskStates
<1>10. Copied(past, m1.x, K!Half(k0)) \in Machines
  <2> HIDE DEF k0, past
  <2> QED  BY <1>5, <1>6, <1>7, HalfTyped, CopiedTyped
<1>11. \A ok : /\ Ans(Copied(past, m1.x, K!Half(k0)), ok) \in Machines
               /\ Ans(past, ok) \in Machines /\ Ans(m1, ok) \in Machines
  <2> HIDE DEF k0, past
  <2> QED  BY <1>4, <1>6, <1>10, AnsTyped
<1> HIDE DEF k0, k1, past, drv, dcmd
<1> QED  BY <1>1, <1>7, <1>8, <1>9, <1>11, <1>d

LEMMA SwiCallKeeps == ASSUME Types, SwiCall PROVE Types' /\ Passed'
<1>1. phase' = "tail" /\ prepc' = prepc /\ call' = call /\ stage' = stage
  BY DEF SwiCall, Getch, Putch, Kbhit, DriveCtr, Unknown, Answer, fmsVars
<1>2. Registers \in Machines
  BY ReturnsTyped DEF Types, Registers
<1>3. m' \in Machines /\ disks' \in DiskStates /\ waiting' \in Seq(Keys)
  <2>1. CASE Getch
    <3>1. m' = [Registers EXCEPT !.b = Head(waiting)] /\ waiting' = Tail(waiting) /\ disks' = disks
      BY <2>1 DEF Getch
    <3>2. Head(waiting) \in Byte /\ Tail(waiting) \in Seq(Keys)
      BY <2>1, KeyTaken DEF Getch
    <3> QED  BY <1>2, <3>1, <3>2, OtherSet DEF Types
  <2>2. CASE Kbhit
    <3> DEFINE kin == IF waiting = <<>> THEN 0 ELSE Head(waiting)
    <3>1. m' = [Registers EXCEPT !.b = kin] /\ disks' = disks
      BY <2>2 DEF Kbhit
    <3>2. kin \in Byte
      BY KeyTaken DEF Byte
    <3>3. waiting' \in Seq(Keys)
      BY <2>2, KeyTaken DEF Kbhit
    <3> HIDE DEF kin
    <3> QED  BY <1>2, <3>1, <3>2, <3>3, OtherSet DEF Types
  <2>3. CASE Putch \/ Unknown
    BY <1>2, <2>3 DEF Putch, Unknown, devices, Types
  <2>4. CASE DriveCtr
    <3>1. waiting' = waiting
      BY <2>4 DEF DriveCtr
    <3> QED  BY <2>4, <3>1, DriveCtrTyped DEF Types
  <2> QED  BY <2>1, <2>2, <2>3, <2>4 DEF SwiCall
<1> QED  BY <1>1, <1>3 DEF Types, Passed, IsDisk

-----------------------------------------------------------------------------
\* After the inner loop.
LEMMA RestartTyped ==
  ASSUME NEW w \in Word, m' \in Machines, prepc' = m'.pc \/ prepc' = 0 \/ prepc' = prepc, prepc \in Word
  PROVE  prepc' \in Word
<1>1. 0 \in Word
  BY SMT DEF Word
<1> QED  BY <1>1, Fields

LEMMA ComesRests ==
  ASSUME NEW ret, NEW shown, Comes(ret, shown)
  PROVE  /\ phase' = "prompt" \/ (phase' = "run" /\ done' = 0)
         /\ prepc' = m'.pc \/ prepc' = 0
  BY DEF Comes, Begin, ToPrompt

LEMMA TailKeeps == ASSUME Types, TailEnds PROVE Types' /\ Passed'
<1> DEFINE pc1  == IF Noticed /\ bkeyin # 0 THEN prepc ELSE m.pc
           stop == Noticed /\ (Brk(pc1) # 0 \/ bkeyin = 3)
<1>1. m' = [m EXCEPT !.pc = pc1] /\ disks' = disks /\ waiting' = waiting
      /\ call' = call /\ stage' = stage
  BY DEF TailEnds, devices, fmsVars
<1>2. m \in Machines /\ pc1 \in Word
  BY Fields DEF Types
<1>3. m' \in Machines /\ m'.pc = pc1
  <2> HIDE DEF pc1
  <2>1. m' \in Machines
    BY <1>1, <1>2, OtherSet
  <2> QED  BY <1>1, <1>2, <2>1 DEF Machines
<1>4. \/ \E ret, shown : Comes(ret, shown)
      \/ ~stop /\ GoesOn(Traced)
  BY DEF TailEnds
<1>5. CASE \E ret, shown : Comes(ret, shown)
  <2>1. phase' = "prompt" \/ (phase' = "run" /\ done' = 0)
    BY <1>5, ComesRests
  <2>2. prepc' = m'.pc \/ prepc' = 0
    BY <1>5, ComesRests
  <2>3. prepc' \in Word
    BY <1>3, <2>2, RestartTyped DEF Types
  <2> QED  BY <1>1, <1>3, <2>1, <2>3 DEF Types, Passed, IsDisk
<1>6. CASE ~stop /\ GoesOn(Traced)
  <2>1. prepc' = prepc /\ brkbuf' = brkbuf /\ phase' = "loop"
    BY <1>6 DEF GoesOn
  <2>2. Brk(pc1) \in {0, 2}
    BY <1>6 DEF Noticed, Traced
  <2>3. Brk(m.pc)' = Brk(pc1)
    <3> HIDE DEF pc1
    <3> QED  BY <1>3, <2>1 DEF Brk
  <2> HIDE DEF pc1
  <2> QED  BY <1>1, <1>3, <2>1, <2>2, <2>3 DEF Types, Passed, IsDisk
<1> QED  BY <1>4, <1>5, <1>6

LEMMA LoopKeeps == ASSUME Types, Passed, LoopAgain PROVE Types' /\ Passed'
<1>1. /\ m' = m /\ disks' = disks /\ waiting' = waiting /\ prepc' = prepc /\ call' = call /\ stage' = stage
      /\ brkbuf' = brkbuf /\ phase = "loop"
  BY DEF LoopAgain, devices, fmsVars
<1> QED  BY <1>1 DEF Types, Passed, IsDisk, Brk

\* The user.
LEMMA UserKeeps == ASSUME Types, Passed, User PROVE Types' /\ Passed'
<1>1. CASE Go \/ Next_n \/ StepOver
  <2>1. /\ m' = m /\ disks' = disks /\ waiting' = waiting /\ call' = call /\ stage' = stage
    BY <1>1 DEF Go, Next_n, StepOver, AtPrompt, devices, fmsVars
  <2>2. prepc' = m'.pc /\ phase' = "run" /\ done' = 0
    BY <1>1 DEF Go, Next_n, StepOver, Begin
  <2>3. prepc' \in Word
    BY <2>1, <2>2, Fields DEF Types
  <2> QED  BY <2>1, <2>2, <2>3 DEF Types, Passed, IsDisk
<1>2. CASE SetBreak
  <2>1. /\ m' = m /\ disks' = disks /\ waiting' = waiting /\ call' = call /\ stage' = stage
        /\ prepc' = prepc /\ phase' = phase /\ phase = "prompt"
    BY <1>2 DEF SetBreak, AtPrompt, devices, fmsVars
  <2> QED  BY <2>1 DEF Types, Passed, IsDisk
<1>3. CASE TakenByPrompt
  <2>1. /\ m' = m /\ disks' = disks /\ waiting' = <<>> /\ call' = call /\ stage' = stage
        /\ prepc' = prepc /\ phase' = phase /\ phase = "prompt"
    BY <1>3 DEF TakenByPrompt, loopVars, fmsVars
  <2> QED  BY <2>1 DEF Types, Passed, IsDisk
<1>4. CASE Key
  <2>1. /\ m' = m /\ disks' = disks /\ call' = call /\ stage' = stage
        /\ prepc' = prepc /\ phase' = phase /\ phase = "swi"
    BY <1>4 DEF Key, loopVars, fmsVars
  <2>2. PICK key \in Keys : waiting' = Append(waiting, key)
    BY <1>4 DEF Key
  <2>3. waiting' \in Seq(Keys)
    BY <2>2 DEF Types
  <2> QED  BY <2>1, <2>3 DEF Types, Passed, IsDisk
<1>5. CASE Signal
  <2>1. /\ m' = m /\ disks' = disks /\ waiting' = waiting /\ call' = call /\ stage' = stage
        /\ prepc' = prepc /\ phase' = phase /\ brkbuf' = brkbuf /\ done' = done
    BY <1>5 DEF Signal, devices, fmsVars, history
  <2> QED  BY <2>1 DEF Types, Passed, IsDisk, Brk
<1> QED  BY <1>1, <1>2, <1>3, <1>4, <1>5 DEF User

LEMMA RestKeeps == ASSUME Types, Passed, UNCHANGED vars PROVE Types' /\ Passed'
<1>1. /\ m' = m /\ disks' = disks /\ waiting' = waiting /\ call' = call /\ stage' = stage
      /\ prepc' = prepc /\ phase' = phase /\ brkbuf' = brkbuf /\ done' = done
  BY DEF vars, devices, loopVars, fmsVars, history
<1> QED  BY <1>1 DEF Types, Passed, IsDisk, Brk

LEMMA TypesInvariant == Spec => [](Types /\ Passed)
<1>1. Init => Types /\ Passed
  <2> SUFFICES ASSUME Init PROVE Types /\ Passed
    OBVIOUS
  <2>1. 0 \in Word
    BY SMT DEF Word
  <2>2. waiting = <<>> /\ prepc = 0 /\ stage = "none" /\ phase = "prompt"
    BY DEF Init
  <2> QED  BY <2>1, <2>2, InitTyped DEF Types, Passed
<1>2. Types /\ Passed /\ [Next]_vars => Types' /\ Passed'
  BY CallKeeps, TransferKeeps, ReturnKeeps, InstructionKeeps, SwiCallKeeps, TailKeeps, LoopKeeps,
     UserKeeps, RestKeeps DEF Next, Machine, Rest
<1> QED  BY <1>1, <1>2, PTL DEF Spec

\* The registers keep their widths, for every program the drivers are part of
\* and every key, command and disk.
THEOREM WidthsKept == Spec => []Widths
<1>1. Types => Widths
  <2> SUFFICES ASSUME Types PROVE Widths
    OBVIOUS
  <2>1. m \in Machines /\ prepc \in Word
    BY DEF Types
  <2>2. /\ \A R \in {"pc", "x", "y", "u", "s"} : m[R] \in Word
        /\ \A R \in {"a", "b", "dp"} : m[R] \in Byte
        /\ m.cc \in CC /\ m.mem \in Memories
    BY <2>1, Fields DEF Words, Bytes
  <2>3. \A adr \in DOMAIN m.mem : adr \in Word /\ m.mem[adr] \in Byte
    BY <2>2, MemoryByte
  <2> QED  BY <2>1, <2>2, <2>3 DEF Widths
<1> QED  BY <1>1, TypesInvariant, PTL

\* The inner loop only goes on where no break point stands, and the outer loop
\* only where none but a trace point does: so an instruction at a break point
\* is the first of its command, wherever break points are set and whenever a
\* key or SIGINT arrives.
THEOREM BreakpointsStop == Spec => BreakpointStops
<1>1. Passed /\ (Call \/ Transfer \/ Return \/ Instruction) => Brk(m.pc) \in {0, 2} \/ done = 0
  BY DEF Passed, Call, Transfer, Return, Instruction
<1>2. Passed => [Call \/ Transfer \/ Return \/ Instruction => Brk(m.pc) \in {0, 2} \/ done = 0]_vars
  BY <1>1
<1> QED  BY <1>2, TypesInvariant, PTL DEF BreakpointStops

-----------------------------------------------------------------------------
(* What the instructions of the drivers do to registers and memory.        *)

Regs(n, pc, s, a, b, x, y, u, dp) ==
  /\ n.pc = pc /\ n.s = s /\ n.a = a /\ n.b = b
  /\ n.x = x /\ n.y = y /\ n.u = u /\ n.dp = dp

\* Everything but memory, flags and error is as in k.
AsIn(n, k) == Regs(n, k.pc, k.s, k.a, k.b, k.x, k.y, k.u, k.dp)

LEMMA WriteReads ==
  ASSUME NEW m0 \in Machines, NEW a, NEW v
  PROVE  /\ \A adr : Read(Write(m0, a, v), adr) = IF adr = a THEN v ELSE Read(m0, adr)
         /\ AsIn(Write(m0, a, v), m0) /\ Write(m0, a, v).cc = m0.cc /\ Write(m0, a, v).err = m0.err
<1> DEFINE g == [x \in {a} |-> v]
           f == Over(g, m0.mem)
           k == [m0 EXCEPT !.mem = f]
<1>1. Write(m0, a, v) = k
  BY DEF Write
<1>2. k.mem = f
  <2> HIDE DEF f
  <2> QED  BY DEF Machines
<1>3. \A adr : Read(k, adr) = IF adr \in DOMAIN f THEN f[adr] ELSE 255
  <2> HIDE DEF f, k
  <2> QED  BY <1>2 DEF Read
<1>4. \A adr : adr \in DOMAIN f <=> adr = a \/ adr \in DOMAIN m0.mem
  BY DEF Over
<1>5. \A adr \in DOMAIN f : f[adr] = IF adr = a THEN v ELSE m0.mem[adr]
  BY DEF Over
<1>6. \A adr : Read(k, adr) = IF adr = a THEN v ELSE Read(m0, adr)
  <2> HIDE DEF f, k
  <2> QED  BY <1>3, <1>4, <1>5, Zenon DEF Read
<1>7. AsIn(k, m0) /\ k.cc = m0.cc /\ k.err = m0.err
  <2> HIDE DEF f
  <2> QED  BY DEF AsIn, Regs, Machines
<1> HIDE DEF k
<1> QED  BY <1>1, <1>6, <1>7, Zenon

LEMMA WriteWReads ==
  ASSUME NEW m0 \in Machines, NEW a \in Word, NEW v \in Word, a + 1 \in Word
  PROVE  /\ \A adr : Read(WriteW(m0, a, v), adr)
                       = IF adr = a THEN v \div 256 ELSE IF adr = a + 1 THEN v % 256 ELSE Read(m0, adr)
         /\ AsIn(WriteW(m0, a, v), m0) /\ WriteW(m0, a, v).cc = m0.cc /\ WriteW(m0, a, v).err = m0.err
<1> DEFINE k == Write(m0, a, v \div 256)
<1>1. v \div 256 \in Byte
  BY HalvesOfWord
<1>2. k \in Machines
  BY <1>1, WriteTyped
<1>3. W(a + 1) = a + 1
  BY SMT DEF W, Word
<1>4. WriteW(m0, a, v) = Write(k, a + 1, v % 256)
  BY <1>3 DEF WriteW
<1>5. /\ \A adr : Read(k, adr) = IF adr = a THEN v \div 256 ELSE Read(m0, adr)
      /\ AsIn(k, m0) /\ k.cc = m0.cc /\ k.err = m0.err
  BY WriteReads
<1> HIDE DEF k
<1>6. /\ \A adr : Read(Write(k, a + 1, v % 256), adr) = IF adr = a + 1 THEN v % 256 ELSE Read(k, adr)
      /\ AsIn(Write(k, a + 1, v % 256), k) /\ Write(k, a + 1, v % 256).cc = k.cc
      /\ Write(k, a + 1, v % 256).err = k.err
  BY <1>2, WriteReads
<1>7. a # a + 1
  BY SMT DEF Word
<1>8. \A adr : Read(Write(k, a + 1, v % 256), adr)
                 = IF adr = a THEN v \div 256 ELSE IF adr = a + 1 THEN v % 256 ELSE Read(m0, adr)
  <2> TAKE adr
  <2>1. CASE adr = a
    BY <1>5, <1>6, <1>7, <2>1, Zenon
  <2>2. CASE adr # a
    BY <1>5, <1>6, <2>2, Zenon
  <2> QED  BY <2>1, <2>2
<1> QED  BY <1>4, <1>5, <1>6, <1>8 DEF AsIn, Regs

\* The machine before the instruction is performed.
Started(m0) == Skip([m0 EXCEPT !.err = "none"], 1)

LEMMA StartedRegs ==
  ASSUME NEW m0 \in Machines
  PROVE  /\ Started(m0) \in Machines
         /\ Regs(Started(m0), W(m0.pc + 1), m0.s, m0.a, m0.b, m0.x, m0.y, m0.u, m0.dp)
         /\ Started(m0).cc = m0.cc /\ Started(m0).err = "none"
         /\ \A adr : Read(Started(m0), adr) = Read(m0, adr)
<1> DEFINE k == [m0 EXCEPT !.err = "none"]
<1>1. k \in Machines
  BY OtherSet DEF Errors
<1>2. /\ k.pc = m0.pc /\ k.s = m0.s /\ k.a = m0.a /\ k.b = m0.b /\ k.x = m0.x /\ k.y = m0.y
      /\ k.u = m0.u /\ k.dp = m0.dp /\ k.cc = m0.cc /\ k.err = "none" /\ k.mem = m0.mem
  BY DEF Machines
<1> HIDE DEF k
<1>3. Skip(k, 1) = [k EXCEPT !.pc = W(k.pc + 1)] /\ Skip(k, 1) \in Machines
  BY <1>1, SkipTyped DEF Skip
<1>4. /\ Skip(k, 1).pc = W(k.pc + 1) /\ Skip(k, 1).s = k.s /\ Skip(k, 1).a = k.a /\ Skip(k, 1).b = k.b
      /\ Skip(k, 1).x = k.x /\ Skip(k, 1).y = k.y /\ Skip(k, 1).u = k.u /\ Skip(k, 1).dp = k.dp
      /\ Skip(k, 1).cc = k.cc /\ Skip(k, 1).err = k.err /\ Skip(k, 1).mem = k.mem
  BY <1>1, <1>3 DEF Machines
<1>5. Started(m0) = Skip(k, 1)
  BY DEF Started, k
<1> QED  BY <1>2, <1>3, <1>4, <1>5 DEF Regs, Read

LEMMA SkipRegs ==
  ASSUME NEW m0 \in Machines, NEW n \in Int
  PROVE  /\ Skip(m0, n) \in Machines
         /\ Regs(Skip(m0, n), W(m0.pc + n), m0.s, m0.a, m0.b, m0.x, m0.y, m0.u, m0.dp)
         /\ Skip(m0, n).cc = m0.cc /\ Skip(m0, n).err = m0.err
         /\ \A adr : Read(Skip(m0, n), adr) = Read(m0, adr)
<1> DEFINE k == Skip(m0, n)
<1>1. k = [m0 EXCEPT !.pc = W(m0.pc + n)] /\ k \in Machines
  BY SkipTyped DEF Skip
<1> HIDE DEF k
<1>2. /\ k.pc = W(m0.pc + n) /\ k.s = m0.s /\ k.a = m0.a /\ k.b = m0.b
      /\ k.x = m0.x /\ k.y = m0.y /\ k.u = m0.u /\ k.dp = m0.dp
      /\ k.cc = m0.cc /\ k.err = m0.err /\ k.mem = m0.mem
  BY <1>1 DEF Machines
<1> QED  BY <1>1, <1>2 DEF Regs, Read, k

LEMMA ExecuteStarts ==
  ASSUME NEW m0 \in Machines, Read(m0, m0.pc) \notin {16, 17}
  PROVE  Execute(m0) = Perform(Started(m0), Decode(1, Read(m0, m0.pc)))
  BY DEF Execute, Fetch, Started, Post

LEMMA Opcodes ==
  /\ Decode(1, 52) = Ins("pshs", "none", "none") /\ Decode(1, 53) = Ins("puls", "none", "none")
  /\ Decode(1, 57) = Ins("rts", "none", "none") /\ Decode(1, 63) = Ins("swi", "none", "none")
  /\ Decode(1, 134) = Ins("ld", "a", "imm") /\ Decode(1, 198) = Ins("ld", "b", "imm")
  /\ Decode(1, 31) = Ins("tfr", "none", "none") /\ Decode(1, 77) = Ins("tst", "a", "none")
  /\ Decode(1, 189) = Ins("jsr", "none", "ext") /\ Decode(1, 32) = Ins("bra", "none", "relb")
  /\ Decode(1, 1).op = "null"
<1>1. /\ 52 \div 16 = 3 /\ 52 % 16 = 4 /\ 53 \div 16 = 3 /\ 53 % 16 = 5 /\ 57 \div 16 = 3 /\ 57 % 16 = 9
      /\ 63 \div 16 = 3 /\ 63 % 16 = 15 /\ 134 \div 16 = 8 /\ 134 % 16 = 6 /\ 198 \div 16 = 12 /\ 198 % 16 = 6
      /\ 31 \div 16 = 1 /\ 31 % 16 = 15 /\ 77 \div 16 = 4 /\ 77 % 16 = 13 /\ 189 \div 16 = 11 /\ 189 % 16 = 13
      /\ 32 \div 16 = 2 /\ 32 % 16 = 0 /\ 1 \div 16 = 0 /\ 1 % 16 = 1
  BY SMT
<1>2. /\ Page1(3, 4) = Ins("pshs", "none", "none") /\ Page1(3, 5) = Ins("puls", "none", "none")
      /\ Page1(3, 9) = Ins("rts", "none", "none") /\ Page1(3, 15) = Ins("swi", "none", "none")
  BY DEF Page1, Column, Row3
<1>3. Page1(8, 6) = Ins("ld", "a", "imm")
  BY DEF Page1, Column, Accu, Mode4
<1>4. Page1(12, 6) = Ins("ld", "b", "imm")
  BY DEF Page1, Column, Accu, Mode4
<1>5. Page1(1, 15) = Ins("tfr", "none", "none")
  BY DEF Page1, Column, Row1
<1>6. Page1(4, 13) = Ins("tst", "a", "none")
  BY DEF Page1, Column, Unary
<1>7. Page1(11, 13) = Ins("jsr", "none", "ext")
  BY DEF Page1, Mode4
<1>8. Page1(2, 0) = Ins("bra", "none", "relb")
  BY DEF Page1, Column, Short
<1>9. Page1(0, 1).op = "null"
  BY DEF Page1, Column, Unary, Ins
<1>10. \A op : Decode(1, op) = Page1(op \div 16, op % 16)
  BY DEF Decode
<1>11. /\ Decode(1, 52) = Page1(3, 4) /\ Decode(1, 53) = Page1(3, 5) /\ Decode(1, 57) = Page1(3, 9)
       /\ Decode(1, 63) = Page1(3, 15) /\ Decode(1, 134) = Page1(8, 6) /\ Decode(1, 198) = Page1(12, 6)
       /\ Decode(1, 31) = Page1(1, 15) /\ Decode(1, 77) = Page1(4, 13) /\ Decode(1, 189) = Page1(11, 13)
       /\ Decode(1, 32) = Page1(2, 0) /\ Decode(1, 1) = Page1(0, 1)
  BY <1>1, <1>10
<1> QED  BY <1>2, <1>3, <1>4, <1>5, <1>6, <1>7, <1>8, <1>9, <1>11, Zenon

\* A place with room for the instruction.
Low(n) == n < 65000

LEMMA LowSum == ASSUME NEW p \in Word, Low(p) PROVE W(p + 1) = p + 1 /\ W(p + 1 + 1) = p + 2 /\ p + 1 \in Word
  BY SMT DEF Low, W, Word

\* Nothing but registers has changed.
SameMemory(n, k) == \A adr : Read(n, adr) = Read(k, adr)

\* The machine k with the opcode and j with the operand fetched.
LEMMA Fetched2 ==
  ASSUME NEW m0 \in Machines, Low(m0.pc), NEW k, k = Started(m0), NEW j, j = Skip(k, 1)
  PROVE  /\ k \in Machines /\ Regs(k, m0.pc + 1, m0.s, m0.a, m0.b, m0.x, m0.y, m0.u, m0.dp)
         /\ k.cc = m0.cc /\ k.err = "none" /\ SameMemory(k, m0)
         /\ j \in Machines /\ Regs(j, m0.pc + 2, m0.s, m0.a, m0.b, m0.x, m0.y, m0.u, m0.dp)
         /\ j.cc = m0.cc /\ j.err = "none" /\ SameMemory(j, m0)
         /\ Post(k) = Read(m0, m0.pc + 1)
<1>1. /\ k \in Machines /\ Regs(k, m0.pc + 1, m0.s, m0.a, m0.b, m0.x, m0.y, m0.u, m0.dp)
      /\ k.cc = m0.cc /\ k.err = "none" /\ SameMemory(k, m0)
  <2>1. W(m0.pc + 1) = m0.pc + 1
    BY LowSum, Fields
  <2> QED  BY <2>1, StartedRegs DEF SameMemory
<1>2. W(k.pc + 1) = m0.pc + 2
  BY <1>1, LowSum, Fields DEF Regs
<1>3. 1 \in Int
  OBVIOUS
<1>4. j \in Machines /\ Regs(j, W(k.pc + 1), k.s, k.a, k.b, k.x, k.y, k.u, k.dp) /\ j.err = k.err
      /\ SameMemory(j, k) /\ j.cc = k.cc
  BY <1>1, <1>3, SkipRegs DEF SameMemory
<1>5. Post(k) = Read(m0, m0.pc + 1)
  BY <1>1 DEF Post, Regs, SameMemory
<1> QED  BY <1>1, <1>2, <1>4, <1>5 DEF Regs, SameMemory

LEMMA DoesLd ==
  ASSUME NEW m0 \in Machines, Low(m0.pc), Read(m0, m0.pc) \in {134, 198}
  PROVE  /\ Execute(m0).err = "none" /\ SameMemory(Execute(m0), m0)
         /\ Read(m0, m0.pc) = 134 =>
              Regs(Execute(m0), m0.pc + 2, m0.s, Read(m0, m0.pc + 1), m0.b, m0.x, m0.y, m0.u, m0.dp)
         /\ Read(m0, m0.pc) = 198 =>
              Regs(Execute(m0), m0.pc + 2, m0.s, m0.a, Read(m0, m0.pc + 1), m0.x, m0.y, m0.u, m0.dp)
<1> DEFINE k == Started(m0)
           j == Skip(k, 1)
           R == IF Read(m0, m0.pc) = 134 THEN "a" ELSE "b"
           i == Ins("ld", R, "imm")
           v == Read(m0, m0.pc + 1)
           g == Move(k.cc, v, ByteSign)
<1>1. Execute(m0) = Perform(k, i)
  BY ExecuteStarts, Opcodes
<1>2. /\ k \in Machines /\ Regs(k, m0.pc + 1, m0.s, m0.a, m0.b, m0.x, m0.y, m0.u, m0.dp)
      /\ k.err = "none" /\ SameMemory(k, m0)
  BY Fetched2
<1>3. /\ j \in Machines /\ Regs(j, m0.pc + 2, m0.s, m0.a, m0.b, m0.x, m0.y, m0.u, m0.dp)
      /\ j.err = "none" /\ SameMemory(j, m0)
  BY Fetched2
<1> HIDE DEF k
<1>4. EA(k, "imm", 1) = At(k.pc, j)
  BY DEF EA, Imm
<1>5. i.op = "ld" /\ i.R = R /\ i.mode = "imm"
  BY DEF Ins
<1>6. Perform(k, i) = OnAccu(k, i, EA(k, "imm", 1))
  <2> HIDE DEF i
  <2> QED  BY <1>5, ConditionNames DEF Perform, BranchOps
<1>7. Read(j, k.pc) = v
  BY <1>2, <1>3 DEF Regs, SameMemory
<1> HIDE DEF j, i, v
<1>8. OnAccu(k, i, EA(k, "imm", 1)) = Into(j, R, g)
  BY <1>4, <1>5, <1>7 DEF OnAccu, At, Binary
<1>9. v \in Byte /\ k.cc \in CC
  BY <1>2, ReadTyped, Fields DEF v
<1>10. g.r = v /\ g.cc \in CC
  <2>1. v \in Int /\ ByteSign \in {ByteSign, WordSign}
    BY <1>9, ByteInt
  <2> QED  BY <1>9, <2>1, MoveTyped
<1> HIDE DEF g
<1>11. Into(j, R, g) = [j EXCEPT ![R] = v, !.cc = g.cc]
  BY <1>10 DEF Into
<1>12. /\ Into(j, R, g).err = "none" /\ Into(j, R, g).mem = j.mem
       /\ R = "a" => Regs(Into(j, R, g), j.pc, j.s, v, j.b, j.x, j.y, j.u, j.dp)
       /\ R = "b" => Regs(Into(j, R, g), j.pc, j.s, j.a, v, j.x, j.y, j.u, j.dp)
  <2>1. R \in {"a", "b"}
    OBVIOUS
  <2> HIDE DEF R
  <2>2. CASE R = "a"
    <3>1. Into(j, R, g) = [j EXCEPT !.a = v, !.cc = g.cc]
      BY <1>11, <2>2
    <3> QED  BY <1>3, <2>2, <3>1 DEF Regs, Machines
  <2>3. CASE R = "b"
    <3>1. Into(j, R, g) = [j EXCEPT !.b = v, !.cc = g.cc]
      BY <1>11, <2>3
    <3> QED  BY <1>3, <2>3, <3>1 DEF Regs, Machines
  <2> QED  BY <2>1, <2>2, <2>3
<1>13. SameMemory(Into(j, R, g), m0)
  BY <1>3, <1>12 DEF SameMemory, Read
<1>14. Into(j, R, g) = Execute(m0)
  BY <1>1, <1>6, <1>8
<1> QED  BY <1>3, <1>12, <1>13, <1>14 DEF Regs, v

LEMMA TfrNames ==
  /\ ExgName(8) = "a" /\ ExgName(9) = "b" /\ ExgName(2) = "y" /\ ExgName(0) = "d"
  BY DEF ExgName, ExgNames

LEMMA DoesTfr ==
  ASSUME NEW m0 \in Machines, Low(m0.pc), Read(m0, m0.pc) = 31
  PROVE  LET v == Read(m0, m0.pc + 1) IN
         v \in {152, 137, 2} =>
           /\ Execute(m0).err = "none" /\ SameMemory(Execute(m0), m0)
           /\ v = 152 => Regs(Execute(m0), m0.pc + 2, m0.s, m0.b, m0.b, m0.x, m0.y, m0.u, m0.dp)
           /\ v = 137 => Regs(Execute(m0), m0.pc + 2, m0.s, m0.a, m0.a, m0.x, m0.y, m0.u, m0.dp)
           /\ v = 2   => Regs(Execute(m0), m0.pc + 2, m0.s, m0.a, m0.b, m0.x, D(m0), m0.u, m0.dp)
<1> DEFINE k == Started(m0)
           j == Skip(k, 1)
           v == Read(m0, m0.pc + 1)
           i == Ins("tfr", "none", "none")
<1> SUFFICES ASSUME v \in {152, 137, 2}
             PROVE  /\ Execute(m0).err = "none" /\ SameMemory(Execute(m0), m0)
                    /\ v = 152 => Regs(Execute(m0), m0.pc + 2, m0.s, m0.b, m0.b, m0.x, m0.y, m0.u, m0.dp)
                    /\ v = 137 => Regs(Execute(m0), m0.pc + 2, m0.s, m0.a, m0.a, m0.x, m0.y, m0.u, m0.dp)
                    /\ v = 2 => Regs(Execute(m0), m0.pc + 2, m0.s, m0.a, m0.b, m0.x, D(m0), m0.u, m0.dp)
  BY Zenon
<1>1. Execute(m0) = Perform(k, i)
  BY ExecuteStarts, Opcodes
<1>2. /\ j \in Machines /\ Regs(j, m0.pc + 2, m0.s, m0.a, m0.b, m0.x, m0.y, m0.u, m0.dp)
      /\ j.err = "none" /\ SameMemory(j, m0) /\ Post(k) = v
  BY Fetched2
<1> HIDE DEF k
<1>3. Perform(k, i) = Tfr(Known(j, v \div 16), v % 16, v \div 16)
  <2>1. i.op = "tfr"
    BY DEF Ins
  <2> HIDE DEF i, j, v
  <2>2. Perform(k, i) = Tfr(Known(Skip(k, 1), Post(k) \div 16), Post(k) % 16, Post(k) \div 16)
    BY <2>1, ConditionNames DEF Perform, BranchOps
  <2> QED  BY <1>2, <2>2 DEF j
<1>4. j.a \in Byte /\ j.b \in Byte
  BY <1>2, Fields
<1>5. j.a % 256 = j.a /\ j.b % 256 = j.b
  <2> HIDE DEF j
  <2> QED  BY <1>4, SMT DEF Byte
<1> HIDE DEF j, v
<1>6. CASE v = 152
  <2>1. v \div 16 = 9 /\ v % 16 = 8
    BY <1>6, SMT
  <2>2. Known(j, 9) = j
    BY TfrNames DEF Known
  <2>3. Getexr(j, 9) = j.b
    BY TfrNames DEF Getexr, Reg16
  <2>4. Setexr(j, 8, j.b) = [j EXCEPT !["a"] = j.b % 256]
    <3>1. ExgName(8) # "none" /\ ExgName(8) # "cc" /\ 8 \notin 0 .. 5
      BY TfrNames
    <3>2. Setexr(j, 8, j.b) = [j EXCEPT ![ExgName(8)] = j.b % 256]
      BY <3>1, Zenon DEF Setexr
    <3> QED  BY <3>2, TfrNames, Zenon
  <2>5. Execute(m0) = [j EXCEPT !.a = j.b]
    BY <1>1, <1>3, <1>5, <2>1, <2>2, <2>3, <2>4 DEF Tfr
  <2> QED  BY <1>2, <1>6, <2>5 DEF Regs, Machines, SameMemory, Read
<1>7. CASE v = 137
  <2>1. v \div 16 = 8 /\ v % 16 = 9
    BY <1>7, SMT
  <2>2. Known(j, 8) = j
    BY TfrNames DEF Known
  <2>3. Getexr(j, 8) = j.a
    BY TfrNames DEF Getexr, Reg16
  <2>4. Setexr(j, 9, j.a) = [j EXCEPT !["b"] = j.a % 256]
    <3>1. ExgName(9) # "none" /\ ExgName(9) # "cc" /\ 9 \notin 0 .. 5
      BY TfrNames
    <3>2. Setexr(j, 9, j.a) = [j EXCEPT ![ExgName(9)] = j.a % 256]
      BY <3>1, Zenon DEF Setexr
    <3> QED  BY <3>2, TfrNames, Zenon
  <2>5. Execute(m0) = [j EXCEPT !.b = j.a]
    BY <1>1, <1>3, <1>5, <2>1, <2>2, <2>3, <2>4 DEF Tfr
  <2> QED  BY <1>2, <1>7, <2>5 DEF Regs, Machines, SameMemory, Read
<1>8. CASE v = 2
  <2>1. v \div 16 = 0 /\ v % 16 = 2
    BY <1>8, SMT
  <2>2. Known(j, 0) = j
    BY TfrNames DEF Known
  <2>3. Getexr(j, 0) = D(j)
    BY TfrNames DEF Getexr, Reg16
  <2>4. Setexr(j, 2, D(j)) = [j EXCEPT !["y"] = D(j)]
    <3>1. ExgName(2) # "none" /\ ExgName(2) # "cc" /\ 2 \in 0 .. 5
      BY TfrNames
    <3>2. Setexr(j, 2, D(j)) = Load16(j, ExgName(2), D(j))
      BY <3>1, Zenon DEF Setexr
    <3> QED  BY <3>2, TfrNames, Zenon DEF Load16
  <2>5. Execute(m0) = [j EXCEPT !.y = D(j)]
    BY <1>1, <1>3, <2>1, <2>2, <2>3, <2>4 DEF Tfr
  <2>6. D(j) = D(m0)
    BY <1>2 DEF D, Regs
  <2> HIDE DEF i
  <2> QED  BY <1>2, <1>8, <2>5, <2>6 DEF Regs, Machines, SameMemory, Read
<1> QED  BY <1>6, <1>7, <1>8

-----------------------------------------------------------------------------
(* Stack frames.                                                           *)

\* There is room for a frame below and above.
Room(v) == 100 < v /\ v < 60000

LEMMA PushesByte ==
  ASSUME NEW m0 \in Machines, Room(m0.s) \/ Room(m0.s + 12), NEW R \in {"dp", "a", "b", "cc"}
  PROVE  /\ Push(m0, "s", R) \in Machines
         /\ Regs(Push(m0, "s", R), m0.pc, m0.s - 1, m0.a, m0.b, m0.x, m0.y, m0.u, m0.dp)
         /\ Push(m0, "s", R).cc = m0.cc /\ Push(m0, "s", R).err = m0.err
         /\ \A adr : Read(Push(m0, "s", R), adr)
                       = IF adr = m0.s - 1 THEN (IF R = "cc" THEN Getcc(m0.cc) ELSE m0[R]) ELSE Read(m0, adr)
<1> DEFINE v == IF R = "cc" THEN Getcc(m0.cc) ELSE m0[R]
           k == [m0 EXCEPT !.s = m0.s - 1]
           n == Write(k, m0.s - 1, v)
<1>1. m0.s \in Word /\ W(m0.s - 1) = m0.s - 1 /\ m0.s - 1 \in Word
  <2>1. m0.s \in Word
    BY Fields
  <2> QED  BY <2>1, SMT DEF Room, W, Word
<1>2. k \in Machines
  BY <1>1, OtherSet
<1>3. Push(m0, "s", R) = n
  <2>1. m0["s"] = m0.s
    OBVIOUS
  <2>2. Push(m0, "s", R) = Write([m0 EXCEPT !["s"] = W(m0["s"] - 1)], W(m0["s"] - 1), v)
    BY Zenon DEF Push
  <2> QED  BY <1>1, <2>2
<1>4. /\ k.pc = m0.pc /\ k.s = m0.s - 1 /\ k.a = m0.a /\ k.b = m0.b /\ k.x = m0.x /\ k.y = m0.y
      /\ k.u = m0.u /\ k.dp = m0.dp /\ k.cc = m0.cc /\ k.err = m0.err /\ k.mem = m0.mem
  BY DEF Machines
<1>5. Push(m0, "s", R) \in Machines
  BY PushTyped DEF Stacks, Pushable, Bytes
<1> HIDE DEF k, v
<1>6. /\ \A adr : Read(n, adr) = IF adr = m0.s - 1 THEN v ELSE Read(k, adr)
      /\ AsIn(n, k) /\ n.cc = k.cc /\ n.err = k.err
  BY <1>2, WriteReads
<1>7. \A adr : Read(k, adr) = Read(m0, adr)
  BY <1>4 DEF Read
<1> HIDE DEF n
<1>8. \A adr : Read(n, adr) = IF adr = m0.s - 1 THEN v ELSE Read(m0, adr)
  BY <1>6, <1>7, Zenon
<1>9. /\ Regs(n, m0.pc, m0.s - 1, m0.a, m0.b, m0.x, m0.y, m0.u, m0.dp) /\ n.cc = m0.cc /\ n.err = m0.err
  BY <1>4, <1>6 DEF AsIn, Regs
<1> QED  BY <1>3, <1>5, <1>8, <1>9, Zenon DEF v

LEMMA PushesWord ==
  ASSUME NEW m0 \in Machines, Room(m0.s) \/ Room(m0.s + 12), NEW R \in Words
  PROVE  /\ Push(m0, "s", R) \in Machines
         /\ Regs(Push(m0, "s", R), m0.pc, m0.s - 2, m0.a, m0.b, m0.x, m0.y, m0.u, m0.dp)
         /\ Push(m0, "s", R).cc = m0.cc /\ Push(m0, "s", R).err = m0.err
         /\ \A adr : Read(Push(m0, "s", R), adr)
                       = IF adr = m0.s - 2 THEN m0[R] \div 256
                         ELSE IF adr = m0.s - 1 THEN m0[R] % 256 ELSE Read(m0, adr)
<1> DEFINE v == m0[R]
           k == [m0 EXCEPT !.s = m0.s - 2]
           n == WriteW(k, m0.s - 2, v)
<1>1. /\ m0.s \in Word /\ W(m0.s - 2) = m0.s - 2 /\ m0.s - 2 \in Word /\ m0.s - 2 + 1 \in Word
      /\ m0.s - 2 + 1 = m0.s - 1
  <2>1. m0.s \in Word
    BY Fields
  <2> QED  BY <2>1, SMT DEF Room, W, Word
<1>2. k \in Machines /\ v \in Word
  BY <1>1, OtherSet, Fields
<1>3. Push(m0, "s", R) = n
  <2>1. m0["s"] = m0.s /\ R \notin {"dp", "a", "b", "cc"}
    BY DEF Words
  <2>2. Push(m0, "s", R) = WriteW([m0 EXCEPT !["s"] = W(m0["s"] - 2)], W(m0["s"] - 2), v)
    BY <2>1, Zenon DEF Push
  <2> QED  BY <1>1, <2>2
<1>4. /\ k.pc = m0.pc /\ k.s = m0.s - 2 /\ k.a = m0.a /\ k.b = m0.b /\ k.x = m0.x /\ k.y = m0.y
      /\ k.u = m0.u /\ k.dp = m0.dp /\ k.cc = m0.cc /\ k.err = m0.err /\ k.mem = m0.mem
  BY DEF Machines
<1>5. Push(m0, "s", R) \in Machines
  BY PushTyped DEF Stacks, Pushable
<1> HIDE DEF k, v
<1>6. /\ \A adr : Read(n, adr) = IF adr = m0.s - 2 THEN v \div 256
                                 ELSE IF adr = m0.s - 2 + 1 THEN v % 256 ELSE Read(k, adr)
      /\ AsIn(n, k) /\ n.cc = k.cc /\ n.err = k.err
  BY <1>1, <1>2, WriteWReads
<1>7. \A adr : Read(k, adr) = Read(m0, adr)
  BY <1>4 DEF Read
<1> HIDE DEF n
<1>8. \A adr : Read(n, adr) = IF adr = m0.s - 2 THEN v \div 256
                              ELSE IF adr = m0.s - 1 THEN v % 256 ELSE Read(m0, adr)
  BY <1>1, <1>6, <1>7
<1>9. /\ Regs(n, m0.pc, m0.s - 2, m0.a, m0.b, m0.x, m0.y, m0.u, m0.dp) /\ n.cc = m0.cc /\ n.err = m0.err
  BY <1>4, <1>6 DEF AsIn, Regs
<1> QED  BY <1>3, <1>5, <1>8, <1>9, Zenon DEF v

LEMMA StackSet ==
  ASSUME NEW m0 \in Machines, NEW t \in Word
  PROVE  /\ [m0 EXCEPT !["s"] = t] \in Machines
         /\ Regs([m0 EXCEPT !["s"] = t], m0.pc, t, m0.a, m0.b, m0.x, m0.y, m0.u, m0.dp)
         /\ [m0 EXCEPT !["s"] = t].cc = m0.cc /\ [m0 EXCEPT !["s"] = t].err = m0.err
         /\ [m0 EXCEPT !["s"] = t].mem = m0.mem
<1>1. [m0 EXCEPT !["s"] = t] \in Machines
  BY OtherSet
<1> QED  BY <1>1 DEF Regs, Machines

\* One register is loaded.
LEMMA Sets_a ==
  ASSUME NEW m0 \in Machines, NEW v, NEW R, R = "a", NEW n, n = [m0 EXCEPT ![R] = v]
  PROVE  /\ Regs(n, m0.pc, m0.s, v, m0.b, m0.x, m0.y, m0.u, m0.dp)
         /\ n.cc = m0.cc /\ n.err = m0.err /\ n.mem = m0.mem
  BY DEF Regs, Machines

LEMMA Sets_b ==
  ASSUME NEW m0 \in Machines, NEW v, NEW R, R = "b", NEW n, n = [m0 EXCEPT ![R] = v]
  PROVE  /\ Regs(n, m0.pc, m0.s, m0.a, v, m0.x, m0.y, m0.u, m0.dp)
         /\ n.cc = m0.cc /\ n.err = m0.err /\ n.mem = m0.mem
  BY DEF Regs, Machines

LEMMA Sets_dp ==
  ASSUME NEW m0 \in Machines, NEW v, NEW R, R = "dp", NEW n, n = [m0 EXCEPT ![R] = v]
  PROVE  /\ Regs(n, m0.pc, m0.s, m0.a, m0.b, m0.x, m0.y, m0.u, v)
         /\ n.cc = m0.cc /\ n.err = m0.err /\ n.mem = m0.mem
  BY DEF Regs, Machines

LEMMA Sets_pc ==
  ASSUME NEW m0 \in Machines, NEW v, NEW R, R = "pc", NEW n, n = [m0 EXCEPT ![R] = v]
  PROVE  /\ Regs(n, v, m0.s, m0.a, m0.b, m0.x, m0.y, m0.u, m0.dp)
         /\ n.cc = m0.cc /\ n.err = m0.err /\ n.mem = m0.mem
  BY DEF Regs, Machines

LEMMA Sets_x ==
  ASSUME NEW m0 \in Machines, NEW v, NEW R, R = "x", NEW n, n = [m0 EXCEPT ![R] = v]
  PROVE  /\ Regs(n, m0.pc, m0.s, m0.a, m0.b, v, m0.y, m0.u, m0.dp)
         /\ n.cc = m0.cc /\ n.err = m0.err /\ n.mem = m0.mem
  BY DEF Regs, Machines

LEMMA Sets_y ==
  ASSUME NEW m0 \in Machines, NEW v, NEW R, R = "y", NEW n, n = [m0 EXCEPT ![R] = v]
  PROVE  /\ Regs(n, m0.pc, m0.s, m0.a, m0.b, m0.x, v, m0.u, m0.dp)
         /\ n.cc = m0.cc /\ n.err = m0.err /\ n.mem = m0.mem
  BY DEF Regs, Machines

LEMMA Sets_u ==
  ASSUME NEW m0 \in Machines, NEW v, NEW R, R = "u", NEW n, n = [m0 EXCEPT ![R] = v]
  PROVE  /\ Regs(n, m0.pc, m0.s, m0.a, m0.b, m0.x, m0.y, v, m0.dp)
         /\ n.cc = m0.cc /\ n.err = m0.err /\ n.mem = m0.mem
  BY DEF Regs, Machines

LEMMA PullsByte ==
  ASSUME NEW m0 \in Machines, m0.s < 60000, NEW R \in {"dp", "a", "b"}
  PROVE  /\ Pull(m0, "s", R) \in Machines
         /\ Regs(Pull(m0, "s", R), m0.pc, m0.s + 1,
                 IF R = "a" THEN Read(m0, m0.s) ELSE m0.a, IF R = "b" THEN Read(m0, m0.s) ELSE m0.b,
                 m0.x, m0.y, m0.u, IF R = "dp" THEN Read(m0, m0.s) ELSE m0.dp)
         /\ Pull(m0, "s", R).cc = m0.cc /\ Pull(m0, "s", R).err = m0.err
         /\ SameMemory(Pull(m0, "s", R), m0)
<1> DEFINE v == Read(m0, m0.s)
           m1 == [m0 EXCEPT ![R] = v]
           t == m0.s + 1
           n == [m1 EXCEPT !["s"] = t]
<1>1. m0.s \in Word /\ W(m0.s + 1) = t /\ t \in Word
  <2>1. m0.s \in Word
    BY Fields
  <2> QED  BY <2>1, SMT DEF W, Word
<1>2. v \in Byte
  BY ReadTyped
<1>3. m1 \in Machines
  <2> HIDE DEF v
  <2> QED  BY <1>2, ByteSet DEF Bytes
<1>4. Pull(m0, "s", R) = n
  <2>1. R # "cc" /\ "s" \in DOMAIN m0
    BY DEF Machines
  <2>2. Pull(m0, "s", R) = [m1 EXCEPT !["s"] = W(m0.s + 1)]
    <3> HIDE DEF v
    <3> QED  BY <2>1, <1>1 DEF Pull, Machines, v
  <2> QED  BY <1>1, <2>2
<1>5. /\ Regs(m1, m0.pc, m0.s, IF R = "a" THEN v ELSE m0.a, IF R = "b" THEN v ELSE m0.b,
              m0.x, m0.y, m0.u, IF R = "dp" THEN v ELSE m0.dp)
      /\ m1.cc = m0.cc /\ m1.err = m0.err /\ m1.mem = m0.mem
  <2> HIDE DEF v
  <2>1. CASE R = "a"
    <3>1. m1 = [m0 EXCEPT ![R] = v]
      OBVIOUS
    <3> HIDE DEF m1
    <3> QED  BY <2>1, <3>1, Sets_a DEF Regs
  <2>2. CASE R = "b"
    <3>1. m1 = [m0 EXCEPT ![R] = v]
      OBVIOUS
    <3> HIDE DEF m1
    <3> QED  BY <2>2, <3>1, Sets_b DEF Regs
  <2>3. CASE R = "dp"
    <3>1. m1 = [m0 EXCEPT ![R] = v]
      OBVIOUS
    <3> HIDE DEF m1
    <3> QED  BY <2>3, <3>1, Sets_dp DEF Regs
  <2> QED  BY <2>1, <2>2, <2>3
<1> HIDE DEF v, m1, t
<1>6. /\ n \in Machines /\ Regs(n, m1.pc, t, m1.a, m1.b, m1.x, m1.y, m1.u, m1.dp)
      /\ n.cc = m1.cc /\ n.err = m1.err /\ n.mem = m1.mem
  BY <1>1, <1>3, StackSet
<1> HIDE DEF n
<1>7. SameMemory(n, m0)
  BY <1>5, <1>6 DEF SameMemory, Read
<1>8. /\ Regs(n, m0.pc, t, IF R = "a" THEN v ELSE m0.a, IF R = "b" THEN v ELSE m0.b,
              m0.x, m0.y, m0.u, IF R = "dp" THEN v ELSE m0.dp)
      /\ n.cc = m0.cc /\ n.err = m0.err
  BY <1>5, <1>6 DEF Regs
<1> QED  BY <1>4, <1>6, <1>7, <1>8 DEF v, t

LEMMA PullsWord ==
  ASSUME NEW m0 \in Machines, m0.s < 60000, NEW R \in {"pc", "x", "y", "u"}
  PROVE  LET v == 256 * Read(m0, m0.s) + Read(m0, m0.s + 1) IN
         /\ Pull(m0, "s", R) \in Machines
         /\ Regs(Pull(m0, "s", R), IF R = "pc" THEN v ELSE m0.pc, m0.s + 2, m0.a, m0.b,
                 IF R = "x" THEN v ELSE m0.x, IF R = "y" THEN v ELSE m0.y, IF R = "u" THEN v ELSE m0.u, m0.dp)
         /\ Pull(m0, "s", R).cc = m0.cc /\ Pull(m0, "s", R).err = m0.err
         /\ SameMemory(Pull(m0, "s", R), m0)
<1> DEFINE v == 256 * Read(m0, m0.s) + Read(m0, m0.s + 1)
           m1 == [m0 EXCEPT ![R] = v]
           t == m0.s + 2
           n == [m1 EXCEPT !["s"] = t]
<1>1. m0.s \in Word /\ W(m0.s + 2) = t /\ t \in Word /\ W(m0.s + 1) = m0.s + 1
  <2>1. m0.s \in Word
    BY Fields
  <2> QED  BY <2>1, SMT DEF W, Word
<1>2. v \in Word /\ ReadW(m0, m0.s) = v
  <2>1. ReadW(m0, m0.s) = v
    BY <1>1 DEF ReadW
  <2> HIDE DEF v
  <2> QED  BY <2>1, ReadWTyped
<1>3. m1 \in Machines
  <2> HIDE DEF v
  <2> QED  BY <1>2, WordSet DEF Words
<1>4. Pull(m0, "s", R) = n
  <2>1. R # "cc" /\ R \notin {"dp", "a", "b"} /\ "s" \in DOMAIN m0
    BY DEF Machines
  <2>2. Pull(m0, "s", R) = [m1 EXCEPT !["s"] = W(m0.s + 2)]
    <3> HIDE DEF v
    <3>1. ReadW(m0, m0["s"]) = v
      BY <1>2
    <3> QED  BY <2>1, <3>1 DEF Pull, Machines
  <2> QED  BY <1>1, <2>2
<1>5. /\ Regs(m1, IF R = "pc" THEN v ELSE m0.pc, m0.s, m0.a, m0.b,
              IF R = "x" THEN v ELSE m0.x, IF R = "y" THEN v ELSE m0.y, IF R = "u" THEN v ELSE m0.u, m0.dp)
      /\ m1.cc = m0.cc /\ m1.err = m0.err /\ m1.mem = m0.mem
  <2> HIDE DEF v
  <2>1. CASE R = "pc"
    <3>1. m1 = [m0 EXCEPT ![R] = v]
      OBVIOUS
    <3> HIDE DEF m1
    <3> QED  BY <2>1, <3>1, Sets_pc DEF Regs
  <2>2. CASE R = "x"
    <3>1. m1 = [m0 EXCEPT ![R] = v]
      OBVIOUS
    <3> HIDE DEF m1
    <3> QED  BY <2>2, <3>1, Sets_x DEF Regs
  <2>3. CASE R = "y"
    <3>1. m1 = [m0 EXCEPT ![R] = v]
      OBVIOUS
    <3> HIDE DEF m1
    <3> QED  BY <2>3, <3>1, Sets_y DEF Regs
  <2>4. CASE R = "u"
    <3>1. m1 = [m0 EXCEPT ![R] = v]
      OBVIOUS
    <3> HIDE DEF m1
    <3> QED  BY <2>4, <3>1, Sets_u DEF Regs
  <2> QED  BY <2>1, <2>2, <2>3, <2>4
<1> HIDE DEF v, m1, t
<1>6. /\ n \in Machines /\ Regs(n, m1.pc, t, m1.a, m1.b, m1.x, m1.y, m1.u, m1.dp)
      /\ n.cc = m1.cc /\ n.err = m1.err /\ n.mem = m1.mem
  BY <1>1, <1>3, StackSet
<1> HIDE DEF n
<1>7. SameMemory(n, m0)
  BY <1>5, <1>6 DEF SameMemory, Read
<1>8. /\ Regs(n, IF R = "pc" THEN v ELSE m0.pc, t, m0.a, m0.b,
              IF R = "x" THEN v ELSE m0.x, IF R = "y" THEN v ELSE m0.y, IF R = "u" THEN v ELSE m0.u, m0.dp)
      /\ n.cc = m0.cc /\ n.err = m0.err
  BY <1>5, <1>6 DEF Regs
<1> QED  BY <1>4, <1>6, <1>7, <1>8 DEF v, t

\* The postbytes of the drivers, bit by bit.
LEMMA Masks ==
  /\ \A w \in {1, 2, 8, 16, 32, 64, 128} : Btst(4, w) = 0
  /\ \A w \in {1, 8, 16, 32, 64, 128} : Btst(6, w) = 0
  /\ \A w \in {1, 2, 4, 8, 16, 64, 128} : Btst(32, w) = 0
  /\ Btst(4, 4) = 1 /\ Btst(6, 2) = 1 /\ Btst(6, 4) = 1 /\ Btst(32, 32) = 1
  /\ \A w \in {1, 2, 4, 8, 16, 32, 64, 128} : Btst(255, w) = 1
  /\ \A w \in {2, 4, 8, 16, 32, 64, 128} : Btst(254, w) = 1 /\ Btst(1, w) = 0
  /\ Btst(1, 1) = 1 /\ Btst(254, 1) = 0
  BY SMT DEF Btst

LEMMA OneRegister ==
  ASSUME NEW m0, NEW v, NEW w, NEW R
  PROVE  /\ Btst(v, w) = 0 => PushIf(m0, "s", v, w, R) = m0 /\ PullIf(m0, "s", v, w, R) = m0
         /\ Btst(v, w) = 1 => PushIf(m0, "s", v, w, R) = Push(m0, "s", R) /\ PullIf(m0, "s", v, w, R) = Pull(m0, "s", R)
  BY DEF PushIf, PullIf

LEMMA Pushes ==
  ASSUME NEW m0
  PROVE  /\ Psh(m0, "s", "u", 4) = Push(m0, "s", "b")
         /\ Psh(m0, "s", "u", 6) = Push(Push(m0, "s", "b"), "s", "a")
         /\ Psh(m0, "s", "u", 32) = Push(m0, "s", "y")
<1>1. \A k, R : /\ \A w \in {1, 2, 8, 16, 32, 64, 128} : PushIf(k, "s", 4, w, R) = k
               /\ PushIf(k, "s", 4, 4, R) = Push(k, "s", R)
  BY Masks, OneRegister
<1>2. \A k, R : /\ \A w \in {1, 8, 16, 32, 64, 128} : PushIf(k, "s", 6, w, R) = k
               /\ PushIf(k, "s", 6, 4, R) = Push(k, "s", R) /\ PushIf(k, "s", 6, 2, R) = Push(k, "s", R)
  BY Masks, OneRegister
<1>3. \A k, R : /\ \A w \in {1, 2, 4, 8, 16, 64, 128} : PushIf(k, "s", 32, w, R) = k
               /\ PushIf(k, "s", 32, 32, R) = Push(k, "s", R)
  BY Masks, OneRegister
<1>4. Psh(m0, "s", "u", 4) = Push(m0, "s", "b")
  BY <1>1 DEF Psh
<1>5. Psh(m0, "s", "u", 6) = Push(Push(m0, "s", "b"), "s", "a")
  BY <1>2 DEF Psh
<1>6. Psh(m0, "s", "u", 32) = Push(m0, "s", "y")
  BY <1>3 DEF Psh
<1> QED  BY <1>4, <1>5, <1>6

LEMMA Pulls ==
  ASSUME NEW m0
  PROVE  /\ Pul(m0, "s", "u", 4) = Pull(m0, "s", "b")
         /\ Pul(m0, "s", "u", 6) = Pull(Pull(m0, "s", "a"), "s", "b")
         /\ Pul(m0, "s", "u", 32) = Pull(m0, "s", "y")
<1>1. \A k, R : /\ \A w \in {1, 2, 8, 16, 32, 64, 128} : PullIf(k, "s", 4, w, R) = k
               /\ PullIf(k, "s", 4, 4, R) = Pull(k, "s", R)
  BY Masks, OneRegister
<1>2. \A k, R : /\ \A w \in {1, 8, 16, 32, 64, 128} : PullIf(k, "s", 6, w, R) = k
               /\ PullIf(k, "s", 6, 4, R) = Pull(k, "s", R) /\ PullIf(k, "s", 6, 2, R) = Pull(k, "s", R)
  BY Masks, OneRegister
<1>3. \A k, R : /\ \A w \in {1, 2, 4, 8, 16, 64, 128} : PullIf(k, "s", 32, w, R) = k
               /\ PullIf(k, "s", 32, 32, R) = Pull(k, "s", R)
  BY Masks, OneRegister
<1>4. Pul(m0, "s", "u", 4) = Pull(m0, "s", "b")
  BY <1>1 DEF Pul
<1>5. Pul(m0, "s", "u", 6) = Pull(Pull(m0, "s", "a"), "s", "b")
  BY <1>2 DEF Pul
<1>6. Pul(m0, "s", "u", 32) = Pull(m0, "s", "y")
  BY <1>3 DEF Pul
<1> QED  BY <1>4, <1>5, <1>6

LEMMA DoesPshs ==
  ASSUME NEW m0 \in Machines, Low(m0.pc), Room(m0.s), Read(m0, m0.pc) = 52
  PROVE  LET v == Read(m0, m0.pc + 1) n == Execute(m0) IN
         v \in {4, 6, 32} =>
           /\ n.err = "none"
           /\ Regs(n, m0.pc + 2, m0.s - (IF v = 4 THEN 1 ELSE 2), m0.a, m0.b, m0.x, m0.y, m0.u, m0.dp)
           /\ \A adr : adr < m0.s - 2 \/ adr >= m0.s => Read(n, adr) = Read(m0, adr)
           /\ v = 4 => Read(n, m0.s - 1) = m0.b
           /\ v = 6 => Read(n, m0.s - 1) = m0.b /\ Read(n, m0.s - 2) = m0.a
           /\ v = 32 => 256 * Read(n, m0.s - 2) + Read(n, m0.s - 1) = m0.y
<1> DEFINE k == Started(m0)
           j == Skip(k, 1)
           v == Read(m0, m0.pc + 1)
           i == Ins("pshs", "none", "none")
           n == Execute(m0)
<1> SUFFICES ASSUME v \in {4, 6, 32}
             PROVE  /\ n.err = "none"
                    /\ Regs(n, m0.pc + 2, m0.s - (IF v = 4 THEN 1 ELSE 2), m0.a, m0.b, m0.x, m0.y, m0.u, m0.dp)
                    /\ \A adr : adr < m0.s - 2 \/ adr >= m0.s => Read(n, adr) = Read(m0, adr)
                    /\ v = 4 => Read(n, m0.s - 1) = m0.b
                    /\ v = 6 => Read(n, m0.s - 1) = m0.b /\ Read(n, m0.s - 2) = m0.a
                    /\ v = 32 => 256 * Read(n, m0.s - 2) + Read(n, m0.s - 1) = m0.y
  BY Zenon
<1>1. n = Perform(k, i)
  BY ExecuteStarts, Opcodes
<1>2. /\ j \in Machines /\ Regs(j, m0.pc + 2, m0.s, m0.a, m0.b, m0.x, m0.y, m0.u, m0.dp)
      /\ j.err = "none" /\ SameMemory(j, m0) /\ Post(k) = v
  BY Fetched2
<1> HIDE DEF k
<1>3. Perform(k, i) = Psh(j, "s", "u", v)
  <2>1. i.op = "pshs"
    BY DEF Ins
  <2> HIDE DEF i, j, v
  <2>2. Perform(k, i) = Psh(Skip(k, 1), "s", "u", Post(k))
    BY <2>1, ConditionNames DEF Perform, BranchOps
  <2> QED  BY <1>2, <2>2 DEF j
<1> HIDE DEF j, v, n
<1>4. m0.s \in Int /\ m0.y \in Word /\ j.y = m0.y /\ j.s = m0.s /\ j.a = m0.a /\ j.b = m0.b /\ Room(j.s)
  BY <1>2, Fields, WordInt DEF Regs
<1>5. CASE v = 4
  <2>1. n = Push(j, "s", "b")
    BY <1>1, <1>2, <1>3, <1>5, Pushes
  <2>2. /\ Regs(n, j.pc, j.s - 1, j.a, j.b, j.x, j.y, j.u, j.dp) /\ n.err = j.err
        /\ \A adr : Read(n, adr) = IF adr = j.s - 1 THEN j.b ELSE Read(j, adr)
    BY <1>2, <1>4, <2>1, PushesByte
  <2> QED  BY <1>2, <1>4, <1>5, <2>2 DEF Regs, SameMemory
<1>6. CASE v = 6
  <2> DEFINE l == Push(j, "s", "b")
  <2>1. n = Push(l, "s", "a")
    BY <1>1, <1>2, <1>3, <1>6, Pushes
  <2>2. /\ Regs(l, j.pc, j.s - 1, j.a, j.b, j.x, j.y, j.u, j.dp) /\ l.err = j.err /\ l \in Machines
        /\ \A adr : Read(l, adr) = IF adr = j.s - 1 THEN j.b ELSE Read(j, adr)
    BY <1>2, <1>4, PushesByte
  <2> HIDE DEF l
  <2>3. Room(l.s) \/ Room(l.s + 12)
    BY <1>4, <2>2 DEF Regs, Room
  <2>4. /\ Regs(n, l.pc, l.s - 1, l.a, l.b, l.x, l.y, l.u, l.dp) /\ n.err = l.err
        /\ \A adr : Read(n, adr) = IF adr = l.s - 1 THEN l.a ELSE Read(l, adr)
    BY <2>1, <2>2, <2>3, PushesByte
  <2>5. n.err = "none" /\ Regs(n, m0.pc + 2, m0.s - 2, m0.a, m0.b, m0.x, m0.y, m0.u, m0.dp)
    BY <1>2, <1>4, <2>2, <2>4 DEF Regs
  <2>6. l.s = m0.s - 1 /\ l.a = m0.a
    BY <1>2, <1>4, <2>2 DEF Regs
  <2>7. \A adr : Read(n, adr) = IF adr = m0.s - 2 THEN m0.a
                                ELSE IF adr = m0.s - 1 THEN m0.b ELSE Read(m0, adr)
    BY <1>2, <1>4, <2>2, <2>4, <2>6 DEF SameMemory
  <2> QED  BY <1>4, <1>6, <2>5, <2>7
<1>7. CASE v = 32
  <2>1. n = Push(j, "s", "y")
    BY <1>1, <1>2, <1>3, <1>7, Pushes
  <2>2. /\ Regs(n, j.pc, j.s - 2, j.a, j.b, j.x, j.y, j.u, j.dp) /\ n.err = j.err
        /\ \A adr : Read(n, adr) = IF adr = j.s - 2 THEN j["y"] \div 256
                                   ELSE IF adr = j.s - 1 THEN j["y"] % 256 ELSE Read(j, adr)
    BY <1>2, <1>4, <2>1, PushesWord DEF Words
  <2>3. 256 * (m0.y \div 256) + (m0.y % 256) = m0.y
    BY <1>4, WordInt
  <2>4. n.err = "none" /\ Regs(n, m0.pc + 2, m0.s - 2, m0.a, m0.b, m0.x, m0.y, m0.u, m0.dp)
    BY <1>2, <1>4, <2>2 DEF Regs
  <2>5. \A adr : Read(n, adr) = IF adr = m0.s - 2 THEN m0.y \div 256
                                ELSE IF adr = m0.s - 1 THEN m0.y % 256 ELSE Read(m0, adr)
    BY <1>2, <1>4, <2>2 DEF SameMemory
  <2>6. Read(n, m0.s - 2) = m0.y \div 256 /\ Read(n, m0.s - 1) = m0.y % 256
    BY <1>4, <2>5
  <2>7. \A adr : adr < m0.s - 2 \/ adr >= m0.s => Read(n, adr) = Read(m0, adr)
    BY <1>4, <2>5
  <2>8. 256 * Read(n, m0.s - 2) + Read(n, m0.s - 1) = m0.y
    BY <2>3, <2>6
  <2> QED  BY <1>7, <2>4, <2>7, <2>8
<1> QED  BY <1>5, <1>6, <1>7

LEMMA DoesPuls ==
  ASSUME NEW m0 \in Machines, Low(m0.pc), m0.s < 50000, Read(m0, m0.pc) = 53
  PROVE  LET v == Read(m0, m0.pc + 1) n == Execute(m0) IN
         /\ v \in {4, 6, 32} => n.err = "none" /\ SameMemory(n, m0)
         /\ v = 4 => Regs(n, m0.pc + 2, m0.s + 1, m0.a, Read(m0, m0.s), m0.x, m0.y, m0.u, m0.dp)
         /\ v = 6 => Regs(n, m0.pc + 2, m0.s + 2, Read(m0, m0.s), Read(m0, m0.s + 1), m0.x, m0.y, m0.u, m0.dp)
         /\ v = 32 => /\ n.cc = m0.cc
                      /\ Regs(n, m0.pc + 2, m0.s + 2, m0.a, m0.b, m0.x,
                              256 * Read(m0, m0.s) + Read(m0, m0.s + 1), m0.u, m0.dp)
<1> DEFINE k == Started(m0)
           j == Skip(k, 1)
           v == Read(m0, m0.pc + 1)
           i == Ins("puls", "none", "none")
           n == Execute(m0)
           h == 256 * Read(m0, m0.s) + Read(m0, m0.s + 1)
<1>1. n = Perform(k, i)
  BY ExecuteStarts, Opcodes
<1>2. /\ j \in Machines /\ Regs(j, m0.pc + 2, m0.s, m0.a, m0.b, m0.x, m0.y, m0.u, m0.dp)
      /\ j.err = "none" /\ j.cc = m0.cc /\ SameMemory(j, m0) /\ Post(k) = v
  BY Fetched2
<1> HIDE DEF k
<1>3. Perform(k, i) = Pul(j, "s", "u", v)
  <2>1. i.op = "puls"
    BY DEF Ins
  <2> HIDE DEF i, j, v
  <2>2. Perform(k, i) = Pul(Skip(k, 1), "s", "u", Post(k))
    BY <2>1, ConditionNames DEF Perform, BranchOps
  <2> QED  BY <1>2, <2>2 DEF j
<1> HIDE DEF j, v, n, h
<1>4. m0.s \in Int /\ j.s = m0.s /\ j.a = m0.a /\ j.b = m0.b /\ j.s < 60000
  BY <1>2, Fields, WordInt DEF Regs
<1>5. ASSUME v = 4
      PROVE  /\ n.err = "none" /\ SameMemory(n, m0)
             /\ Regs(n, m0.pc + 2, m0.s + 1, m0.a, Read(m0, m0.s), m0.x, m0.y, m0.u, m0.dp)
  <2>1. n = Pull(j, "s", "b")
    BY <1>1, <1>3, <1>5, Pulls
  <2>2. /\ Regs(n, j.pc, j.s + 1, j.a, Read(j, j.s), j.x, j.y, j.u, j.dp) /\ n.err = j.err
        /\ SameMemory(n, j)
    BY <1>2, <1>4, <2>1, PullsByte
  <2> QED  BY <1>2, <1>4, <2>2 DEF Regs, SameMemory
<1>6. ASSUME v = 6
      PROVE  /\ n.err = "none" /\ SameMemory(n, m0)
             /\ Regs(n, m0.pc + 2, m0.s + 2, Read(m0, m0.s), Read(m0, m0.s + 1), m0.x, m0.y, m0.u, m0.dp)
  <2> DEFINE l == Pull(j, "s", "a")
  <2>1. n = Pull(l, "s", "b")
    BY <1>1, <1>3, <1>6, Pulls
  <2>2. /\ Regs(l, j.pc, j.s + 1, Read(j, j.s), j.b, j.x, j.y, j.u, j.dp) /\ l.err = j.err /\ l \in Machines
        /\ SameMemory(l, j)
    BY <1>2, <1>4, PullsByte
  <2> HIDE DEF l
  <2>3. l.s < 60000 /\ l.s = m0.s + 1
    BY <1>4, <2>2 DEF Regs
  <2>4. /\ Regs(n, l.pc, l.s + 1, l.a, Read(l, l.s), l.x, l.y, l.u, l.dp) /\ n.err = l.err
        /\ SameMemory(n, l)
    BY <2>1, <2>2, <2>3, PullsByte
  <2>5. l.s + 1 = m0.s + 2
    BY <1>4, <2>3
  <2> QED  BY <1>2, <1>4, <2>2, <2>3, <2>4, <2>5 DEF Regs, SameMemory
<1>7. ASSUME v = 32
      PROVE  /\ n.err = "none" /\ SameMemory(n, m0) /\ n.cc = m0.cc
             /\ Regs(n, m0.pc + 2, m0.s + 2, m0.a, m0.b, m0.x, h, m0.u, m0.dp)
  <2>1. n = Pull(j, "s", "y")
    BY <1>1, <1>3, <1>7, Pulls
  <2>2. /\ Regs(n, j.pc, j.s + 2, j.a, j.b, j.x, 256 * Read(j, j.s) + Read(j, j.s + 1), j.u, j.dp)
        /\ n.err = j.err /\ n.cc = j.cc /\ SameMemory(n, j)
    BY <1>2, <1>4, <2>1, PullsWord
  <2> QED  BY <1>2, <1>4, <2>2 DEF Regs, SameMemory, h
<1> QED  BY <1>5, <1>6, <1>7 DEF v, n, h

LEMMA DoesRts ==
  ASSUME NEW m0 \in Machines, Low(m0.pc), m0.s < 50000, Read(m0, m0.pc) = 57
  PROVE  LET n == Execute(m0) IN
         /\ n.err = "none" /\ SameMemory(n, m0) /\ n.cc = m0.cc
         /\ Regs(n, ReadW(m0, m0.s), m0.s + 2, m0.a, m0.b, m0.x, m0.y, m0.u, m0.dp)
<1> DEFINE k == Started(m0)
           i == Ins("rts", "none", "none")
           n == Execute(m0)
<1>1. n = Perform(k, i)
  BY ExecuteStarts, Opcodes
<1>2. /\ k \in Machines /\ Regs(k, m0.pc + 1, m0.s, m0.a, m0.b, m0.x, m0.y, m0.u, m0.dp)
      /\ k.err = "none" /\ k.cc = m0.cc /\ SameMemory(k, m0)
  BY Fetched2
<1> HIDE DEF k, n
<1>3. n = Pull(k, "s", "pc")
  <2>1. i.op = "rts"
    BY DEF Ins
  <2> HIDE DEF i
  <2> QED  BY <1>1, <2>1, ConditionNames DEF Perform, BranchOps, Rts
<1>4. m0.s \in Word /\ k.s = m0.s /\ k.s < 60000
  BY <1>2, Fields, WordInt DEF Regs
<1>5. /\ Regs(n, 256 * Read(k, k.s) + Read(k, k.s + 1), k.s + 2, k.a, k.b, k.x, k.y, k.u, k.dp)
      /\ n.err = k.err /\ n.cc = k.cc /\ SameMemory(n, k)
  BY <1>2, <1>3, <1>4, PullsWord
<1>6. W(m0.s + 1) = m0.s + 1
  BY <1>4, SMT DEF W, Word
<1>7. 256 * Read(k, k.s) + Read(k, k.s + 1) = ReadW(m0, m0.s)
  BY <1>2, <1>4, <1>6 DEF ReadW, SameMemory
<1> QED  BY <1>2, <1>4, <1>5, <1>7 DEF Regs, SameMemory, n

LEMMA DoesTst ==
  ASSUME NEW m0 \in Machines, Low(m0.pc), Read(m0, m0.pc) = 77
  PROVE  LET n == Execute(m0) IN
         /\ n.err = "none" /\ SameMemory(n, m0)
         /\ Regs(n, m0.pc + 1, m0.s, m0.a, m0.b, m0.x, m0.y, m0.u, m0.dp)
<1> DEFINE k == Started(m0)
           i == Ins("tst", "a", "none")
           n == Execute(m0)
<1>1. n = Perform(k, i)
  BY ExecuteStarts, Opcodes
<1>2. /\ k \in Machines /\ Regs(k, m0.pc + 1, m0.s, m0.a, m0.b, m0.x, m0.y, m0.u, m0.dp)
      /\ k.err = "none" /\ SameMemory(k, m0)
  BY Fetched2
<1> HIDE DEF k, n
<1>3. i.op = "tst" /\ i.R = "a"
  BY DEF Ins
<1>4. n = OnByte(k, i)
  <2> HIDE DEF i
  <2> QED  BY <1>1, <1>3, ConditionNames DEF Perform, BranchOps
<1> DEFINE g == Tst(k.cc, k.a)
<1>5. g.r = k.a
  <2>1. k.cc \in CC /\ k.a \in Int /\ ByteSign \in {ByteSign, WordSign}
    BY <1>2, Fields, ByteInt
  <2> QED  BY <2>1, MoveTyped DEF Tst
<1>6. n = [k EXCEPT !.a = k.a, !.cc = g.cc]
  <2>1. OneByte("tst", k.cc, k.a) = g
    BY DEF OneByte
  <2> HIDE DEF i, g
  <2> QED  BY <1>3, <1>4, <1>5, <2>1 DEF OnByte, Into
<1> HIDE DEF g
<1>7. /\ n.err = k.err /\ n.mem = k.mem /\ Regs(n, k.pc, k.s, k.a, k.b, k.x, k.y, k.u, k.dp)
  BY <1>2, <1>6 DEF Regs, Machines
<1> QED  BY <1>2, <1>7 DEF Regs, SameMemory, Read, n

LEMMA DoesNull ==
  ASSUME NEW m0 \in Machines, Low(m0.pc), Read(m0, m0.pc) = 1
  PROVE  LET n == Execute(m0) IN
         /\ n.err = "opcode" /\ SameMemory(n, m0)
         /\ Regs(n, m0.pc + 1, m0.s, m0.a, m0.b, m0.x, m0.y, m0.u, m0.dp)
<1> DEFINE k == Started(m0)
           i == Decode(1, 1)
           n == Execute(m0)
<1>1. n = Perform(k, i)
  BY ExecuteStarts
<1>2. /\ k \in Machines /\ Regs(k, m0.pc + 1, m0.s, m0.a, m0.b, m0.x, m0.y, m0.u, m0.dp)
      /\ k.err = "none" /\ SameMemory(k, m0)
  BY Fetched2
<1> HIDE DEF k, n
<1>3. n = Fail(k, "opcode")
  <2>1. i.op = "null"
    BY Opcodes
  <2> HIDE DEF i
  <2> QED  BY <1>1, <2>1, ConditionNames DEF Perform, BranchOps
<1>4. /\ n.err = "opcode" /\ n.mem = k.mem /\ Regs(n, k.pc, k.s, k.a, k.b, k.x, k.y, k.u, k.dp)
  BY <1>2, <1>3 DEF Regs, Machines, Fail
<1> QED  BY <1>2, <1>4 DEF Regs, SameMemory, Read, n

LEMMA DoesBra ==
  ASSUME NEW m0 \in Machines, Low(m0.pc), Read(m0, m0.pc) = 32
  PROVE  LET n == Execute(m0) IN
         /\ n.err = "none" /\ SameMemory(n, m0)
         /\ Regs(n, W(m0.pc + 2 + Ext8(Read(m0, m0.pc + 1))), m0.s, m0.a, m0.b, m0.x, m0.y, m0.u, m0.dp)
<1> DEFINE k == Started(m0)
           j == Skip(k, 1)
           v == Read(m0, m0.pc + 1)
           i == Ins("bra", "none", "relb")
           n == Execute(m0)
           t == W(k.pc + 1 + Ext8(Read(k, k.pc)))
<1>1. n = Perform(k, i)
  BY ExecuteStarts, Opcodes
<1>2. /\ j \in Machines /\ Regs(j, m0.pc + 2, m0.s, m0.a, m0.b, m0.x, m0.y, m0.u, m0.dp)
      /\ j.err = "none" /\ SameMemory(j, m0) /\ k.pc = m0.pc + 1 /\ SameMemory(k, m0)
  BY Fetched2 DEF Regs
<1> HIDE DEF k, n
<1>3. i.op = "bra" /\ i.mode = "relb"
  BY DEF Ins
<1>4. n = Branch(k, "bra", EA(k, "relb", 1))
  <2> HIDE DEF i
  <2> QED  BY <1>1, <1>3, ConditionNames DEF Perform, BranchOps
<1>5. EA(k, "relb", 1) = At(t, j)
  BY DEF EA, Relb
<1>6. n = [j EXCEPT !.pc = t]
  <2>1. Conditions(k.cc)["bra"] = TRUE
    BY DEF Conditions, RA
  <2> HIDE DEF t, j
  <2> QED  BY <1>4, <1>5, <2>1 DEF Branch, At
<1>7. t = W(m0.pc + 2 + Ext8(v))
  <2>1. Read(k, k.pc) = v
    BY <1>2 DEF SameMemory
  <2>2. m0.pc \in Int /\ Ext8(v) \in Int
    BY Fields, WordInt, ReadTyped, Ext8Int
  <2>3. k.pc + 1 + Ext8(v) = m0.pc + 2 + Ext8(v)
    <3> HIDE DEF v
    <3> QED  BY <1>2, <2>2
  <2> QED  BY <2>1, <2>3
<1> HIDE DEF t, j
<1>8. /\ n.err = j.err /\ n.mem = j.mem /\ Regs(n, t, j.s, j.a, j.b, j.x, j.y, j.u, j.dp)
  BY <1>2, <1>6 DEF Regs, Machines
<1> QED  BY <1>2, <1>7, <1>8 DEF Regs, SameMemory, Read, n

LEMMA DoesJsr ==
  ASSUME NEW m0 \in Machines, Low(m0.pc), Room(m0.s), Read(m0, m0.pc) = 189
  PROVE  LET n == Execute(m0) IN
         /\ n.err = "none"
         /\ Regs(n, ReadW(m0, m0.pc + 1), m0.s - 2, m0.a, m0.b, m0.x, m0.y, m0.u, m0.dp)
         /\ \A adr : Read(n, adr) = IF adr = m0.s - 2 THEN (m0.pc + 3) \div 256
                                    ELSE IF adr = m0.s - 1 THEN (m0.pc + 3) % 256 ELSE Read(m0, adr)
<1> DEFINE k == Started(m0)
           j == Skip(k, 2)
           i == Ins("jsr", "none", "ext")
           n == Execute(m0)
           t == ReadW(k, k.pc)
           l == Push(j, "s", "pc")
<1>1. n = Perform(k, i)
  BY ExecuteStarts, Opcodes
<1>2. /\ k \in Machines /\ Regs(k, m0.pc + 1, m0.s, m0.a, m0.b, m0.x, m0.y, m0.u, m0.dp)
      /\ k.err = "none" /\ SameMemory(k, m0)
  BY Fetched2
<1> HIDE DEF k, n
<1>3. m0.pc \in Word /\ m0.s \in Int /\ k.pc = m0.pc + 1 /\ W(k.pc + 2) = m0.pc + 3
  <2>1. m0.pc \in Word /\ m0.s \in Int /\ k.pc = m0.pc + 1
    BY <1>2, Fields, WordInt DEF Regs
  <2> QED  BY <2>1, SMT DEF Low, W, Word
<1>4. /\ j \in Machines /\ Regs(j, m0.pc + 3, m0.s, m0.a, m0.b, m0.x, m0.y, m0.u, m0.dp)
      /\ j.err = "none" /\ SameMemory(j, m0)
  <2>1. /\ j \in Machines /\ Regs(j, W(k.pc + 2), k.s, k.a, k.b, k.x, k.y, k.u, k.dp) /\ j.err = k.err
        /\ SameMemory(j, k)
    BY <1>2, SkipRegs DEF SameMemory
  <2> QED  BY <1>2, <1>3, <2>1 DEF Regs, SameMemory
<1>5. n = Jsr(EA(k, "ext", 2))
  <2>1. i.op = "jsr" /\ i.mode = "ext"
    BY DEF Ins
  <2> HIDE DEF i
  <2> QED  BY <1>1, <2>1, ConditionNames DEF Perform, BranchOps
<1>6. EA(k, "ext", 2) = At(t, j)
  BY DEF EA, Ext
<1> HIDE DEF j
<1>7. n = [l EXCEPT !.pc = t]
  <2> HIDE DEF t, l
  <2> QED  BY <1>5, <1>6 DEF Jsr, At, l
<1>8. t = ReadW(m0, m0.pc + 1)
  BY <1>2, <1>3 DEF ReadW, SameMemory
<1>9. /\ l \in Machines /\ Regs(l, m0.pc + 3, m0.s - 2, m0.a, m0.b, m0.x, m0.y, m0.u, m0.dp) /\ l.err = "none"
      /\ \A adr : Read(l, adr) = IF adr = m0.s - 2 THEN (m0.pc + 3) \div 256
                                 ELSE IF adr = m0.s - 1 THEN (m0.pc + 3) % 256 ELSE Read(m0, adr)
  <2>1. Room(j.s) /\ j["pc"] = m0.pc + 3 /\ j.s = m0.s
    BY <1>4 DEF Regs
  <2>2. /\ l \in Machines /\ Regs(l, j.pc, j.s - 2, j.a, j.b, j.x, j.y, j.u, j.dp) /\ l.err = j.err
        /\ \A adr : Read(l, adr) = IF adr = j.s - 2 THEN j["pc"] \div 256
                                   ELSE IF adr = j.s - 1 THEN j["pc"] % 256 ELSE Read(j, adr)
    BY <1>4, <2>1, PushesWord DEF Words
  <2>3. /\ Regs(l, m0.pc + 3, m0.s - 2, m0.a, m0.b, m0.x, m0.y, m0.u, m0.dp) /\ l.err = "none"
    BY <1>4, <2>2 DEF Regs
  <2>4. \A adr : Read(l, adr) = IF adr = m0.s - 2 THEN (m0.pc + 3) \div 256
                                ELSE IF adr = m0.s - 1 THEN (m0.pc + 3) % 256 ELSE Read(m0, adr)
    BY <1>4, <2>1, <2>2 DEF SameMemory
  <2> QED  BY <2>2, <2>3, <2>4
<1> HIDE DEF t, l
<1>10. /\ n.err = l.err /\ n.mem = l.mem /\ Regs(n, t, l.s, l.a, l.b, l.x, l.y, l.u, l.dp)
  BY <1>7, <1>9 DEF Regs, Machines
<1>11. SameMemory(n, l)
  BY <1>10 DEF SameMemory, Read
<1>12. n.err = "none" /\ Regs(n, ReadW(m0, m0.pc + 1), m0.s - 2, m0.a, m0.b, m0.x, m0.y, m0.u, m0.dp)
  BY <1>8, <1>9, <1>10 DEF Regs
<1>13. \A adr : Read(n, adr) = IF adr = m0.s - 2 THEN (m0.pc + 3) \div 256
                               ELSE IF adr = m0.s - 1 THEN (m0.pc + 3) % 256 ELSE Read(m0, adr)
  BY <1>9, <1>11, Zenon DEF SameMemory
<1> QED  BY <1>12, <1>13, Zenon DEF n

-----------------------------------------------------------------------------
(* The software interrupt and the return from it.                          *)

Pair(n, t) == 256 * Read(n, t) + Read(n, t + 1)

\* All registers of k lie on n's stack.
FrameOf(n, k) ==
  LET t == n.s IN
  /\ Read(n, t) = Getcc(k.cc) /\ Read(n, t + 1) = k.a /\ Read(n, t + 2) = k.b /\ Read(n, t + 3) = k.dp
  /\ Pair(n, t + 4) = k.x /\ Pair(n, t + 6) = k.y /\ Pair(n, t + 8) = k.u /\ Pair(n, t + 10) = k.pc

\* n is the machine l after R has been pushed.
LEMMA OnTopByte ==
  ASSUME NEW k \in Machines, NEW l \in Machines, NEW d \in 0 .. 12, Room(k.s),
         Regs(l, k.pc, k.s - d, k.a, k.b, k.x, k.y, k.u, k.dp), l.cc = k.cc, l.err = k.err,
         NEW R \in {"dp", "a", "b", "cc"}, NEW n, n = Push(l, "s", R)
  PROVE  /\ n \in Machines /\ Regs(n, k.pc, k.s - d - 1, k.a, k.b, k.x, k.y, k.u, k.dp)
         /\ n.cc = k.cc /\ n.err = k.err
         /\ \A adr : adr # k.s - d - 1 => Read(n, adr) = Read(l, adr)
         /\ R = "cc" => Read(n, k.s - d - 1) = Getcc(k.cc)
         /\ R = "a" => Read(n, k.s - d - 1) = k.a
         /\ R = "b" => Read(n, k.s - d - 1) = k.b
         /\ R = "dp" => Read(n, k.s - d - 1) = k.dp
<1>1. k.s \in Int /\ l.s = k.s - d /\ (Room(l.s) \/ Room(l.s + 12))
  BY Fields, WordInt DEF Regs, Room
<1>2. /\ n \in Machines /\ Regs(n, l.pc, l.s - 1, l.a, l.b, l.x, l.y, l.u, l.dp)
      /\ n.cc = l.cc /\ n.err = l.err
      /\ \A adr : Read(n, adr) = IF adr = l.s - 1 THEN (IF R = "cc" THEN Getcc(l.cc) ELSE l[R]) ELSE Read(l, adr)
  BY <1>1, PushesByte
<1>3. l.a = k.a /\ l.b = k.b /\ l.dp = k.dp
  BY DEF Regs
<1>4. Regs(n, k.pc, k.s - d - 1, k.a, k.b, k.x, k.y, k.u, k.dp)
  BY <1>1, <1>2 DEF Regs
<1>5. Read(n, k.s - d - 1) = IF R = "cc" THEN Getcc(k.cc) ELSE l[R]
  BY <1>1, <1>2
<1>6. \A adr : adr # k.s - d - 1 => Read(n, adr) = Read(l, adr)
  BY <1>1, <1>2
<1> QED  BY <1>2, <1>3, <1>4, <1>5, <1>6

LEMMA OnTopWord ==
  ASSUME NEW k \in Machines, NEW l \in Machines, NEW d \in 0 .. 12, Room(k.s),
         Regs(l, k.pc, k.s - d, k.a, k.b, k.x, k.y, k.u, k.dp), l.cc = k.cc, l.err = k.err,
         NEW R \in {"pc", "x", "y", "u"}, NEW n, n = Push(l, "s", R)
  PROVE  /\ n \in Machines /\ Regs(n, k.pc, k.s - d - 2, k.a, k.b, k.x, k.y, k.u, k.dp)
         /\ n.cc = k.cc /\ n.err = k.err
         /\ \A adr : adr # k.s - d - 1 /\ adr # k.s - d - 2 => Read(n, adr) = Read(l, adr)
         /\ R = "pc" => Pair(n, k.s - d - 2) = k.pc
         /\ R = "x" => Pair(n, k.s - d - 2) = k.x
         /\ R = "y" => Pair(n, k.s - d - 2) = k.y
         /\ R = "u" => Pair(n, k.s - d - 2) = k.u
<1>1. k.s \in Int /\ l.s = k.s - d /\ (Room(l.s) \/ Room(l.s + 12))
  BY Fields, WordInt DEF Regs, Room
<1>2. /\ n \in Machines /\ Regs(n, l.pc, l.s - 2, l.a, l.b, l.x, l.y, l.u, l.dp)
      /\ n.cc = l.cc /\ n.err = l.err
      /\ \A adr : Read(n, adr) = IF adr = l.s - 2 THEN l[R] \div 256
                                 ELSE IF adr = l.s - 1 THEN l[R] % 256 ELSE Read(l, adr)
  BY <1>1, PushesWord DEF Words
<1>3. l.pc = k.pc /\ l.x = k.x /\ l.y = k.y /\ l.u = k.u
  BY DEF Regs
<1>4. Regs(n, k.pc, k.s - d - 2, k.a, k.b, k.x, k.y, k.u, k.dp)
  BY <1>1, <1>2 DEF Regs
<1>5. Read(n, k.s - d - 2) = l[R] \div 256 /\ Read(n, k.s - d - 2 + 1) = l[R] % 256
  BY <1>1, <1>2
<1>6. \A adr : adr # k.s - d - 1 /\ adr # k.s - d - 2 => Read(n, adr) = Read(l, adr)
  BY <1>1, <1>2
<1>7. Pair(n, k.s - d - 2) = l[R]
  <2>1. l[R] \in Int
    BY Fields, WordInt DEF Words
  <2>2. 256 * (l[R] \div 256) + (l[R] % 256) = l[R]
    BY <2>1
  <2> QED  BY <1>5, <2>2 DEF Pair
<1> QED  BY <1>2, <1>3, <1>4, <1>6, <1>7

LEMMA PushesAll ==
  ASSUME NEW k \in Machines, Room(k.s)
  PROVE  LET n == Psh(k, "s", "u", 255) IN
         /\ n \in Machines /\ Regs(n, k.pc, k.s - 12, k.a, k.b, k.x, k.y, k.u, k.dp)
         /\ n.cc = k.cc /\ n.err = k.err /\ FrameOf(n, k)
         /\ \A adr : adr < k.s - 12 \/ adr >= k.s => Read(n, adr) = Read(k, adr)
<1> DEFINE n1 == Push(k, "s", "pc")
           n2 == Push(n1, "s", "u")
           n3 == Push(n2, "s", "y")
           n4 == Push(n3, "s", "x")
           n5 == Push(n4, "s", "dp")
           n6 == Push(n5, "s", "b")
           n7 == Push(n6, "s", "a")
           n8 == Push(n7, "s", "cc")
<1>0. k.s \in Int /\ k.s > 100
  BY Fields, WordInt DEF Room
<1>1. Psh(k, "s", "u", 255) = n8
  <2>1. \A l, R : \A w \in {1, 2, 4, 8, 16, 32, 64, 128} : PushIf(l, "s", 255, w, R) = Push(l, "s", R)
    BY Masks, OneRegister
  <2> QED  BY <2>1 DEF Psh
<1>2. /\ n1 \in Machines /\ Regs(n1, k.pc, k.s - 2, k.a, k.b, k.x, k.y, k.u, k.dp)
      /\ n1.cc = k.cc /\ n1.err = k.err
      /\ \A adr : adr # k.s - 1 /\ adr # k.s - 2 => Read(n1, adr) = Read(k, adr)
      /\ Pair(n1, k.s - 2) = k.pc
  <2>1. Regs(k, k.pc, k.s - 0, k.a, k.b, k.x, k.y, k.u, k.dp) /\ 0 \in 0 .. 12
    BY <1>0 DEF Regs
  <2>2. k.s - 0 - 1 = k.s - 1 /\ k.s - 0 - 2 = k.s - 2
    BY <1>0
  <2> QED  BY <2>1, <2>2, OnTopWord
<1>3. /\ n2 \in Machines /\ Regs(n2, k.pc, k.s - 4, k.a, k.b, k.x, k.y, k.u, k.dp)
      /\ n2.cc = k.cc /\ n2.err = k.err
      /\ \A adr : adr # k.s - 3 /\ adr # k.s - 4 => Read(n2, adr) = Read(n1, adr)
      /\ Pair(n2, k.s - 4) = k.u
  <2>1. 2 \in 0 .. 12 /\ k.s - 2 - 1 = k.s - 3 /\ k.s - 2 - 2 = k.s - 4
    BY <1>0
  <2> HIDE DEF n1
  <2> QED  BY <1>2, <2>1, OnTopWord
<1>4. /\ n3 \in Machines /\ Regs(n3, k.pc, k.s - 6, k.a, k.b, k.x, k.y, k.u, k.dp)
      /\ n3.cc = k.cc /\ n3.err = k.err
      /\ \A adr : adr # k.s - 5 /\ adr # k.s - 6 => Read(n3, adr) = Read(n2, adr)
      /\ Pair(n3, k.s - 6) = k.y
  <2>1. 4 \in 0 .. 12 /\ k.s - 4 - 1 = k.s - 5 /\ k.s - 4 - 2 = k.s - 6
    BY <1>0
  <2> HIDE DEF n2
  <2> QED  BY <1>3, <2>1, OnTopWord
<1>5. /\ n4 \in Machines /\ Regs(n4, k.pc, k.s - 8, k.a, k.b, k.x, k.y, k.u, k.dp)
      /\ n4.cc = k.cc /\ n4.err = k.err
      /\ \A adr : adr # k.s - 7 /\ adr # k.s - 8 => Read(n4, adr) = Read(n3, adr)
      /\ Pair(n4, k.s - 8) = k.x
  <2>1. 6 \in 0 .. 12 /\ k.s - 6 - 1 = k.s - 7 /\ k.s - 6 - 2 = k.s - 8
    BY <1>0
  <2> HIDE DEF n3
  <2> QED  BY <1>4, <2>1, OnTopWord
<1>6. /\ n5 \in Machines /\ Regs(n5, k.pc, k.s - 9, k.a, k.b, k.x, k.y, k.u, k.dp)
      /\ n5.cc = k.cc /\ n5.err = k.err
      /\ \A adr : adr # k.s - 9 => Read(n5, adr) = Read(n4, adr)
      /\ Read(n5, k.s - 9) = k.dp
  <2>1. 8 \in 0 .. 12 /\ k.s - 8 - 1 = k.s - 9 /\ k.s - 8 - 2 = k.s - 10
    BY <1>0
  <2> HIDE DEF n4
  <2> QED  BY <1>5, <2>1, OnTopByte
<1>7. /\ n6 \in Machines /\ Regs(n6, k.pc, k.s - 10, k.a, k.b, k.x, k.y, k.u, k.dp)
      /\ n6.cc = k.cc /\ n6.err = k.err
      /\ \A adr : adr # k.s - 10 => Read(n6, adr) = Read(n5, adr)
      /\ Read(n6, k.s - 10) = k.b
  <2>1. 9 \in 0 .. 12 /\ k.s - 9 - 1 = k.s - 10 /\ k.s - 9 - 2 = k.s - 11
    BY <1>0
  <2> HIDE DEF n5
  <2> QED  BY <1>6, <2>1, OnTopByte
<1>8. /\ n7 \in Machines /\ Regs(n7, k.pc, k.s - 11, k.a, k.b, k.x, k.y, k.u, k.dp)
      /\ n7.cc = k.cc /\ n7.err = k.err
      /\ \A adr : adr # k.s - 11 => Read(n7, adr) = Read(n6, adr)
      /\ Read(n7, k.s - 11) = k.a
  <2>1. 10 \in 0 .. 12 /\ k.s - 10 - 1 = k.s - 11 /\ k.s - 10 - 2 = k.s - 12
    BY <1>0
  <2> HIDE DEF n6
  <2> QED  BY <1>7, <2>1, OnTopByte
<1>9. /\ n8 \in Machines /\ Regs(n8, k.pc, k.s - 12, k.a, k.b, k.x, k.y, k.u, k.dp)
      /\ n8.cc = k.cc /\ n8.err = k.err
      /\ \A adr : adr # k.s - 12 => Read(n8, adr) = Read(n7, adr)
      /\ Read(n8, k.s - 12) = Getcc(k.cc)
  <2>1. 11 \in 0 .. 12 /\ k.s - 11 - 1 = k.s - 12 /\ k.s - 11 - 2 = k.s - 13
    BY <1>0
  <2> HIDE DEF n7
  <2> QED  BY <1>8, <2>1, OnTopByte
<1> HIDE DEF n1, n2, n3, n4, n5, n6, n7, n8
<1>10. \A adr : adr < k.s - 12 \/ adr >= k.s => Read(n8, adr) = Read(k, adr)
  BY <1>0, <1>2, <1>3, <1>4, <1>5, <1>6, <1>7, <1>8, <1>9
<1>11. Pair(n8, k.s - 2) = k.pc
  BY <1>0, <1>2, <1>3, <1>4, <1>5, <1>6, <1>7, <1>8, <1>9 DEF Pair
<1>12. Pair(n8, k.s - 4) = k.u
  BY <1>0, <1>3, <1>4, <1>5, <1>6, <1>7, <1>8, <1>9 DEF Pair
<1>13. Pair(n8, k.s - 6) = k.y
  BY <1>0, <1>4, <1>5, <1>6, <1>7, <1>8, <1>9 DEF Pair
<1>14. Pair(n8, k.s - 8) = k.x
  BY <1>0, <1>5, <1>6, <1>7, <1>8, <1>9 DEF Pair
<1>15. Read(n8, k.s - 9) = k.dp
  BY <1>0, <1>6, <1>7, <1>8, <1>9
<1>16. Read(n8, k.s - 10) = k.b
  BY <1>0, <1>7, <1>8, <1>9
<1>17. Read(n8, k.s - 11) = k.a
  BY <1>0, <1>8, <1>9
<1>18. Read(n8, k.s - 12) = Getcc(k.cc)
  BY <1>0, <1>9
<1>19. FrameOf(n8, k)
  <2>1. n8.s = k.s - 12
    BY <1>9 DEF Regs
  <2>2. /\ n8.s + 1 = k.s - 11 /\ n8.s + 2 = k.s - 10 /\ n8.s + 3 = k.s - 9 /\ n8.s + 4 = k.s - 8
        /\ n8.s + 6 = k.s - 6 /\ n8.s + 8 = k.s - 4 /\ n8.s + 10 = k.s - 2
    BY <1>0, <2>1
  <2> QED  BY <1>11, <1>12, <1>13, <1>14, <1>15, <1>16, <1>17, <1>18, <2>1, <2>2, Zenon DEF FrameOf
<1> QED  BY <1>1, <1>9, <1>10, <1>19, Zenon

\* One register and then the stack pointer, for the flags.
LEMMA PullsCc ==
  ASSUME NEW m0 \in Machines, m0.s < 60000
  PROVE  LET n == Pull(m0, "s", "cc") IN
         /\ n \in Machines /\ Regs(n, m0.pc, m0.s + 1, m0.a, m0.b, m0.x, m0.y, m0.u, m0.dp)
         /\ n.cc = Setcc(Read(m0, m0.s)) /\ n.err = m0.err /\ SameMemory(n, m0)
<1> DEFINE v == Setcc(Read(m0, m0.s))
           m1 == [m0 EXCEPT !.cc = v]
           t == m0.s + 1
           n == [m1 EXCEPT !["s"] = t]
<1>1. m0.s \in Word /\ W(m0.s + 1) = t /\ t \in Word
  <2>1. m0.s \in Word
    BY Fields
  <2> QED  BY <2>1, SMT DEF W, Word
<1>2. v \in CC
  BY ReadTyped, ByteInt, SetccTyped
<1>3. m1 \in Machines
  <2> HIDE DEF v
  <2> QED  BY <1>2, CcSet
<1>4. Pull(m0, "s", "cc") = n
  <2>1. Pull(m0, "s", "cc") = [m1 EXCEPT !["s"] = W(m0.s + 1)]
    <3> HIDE DEF v
    <3> QED  BY DEF Pull, Machines, v
  <2> HIDE DEF m1
  <2> QED  BY <1>1, <2>1
<1>5. /\ Regs(m1, m0.pc, m0.s, m0.a, m0.b, m0.x, m0.y, m0.u, m0.dp)
      /\ m1.cc = v /\ m1.err = m0.err /\ m1.mem = m0.mem
  <2> HIDE DEF v
  <2> QED  BY DEF Regs, Machines
<1> HIDE DEF v, m1, t
<1>6. /\ n \in Machines /\ Regs(n, m1.pc, t, m1.a, m1.b, m1.x, m1.y, m1.u, m1.dp)
      /\ n.cc = m1.cc /\ n.err = m1.err /\ n.mem = m1.mem
  BY <1>1, <1>3, StackSet
<1> HIDE DEF n
<1>7. SameMemory(n, m0)
  BY <1>5, <1>6 DEF SameMemory, Read
<1> QED  BY <1>4, <1>5, <1>6, <1>7 DEF Regs, v, t

LEMMA PullsAll ==
  ASSUME NEW m0
  PROVE  /\ Pul(m0, "s", "u", 1) = Pull(m0, "s", "cc")
         /\ Pul(m0, "s", "u", 254) =
              Pull(Pull(Pull(Pull(Pull(Pull(Pull(m0, "s", "a"), "s", "b"), "s", "dp"),
                                  "s", "x"), "s", "y"), "s", "u"), "s", "pc")
<1>1. \A k, R : /\ \A w \in {2, 4, 8, 16, 32, 64, 128} : PullIf(k, "s", 1, w, R) = k
               /\ PullIf(k, "s", 1, 1, R) = Pull(k, "s", R)
  BY Masks, OneRegister
<1>2. \A k, R : /\ \A w \in {2, 4, 8, 16, 32, 64, 128} : PullIf(k, "s", 254, w, R) = Pull(k, "s", R)
               /\ PullIf(k, "s", 254, 1, R) = k
  BY Masks, OneRegister
<1>3. Pul(m0, "s", "u", 1) = Pull(m0, "s", "cc")
  BY <1>1 DEF Pul
<1>4. Pul(m0, "s", "u", 254) =
        Pull(Pull(Pull(Pull(Pull(Pull(Pull(m0, "s", "a"), "s", "b"), "s", "dp"),
                            "s", "x"), "s", "y"), "s", "u"), "s", "pc")
  BY <1>2 DEF Pul
<1> QED  BY <1>3, <1>4

\* RTI pulls what lies on the stack.
LEMMA RtiPulls ==
  ASSUME NEW m0 \in Machines, m0.s < 50000, Btst(Read(m0, m0.s), 128) = 1
  PROVE  LET n == Rti(m0) t == m0.s IN
         /\ n \in Machines /\ n.err = m0.err /\ SameMemory(n, m0)
         /\ Regs(n, Pair(m0, t + 10), t + 12, Read(m0, t + 1), Read(m0, t + 2),
                 Pair(m0, t + 4), Pair(m0, t + 6), Pair(m0, t + 8), Read(m0, t + 3))
         /\ n.cc = Setcc(Read(m0, t))
<1> DEFINE n0 == Pull(m0, "s", "cc")
           n1 == Pull(n0, "s", "a")
           n2 == Pull(n1, "s", "b")
           n3 == Pull(n2, "s", "dp")
           n4 == Pull(n3, "s", "x")
           n5 == Pull(n4, "s", "y")
           n6 == Pull(n5, "s", "u")
           n7 == Pull(n6, "s", "pc")
           t == m0.s
<1>1. m0.s \in Int /\ m0.s < 60000
  BY Fields, WordInt
<1>2. /\ n0 \in Machines /\ Regs(n0, m0.pc, t + 1, m0.a, m0.b, m0.x, m0.y, m0.u, m0.dp)
      /\ n0.cc = Setcc(Read(m0, t)) /\ n0.err = m0.err /\ SameMemory(n0, m0)
  BY <1>1, PullsCc
<1>3. n0.cc.e = 1
  BY <1>2 DEF Setcc
<1>4. Rti(m0) = n7
  <2>1. Pul(m0, "s", "u", 1) = n0
    BY PullsAll
  <2>2. Rti(m0) = Pul(n0, "s", "u", 254)
    <3> HIDE DEF n0
    <3> QED  BY <1>3, <2>1 DEF Rti, RtiRest
  <2> QED  BY <2>2, PullsAll
<1>5. /\ n1 \in Machines
      /\ Regs(n1, m0.pc, t + 2, Read(m0, t + 1), m0.b,
              m0.x, m0.y, m0.u, m0.dp)
      /\ n1.cc = Setcc(Read(m0, t)) /\ n1.err = m0.err /\ SameMemory(n1, m0)
  <2> HIDE DEF n0
  <2>1. n0.s = t + 1 /\ n0.s < 60000
    BY <1>1, <1>2 DEF Regs
  <2>2. Read(n0, n0.s) = Read(m0, t + 1)
    BY <1>2, <2>1 DEF SameMemory
  <2> DEFINE v == Read(n0, n0.s)
             k == n0
  <2>3. /\ n1 \in Machines
        /\ Regs(n1, k.pc, k.s + 1, v, k.b,
                k.x, k.y, k.u, k.dp)
        /\ n1.cc = k.cc /\ n1.err = k.err /\ SameMemory(n1, k)
    BY <1>2, <2>1, PullsByte
  <2>4. v = Read(m0, t + 1) /\ k.s + 1 = t + 2
    BY <1>1, <2>1, <2>2
  <2> HIDE DEF v, k, n1, t
  <2> QED  BY <1>2, <2>3, <2>4 DEF Regs, SameMemory, k
<1>6. /\ n2 \in Machines
      /\ Regs(n2, m0.pc, t + 3, Read(m0, t + 1), Read(m0, t + 2),
              m0.x, m0.y, m0.u, m0.dp)
      /\ n2.cc = Setcc(Read(m0, t)) /\ n2.err = m0.err /\ SameMemory(n2, m0)
  <2> HIDE DEF n1
  <2>1. n1.s = t + 2 /\ n1.s < 60000
    BY <1>1, <1>5 DEF Regs
  <2>2. Read(n1, n1.s) = Read(m0, t + 2)
    BY <1>5, <2>1 DEF SameMemory
  <2> DEFINE v == Read(n1, n1.s)
             k == n1
  <2>3. /\ n2 \in Machines
        /\ Regs(n2, k.pc, k.s + 1, k.a, v,
                k.x, k.y, k.u, k.dp)
        /\ n2.cc = k.cc /\ n2.err = k.err /\ SameMemory(n2, k)
    BY <1>5, <2>1, PullsByte
  <2>4. v = Read(m0, t + 2) /\ k.s + 1 = t + 3
    BY <1>1, <2>1, <2>2
  <2> HIDE DEF v, k, n2, t
  <2> QED  BY <1>5, <2>3, <2>4 DEF Regs, SameMemory, k
<1>7. /\ n3 \in Machines
      /\ Regs(n3, m0.pc, t + 4, Read(m0, t + 1), Read(m0, t + 2),
              m0.x, m0.y, m0.u, Read(m0, t + 3))
      /\ n3.cc = Setcc(Read(m0, t)) /\ n3.err = m0.err /\ SameMemory(n3, m0)
  <2> HIDE DEF n2
  <2>1. n2.s = t + 3 /\ n2.s < 60000
    BY <1>1, <1>6 DEF Regs
  <2>2. Read(n2, n2.s) = Read(m0, t + 3)
    BY <1>6, <2>1 DEF SameMemory
  <2> DEFINE v == Read(n2, n2.s)
             k == n2
  <2>3. /\ n3 \in Machines
        /\ Regs(n3, k.pc, k.s + 1, k.a, k.b,
                k.x, k.y, k.u, v)
        /\ n3.cc = k.cc /\ n3.err = k.err /\ SameMemory(n3, k)
    BY <1>6, <2>1, PullsByte
  <2>4. v = Read(m0, t + 3) /\ k.s + 1 = t + 4
    BY <1>1, <2>1, <2>2
  <2> HIDE DEF v, k, n3, t
  <2> QED  BY <1>6, <2>3, <2>4 DEF Regs, SameMemory, k
<1>8. /\ n4 \in Machines
      /\ Regs(n4, m0.pc, t + 6, Read(m0, t + 1), Read(m0, t + 2),
              Pair(m0, t + 4), m0.y, m0.u, Read(m0, t + 3))
      /\ n4.cc = Setcc(Read(m0, t)) /\ n4.err = m0.err /\ SameMemory(n4, m0)
  <2> HIDE DEF n3
  <2>1. n3.s = t + 4 /\ n3.s < 60000
    BY <1>1, <1>7 DEF Regs
  <2>2. 256 * Read(n3, n3.s) + Read(n3, n3.s + 1) = Pair(m0, t + 4)
    BY <1>7, <2>1 DEF SameMemory, Pair
  <2> DEFINE v == 256 * Read(n3, n3.s) + Read(n3, n3.s + 1)
             k == n3
  <2>3. /\ n4 \in Machines
        /\ Regs(n4, k.pc, k.s + 2, k.a, k.b,
                v, k.y, k.u, k.dp)
        /\ n4.cc = k.cc /\ n4.err = k.err /\ SameMemory(n4, k)
    <3> HIDE DEF n4
    <3> QED  BY <1>7, <2>1, PullsWord DEF n4
  <2>4. v = Pair(m0, t + 4) /\ k.s + 2 = t + 6
    BY <1>1, <2>1, <2>2
  <2> HIDE DEF v, k, n4, t
  <2> QED  BY <1>7, <2>3, <2>4 DEF Regs, SameMemory, k
<1>9. /\ n5 \in Machines
      /\ Regs(n5, m0.pc, t + 8, Read(m0, t + 1), Read(m0, t + 2),
              Pair(m0, t + 4), Pair(m0, t + 6), m0.u, Read(m0, t + 3))
      /\ n5.cc = Setcc(Read(m0, t)) /\ n5.err = m0.err /\ SameMemory(n5, m0)
  <2> HIDE DEF n4
  <2>1. n4.s = t + 6 /\ n4.s < 60000
    BY <1>1, <1>8 DEF Regs
  <2>2. 256 * Read(n4, n4.s) + Read(n4, n4.s + 1) = Pair(m0, t + 6)
    BY <1>8, <2>1 DEF SameMemory, Pair
  <2> DEFINE v == 256 * Read(n4, n4.s) + Read(n4, n4.s + 1)
             k == n4
  <2>3. /\ n5 \in Machines
        /\ Regs(n5, k.pc, k.s + 2, k.a, k.b,
                k.x, v, k.u, k.dp)
        /\ n5.cc = k.cc /\ n5.err = k.err /\ SameMemory(n5, k)
    <3> HIDE DEF n5
    <3> QED  BY <1>8, <2>1, PullsWord DEF n5
  <2>4. v = Pair(m0, t + 6) /\ k.s + 2 = t + 8
    BY <1>1, <2>1, <2>2
  <2> HIDE DEF v, k, n5, t
  <2> QED  BY <1>8, <2>3, <2>4 DEF Regs, SameMemory, k
<1>10. /\ n6 \in Machines
      /\ Regs(n6, m0.pc, t + 10, Read(m0, t + 1), Read(m0, t + 2),
              Pair(m0, t + 4), Pair(m0, t + 6), Pair(m0, t + 8), Read(m0, t + 3))
      /\ n6.cc = Setcc(Read(m0, t)) /\ n6.err = m0.err /\ SameMemory(n6, m0)
  <2> HIDE DEF n5
  <2>1. n5.s = t + 8 /\ n5.s < 60000
    BY <1>1, <1>9 DEF Regs
  <2>2. 256 * Read(n5, n5.s) + Read(n5, n5.s + 1) = Pair(m0, t + 8)
    BY <1>9, <2>1 DEF SameMemory, Pair
  <2> DEFINE v == 256 * Read(n5, n5.s) + Read(n5, n5.s + 1)
             k == n5
  <2>3. /\ n6 \in Machines
        /\ Regs(n6, k.pc, k.s + 2, k.a, k.b,
                k.x, k.y, v, k.dp)
        /\ n6.cc = k.cc /\ n6.err = k.err /\ SameMemory(n6, k)
    <3> HIDE DEF n6
    <3> QED  BY <1>9, <2>1, PullsWord DEF n6
  <2>4. v = Pair(m0, t + 8) /\ k.s + 2 = t + 10
    BY <1>1, <2>1, <2>2
  <2> HIDE DEF v, k, n6, t
  <2> QED  BY <1>9, <2>3, <2>4 DEF Regs, SameMemory, k
<1>11. /\ n7 \in Machines
      /\ Regs(n7, Pair(m0, t + 10), t + 12, Read(m0, t + 1), Read(m0, t + 2),
              Pair(m0, t + 4), Pair(m0, t + 6), Pair(m0, t + 8), Read(m0, t + 3))
      /\ n7.cc = Setcc(Read(m0, t)) /\ n7.err = m0.err /\ SameMemory(n7, m0)
  <2> HIDE DEF n6
  <2>1. n6.s = t + 10 /\ n6.s < 60000
    BY <1>1, <1>10 DEF Regs
  <2>2. 256 * Read(n6, n6.s) + Read(n6, n6.s + 1) = Pair(m0, t + 10)
    BY <1>10, <2>1 DEF SameMemory, Pair
  <2> DEFINE v == 256 * Read(n6, n6.s) + Read(n6, n6.s + 1)
             k == n6
  <2>3. /\ n7 \in Machines
        /\ Regs(n7, v, k.s + 2, k.a, k.b,
                k.x, k.y, k.u, k.dp)
        /\ n7.cc = k.cc /\ n7.err = k.err /\ SameMemory(n7, k)
    <3> HIDE DEF n7
    <3> QED  BY <1>10, <2>1, PullsWord DEF n7
  <2>4. v = Pair(m0, t + 10) /\ k.s + 2 = t + 12
    BY <1>1, <2>1, <2>2
  <2> HIDE DEF v, k, n7, t
  <2> QED  BY <1>10, <2>3, <2>4 DEF Regs, SameMemory, k
<1> HIDE DEF n7, t
<1> QED  BY <1>4, <1>11 DEF t

LEMMA EveryPushed ==
  ASSUME NEW cc \in CC, cc.e = 1
  PROVE  Btst(Getcc(cc), 128) = 1
<1> DEFINE l == cc.c + 2 * cc.v + 4 * cc.z + 8 * cc.n + 16 * cc.i + 32 * (cc.h % 2) + 64 * Flag(cc.f = 1 \/ cc.h = 2)
<1>1. /\ cc.c \in 0 .. 1 /\ cc.v \in 0 .. 1 /\ cc.z \in 0 .. 1 /\ cc.n \in 0 .. 1
      /\ cc.i \in 0 .. 1 /\ cc.h \in 0 .. 2
  BY DEF CC
<1>2. Flag(cc.f = 1 \/ cc.h = 2) \in 0 .. 1 /\ cc.h % 2 \in 0 .. 1
  BY <1>1, FlagBit
<1>3. l \in Int /\ 0 <= l /\ l < 128
  BY <1>1, <1>2
<1>4. Getcc(cc) = l + 128
  BY DEF Getcc
<1> HIDE DEF l
<1>5. (l + 128) \div 128 = 1
  BY <1>3
<1> QED  BY <1>4, <1>5 DEF Btst

LEMMA EntireFlag ==
  ASSUME NEW cc \in CC, NEW c, c = [cc EXCEPT !.e = 1]
  PROVE  c \in CC /\ c.e = 1
<1>1. c \in CC
  BY OneFlag, Bits
<1> QED  BY <1>1 DEF CC

LEMMA MaskFlags ==
  ASSUME NEW cc \in CC, NEW c, c = [[cc EXCEPT !.i = 1] EXCEPT !.f = 1]
  PROVE  c \in CC
<1> DEFINE c1 == [cc EXCEPT !.i = 1]
<1>1. c1 \in CC
  BY OneFlag, Bits
<1>2. c = [c1 EXCEPT !.f = 1]
  OBVIOUS
<1> HIDE DEF c1
<1> QED  BY <1>1, <1>2, OneFlag, Bits

\* SWI with the flags named.
SwiBy(k, c1, c2) ==
  c1.e = 1 /\ Swi(k) = Fail([Psh([k EXCEPT !.cc = c1], "s", "u", 255) EXCEPT !.cc = c2], "swi")

LEMMA SwiSplit ==
  ASSUME NEW k \in Machines
  PROVE  \E c1 \in CC, c2 \in CC : SwiBy(k, c1, c2)
<1> DEFINE c1 == [k.cc EXCEPT !.e = 1]
           k1 == [k EXCEPT !.cc = c1]
           p == Psh(k1, "s", "u", 255)
           c2 == [[p.cc EXCEPT !.i = 1] EXCEPT !.f = 1]
<1>1. k.cc \in CC
  BY CcTyped
<1>2. c1 \in CC /\ c1.e = 1
  <2>1. c1 = [k.cc EXCEPT !.e = 1]
    OBVIOUS
  <2> HIDE DEF c1
  <2> QED  BY <1>1, <2>1, EntireFlag
<1>3. PushAll(k) = p
  <2>1. [k EXCEPT !.cc.e = 1] = k1
    OBVIOUS
  <2> HIDE DEF k1
  <2> QED  BY <2>1 DEF PushAll
<1>4. k1 \in Machines
  <2> HIDE DEF c1
  <2> QED  BY <1>2, CcSet
<1>5. p \in Machines
  <2> HIDE DEF k1
  <2> QED  BY <1>4, PshTyped DEF Stacks
<1> HIDE DEF p, c1, k1
<1>6. p.cc \in CC
  BY <1>5, CcTyped
<1>7. c2 \in CC
  <2>1. c2 = [[p.cc EXCEPT !.i = 1] EXCEPT !.f = 1]
    OBVIOUS
  <2> HIDE DEF c2
  <2> QED  BY <1>6, <2>1, MaskFlags
<1>8. Swi(k) = Fail([p EXCEPT !.cc = c2], "swi")
  <2>1. [p EXCEPT !.cc.i = 1, !.cc.f = 1] = [p EXCEPT !.cc = c2]
    BY <1>5 DEF Machines
  <2> HIDE DEF c2
  <2> QED  BY <1>3, <2>1 DEF Swi
<1>9. SwiBy(k, c1, c2)
  <2> HIDE DEF c2
  <2> QED  BY <1>2, <1>8 DEF SwiBy, p, k1
<1> HIDE DEF c2
<1> QED  BY <1>2, <1>7, <1>9

LEMMA SwiPushes ==
  ASSUME NEW k \in Machines, Room(k.s), k.s < 40000
  PROVE  LET n == Swi(k) IN
         /\ n \in Machines /\ n.err = "swi"
         /\ Regs(n, k.pc, k.s - 12, k.a, k.b, k.x, k.y, k.u, k.dp)
         /\ \A adr : adr < k.s - 12 \/ adr >= k.s => Read(n, adr) = Read(k, adr)
         /\ Rti(n) \in Machines /\ Rti(n).err = "swi" /\ SameMemory(Rti(n), n)
         /\ Regs(Rti(n), k.pc, k.s, k.a, k.b, k.x, k.y, k.u, k.dp)
<1>0. k.s \in Int /\ k.s > 100 /\ k.s < 60000
  BY Fields, WordInt DEF Room
<1>1. PICK c1 \in CC, c2 \in CC : SwiBy(k, c1, c2)
  BY SwiSplit
<1> DEFINE k1 == [k EXCEPT !.cc = c1]
           p == Psh(k1, "s", "u", 255)
           q == [p EXCEPT !.cc = c2]
           n == Swi(k)
<1>2. /\ k1 \in Machines /\ Regs(k1, k.pc, k.s, k.a, k.b, k.x, k.y, k.u, k.dp)
      /\ k1.cc = c1 /\ k1.err = k.err /\ k1.mem = k.mem
  <2>1. k1 \in Machines
    BY CcSet
  <2> QED  BY <2>1 DEF Regs, Machines
<1>3. c1.e = 1 /\ n = Fail(q, "swi")
  BY <1>1 DEF SwiBy
<1> HIDE DEF k1
<1>4. /\ p \in Machines /\ Regs(p, k1.pc, k1.s - 12, k1.a, k1.b, k1.x, k1.y, k1.u, k1.dp)
      /\ p.cc = k1.cc /\ p.err = k1.err /\ FrameOf(p, k1)
      /\ \A adr : adr < k1.s - 12 \/ adr >= k1.s => Read(p, adr) = Read(k1, adr)
  <2>1. Room(k1.s)
    BY <1>2 DEF Regs
  <2> HIDE DEF p
  <2> QED  BY <1>2, <2>1, PushesAll DEF p
<1> HIDE DEF p
<1>7. n = [q EXCEPT !.err = "swi"]
  BY <1>3 DEF Fail
<1>8. /\ q \in Machines /\ Regs(q, p.pc, p.s, p.a, p.b, p.x, p.y, p.u, p.dp) /\ q.mem = p.mem
  <2>1. q \in Machines
    BY <1>4, CcSet
  <2> QED  BY <1>4, <2>1 DEF Regs, Machines
<1> HIDE DEF q, n
<1>9. n \in Machines
  BY InterruptsTyped DEF n
<1>10. n.err = "swi" /\ n.mem = p.mem /\ Regs(n, p.pc, p.s, p.a, p.b, p.x, p.y, p.u, p.dp)
  BY <1>7, <1>8 DEF Regs, Machines
<1>11. SameMemory(n, p)
  BY <1>10 DEF SameMemory, Read
<1>12. Regs(n, k.pc, k.s - 12, k.a, k.b, k.x, k.y, k.u, k.dp)
  BY <1>2, <1>4, <1>10 DEF Regs
<1>13. \A adr : adr < k.s - 12 \/ adr >= k.s => Read(n, adr) = Read(k, adr)
  <2>1. SameMemory(k1, k) /\ k1.s = k.s
    BY <1>2 DEF SameMemory, Read, Regs
  <2> QED  BY <1>4, <1>11, <2>1 DEF SameMemory
<1> DEFINE t == n.s
<1>14. /\ Read(n, t) = Getcc(k1.cc) /\ Read(n, t + 1) = k.a /\ Read(n, t + 2) = k.b /\ Read(n, t + 3) = k.dp
       /\ Pair(n, t + 4) = k.x /\ Pair(n, t + 6) = k.y /\ Pair(n, t + 8) = k.u /\ Pair(n, t + 10) = k.pc
  <2>1. t = p.s
    BY <1>10 DEF Regs
  <2>2. \A adr : Read(n, adr) = Read(p, adr) /\ Pair(n, adr) = Pair(p, adr)
    BY <1>11 DEF SameMemory, Pair
  <2>3. k1.a = k.a /\ k1.b = k.b /\ k1.dp = k.dp /\ k1.x = k.x /\ k1.y = k.y /\ k1.u = k.u /\ k1.pc = k.pc
    BY <1>2 DEF Regs
  <2> HIDE DEF t
  <2> QED  BY <1>4, <2>1, <2>2, <2>3 DEF FrameOf
<1>15. t = k.s - 12 /\ t < 50000 /\ t + 12 = k.s
  BY <1>0, <1>12 DEF Regs
<1>16. Btst(Read(n, n.s), 128) = 1
  BY <1>2, <1>3, <1>14, EveryPushed
<1>17. /\ Rti(n) \in Machines /\ Rti(n).err = n.err /\ SameMemory(Rti(n), n)
       /\ Regs(Rti(n), Pair(n, t + 10), t + 12, Read(n, t + 1), Read(n, t + 2),
               Pair(n, t + 4), Pair(n, t + 6), Pair(n, t + 8), Read(n, t + 3))
  BY <1>9, <1>15, <1>16, RtiPulls
<1>18. Regs(Rti(n), k.pc, k.s, k.a, k.b, k.x, k.y, k.u, k.dp)
  BY <1>14, <1>15, <1>17
<1> QED  BY <1>9, <1>10, <1>12, <1>13, <1>17, <1>18 DEF n

LEMMA DoesSwi ==
  ASSUME NEW m0 \in Machines, Low(m0.pc), Room(m0.s), m0.s < 40000, Read(m0, m0.pc) = 63
  PROVE  LET n == Execute(m0) IN
         /\ n \in Machines /\ n.err = "swi"
         /\ Regs(n, m0.pc + 1, m0.s - 12, m0.a, m0.b, m0.x, m0.y, m0.u, m0.dp)
         /\ \A adr : adr < m0.s - 12 \/ adr >= m0.s => Read(n, adr) = Read(m0, adr)
         /\ Rti(n) \in Machines /\ SameMemory(Rti(n), n)
         /\ Regs(Rti(n), m0.pc + 1, m0.s, m0.a, m0.b, m0.x, m0.y, m0.u, m0.dp)
<1> DEFINE k == Started(m0)
           i == Ins("swi", "none", "none")
           n == Execute(m0)
<1>1. n = Perform(k, i)
  BY ExecuteStarts, Opcodes
<1>2. /\ k \in Machines /\ Regs(k, m0.pc + 1, m0.s, m0.a, m0.b, m0.x, m0.y, m0.u, m0.dp)
      /\ SameMemory(k, m0)
  BY Fetched2
<1> HIDE DEF k, n
<1>3. n = Swi(k)
  <2>1. i.op = "swi"
    BY DEF Ins
  <2> HIDE DEF i
  <2> QED  BY <1>1, <2>1, ConditionNames DEF Perform, BranchOps
<1>4. Room(k.s) /\ k.s < 40000
  BY <1>2 DEF Regs
<1>5. /\ n \in Machines /\ n.err = "swi"
      /\ Regs(n, k.pc, k.s - 12, k.a, k.b, k.x, k.y, k.u, k.dp)
      /\ \A adr : adr < k.s - 12 \/ adr >= k.s => Read(n, adr) = Read(k, adr)
      /\ Rti(n) \in Machines /\ SameMemory(Rti(n), n)
      /\ Regs(Rti(n), k.pc, k.s, k.a, k.b, k.x, k.y, k.u, k.dp)
  BY <1>2, <1>3, <1>4, SwiPushes
<1> QED  BY <1>2, <1>5 DEF Regs, SameMemory, n
-----------------------------------------------------------------------------
(* The frames of the drivers.                                              *)
(*                                                                         *)
(* A key that KBHIT or GETCH notices makes execute() take the program      *)
(* counter back to prepc, where the inner loop last looked, and this is    *)
(* harmless as long as no stack instruction lies between.  A trace point   *)
(* is passed without a look, so two of them can bring one in between:      *)
(* hence the condition on where trace points stand.                        *)

Traceable == {adr \in BreakPlaces : 2 \in BreakKinds}

TracesApart ==
  /\ Base + 15 \notin Traceable
  /\ \A q \in {Base + 2, Base + 12, Base + 29} : q \notin Traceable \/ q + 2 \notin Traceable
  /\ \A q \in {Base + 5, Base + 32} : q \notin Traceable \/ q + 2 \notin Traceable

DiskOps == {"read", "write", "verify", "drive", "chkrdy"}
Starts  == [read |-> 48, write |-> 60, verify |-> 72, drive |-> 84, chkrdy |-> 96]
Number  == [read |-> 0, write |-> 1, verify |-> 2, drive |-> 4, chkrdy |-> 5]

\* The routine that runs, and how far into the drivers it has got.
Running   == IF stage = "select" THEN "drive" ELSE call.op
Offset(n) == n.pc - Base

\* What FMS knows the drivers to write: its JSR, the bytes below its stack,
\* and the sector buffer when a sector is read.
Scratch == {Home + 1, Home + 2} \cup (Stack - 20 .. Stack - 1)
Sector  == Buffer .. Buffer + SectorBytes - 1

KeepsRest(n, k) == \A adr \in Word : adr \notin Scratch => Read(n, adr) = Read(k, adr)
KeepsSector(n, k, R) == \A adr \in Word : adr \notin Scratch /\ (R = "read" => adr \notin Sector) => Read(n, adr) = Read(k, adr)

Code(n) ==
  /\ \A i \in 0 .. 109 : Read(n, Base + i) = Driver[i + 1]
  /\ Read(n, Home) = 189 /\ Read(n, Back) = 32 /\ Read(n, Back + 1) = 251

AtPlace(R, o) ==
  \/ R = "inch" /\ o \in {0, 2, 4, 5, 7, 9}
  \/ R = "inche" /\ o \in {10, 12, 14, 15, 17, 19, 20, 22, 24, 26}
  \/ R = "inchek" /\ o \in {27, 29, 31, 32, 34, 36, 37}
  \/ R = "outch" /\ o \in {38, 40, 42, 44, 45, 47}
  \/ R = "bad" /\ o \in {108, 109}

\* The stack and the registers, k the machine when the driver was entered.
TerminalFrame(n, o, k) ==
  \/ o \in {0, 9, 10, 26, 27, 36, 37} /\ n.s = Stack - 2 /\ n.b = k.b
  \/ o \in {38, 47, 108, 109} /\ n.s = Stack - 2 /\ n.b = k.b /\ n.a = k.a
  \/ /\ o \in {2, 4, 5, 7, 12, 14, 15, 22, 24, 29, 31, 32, 34}
     /\ n.s = Stack - 3 /\ Read(n, Stack - 3) = k.b
  \/ o \in {17, 19, 20} /\ n.s = Stack - 4 /\ Read(n, Stack - 3) = k.b
  \/ /\ o \in {40, 42, 44, 45}
     /\ n.s = Stack - 4 /\ Read(n, Stack - 3) = k.b /\ Read(n, Stack - 4) = k.a

InTerminal(n, o, k) ==
  /\ n.x = k.x /\ n.y = k.y /\ KeepsRest(n, k) /\ TerminalFrame(n, o, k)
  /\ o \in {4, 5, 14, 15, 31, 32} => n.a # 6
  /\ o \in {19, 44} => n.a = 4

DiskFrame(n, R, i, k) ==
  \/ i = 0 /\ n.s = Stack - 2 /\ n.y = k.y /\ D(n) = D(k)
  \/ i = 2 /\ n.s = Stack - 4 /\ Pair(n, Stack - 4) = k.y /\ D(n) = D(k)
  \/ i = 4 /\ n.s = Stack - 4 /\ Pair(n, Stack - 4) = k.y /\ n.y = D(k)
  \/ i = 6 /\ n.s = Stack - 4 /\ Pair(n, Stack - 4) = k.y /\ n.y = D(k) /\ n.b = Number[R]
  \/ i = 8 /\ n.s = Stack - 4 /\ Pair(n, Stack - 4) = k.y /\ n.y = D(k) /\ n.b = Number[R] /\ n.a = 6

InDisk(n, R, i, k) ==
  \/ i \in {0, 2, 4, 6, 8} /\ n.x = k.x /\ KeepsRest(n, k) /\ DiskFrame(n, R, i, k)
  \/ i = 9 /\ n.s = Stack - 4 /\ Pair(n, Stack - 4) = k.y /\ KeepsSector(n, k, R)
  \/ i = 11 /\ n.s = Stack - 2 /\ n.y = k.y /\ KeepsSector(n, k, R)

\* n is in the routine R that was entered with k.
Within(n, R, k) ==
  /\ n.u = k.u /\ n.dp = k.dp /\ Pair(n, Stack - 2) = Back
  /\ \/ AtPlace(R, Offset(n)) /\ InTerminal(n, Offset(n), k)
     \/ R \in DiskOps /\ InDisk(n, R, Offset(n) - Starts[R], k)

\* n is back from the routine.
Returned(n, R, k) ==
  /\ n.pc = Back /\ n.s = Stack
  /\ n.u = k.u /\ n.dp = k.dp /\ n.y = k.y /\ KeepsSector(n, k, R)
  /\ R \notin DiskOps => n.x = k.x /\ n.b = k.b
  /\ R \in {"outch", "bad"} => n.a = k.a

Idle(n) == n.pc = Home /\ n.s = Stack /\ stage \in {"none", "select"}

Sound(n) ==
  /\ Code(n)
  /\ Idle(n) \/ (stage # "none" /\ (Returned(n, Running, saved) \/ Within(n, Running, saved)))

Caller ==
  /\ stage \in {"none", "select", "transfer"}
  /\ call # None => stage # "none"
  /\ stage # "none" => call \in Services /\ saved.s = Stack /\ Code(saved)
  /\ stage = "select" => IsDisk(call)
  /\ stage = "transfer" /\ IsDisk(call) => saved.x = Buffer

\* The places behind the interrupts.
Swis == {5, 15, 20, 32, 45}

\* The host is asked, and RTI will find n.
Asking(n, R, k) ==
  /\ n.u = k.u /\ n.dp = k.dp /\ Pair(n, Stack - 2) = Back
  /\ \/ /\ AtPlace(R, Offset(n)) /\ Offset(n) \in Swis /\ InTerminal(n, Offset(n), k) /\ n.a # 6
        /\ Offset(n) \in {20, 45} => n.a = 4
     \/ /\ R \in DiskOps /\ Offset(n) - Starts[R] = 9
        /\ n.x = k.x /\ KeepsRest(n, k) /\ DiskFrame(n, R, 8, k)

Host ==
  /\ m.pc = Rti(m).pc /\ m.a = Rti(m).a
  /\ Code(Rti(m)) /\ stage # "none" /\ Asking(Rti(m), Running, saved)
  /\ bkeyin = 0

Frame == IF phase = "swi" THEN Host ELSE Sound(m)

\* Where a key that was noticed may take the program counter back to.
Before(o) == prepc - Base \in {o - 1, o - 3}

Notice ==
  LET o == Offset(m) IN
  /\ bkeyin # 0 =>
       \/ phase = "tail" /\ o \in {5, 15, 32} /\ m.a # 6 /\ m.b # 6 /\ Before(o)
       \/ /\ phase \in {"loop", "run", "prompt"} /\ o \in {5, 32} /\ m.pc \in Traceable
          /\ m.a # 6 /\ m.b # 6 /\ (phase # "prompt" => Before(o) \/ prepc = m.pc)
       \/ /\ phase = "tail" /\ o \in {7, 34} /\ m.pc \notin Traceable
          /\ m.a # 6 /\ (Before(o - 2) \/ prepc = m.pc - 2)
  /\ phase = "swi" /\ o \in {5, 15, 32} => Before(o)
  /\ phase \in {"run", "loop"} /\ o \in {4, 14, 31} => prepc = m.pc \/ prepc = m.pc - 2
  /\ phase = "tail" /\ bkeyin = 0 /\ o \in {4, 14, 31} => prepc = m.pc - 2 \/ m.pc - 2 \in Traceable
  /\ phase \in {"run", "loop"} /\ o \in {2, 12, 29} => prepc = m.pc \/ m.pc \in Traceable
  /\ phase = "tail" /\ bkeyin = 0 /\ o \in {2, 4, 12, 14, 29, 31} => active \/ Brk(m.pc) # 0
  /\ \A adr : Brk(adr) % 4 = 2 => adr \in Traceable

-----------------------------------------------------------------------------
(* What stands where in the memory.                                        *)

Spans(d, s, t, p, q) ==
  /\ d \in Seq(Byte) /\ Len(d) = p + q
  /\ \A i \in 1 .. p : d[i] = s[i]
  /\ \A i \in 1 .. q : d[p + i] = t[i]

LEMMA Joined ==
  \A s \in Seq(Byte), t \in Seq(Byte) : Spans(s \o t, s, t, Len(s), Len(t))
<1> SUFFICES ASSUME NEW s \in Seq(Byte), NEW t \in Seq(Byte) PROVE Spans(s \o t, s, t, Len(s), Len(t))
  OBVIOUS
<1> DEFINE p == Len(s)
           q == Len(t)
           d == s \o t
<1>1. p \in Nat /\ q \in Nat
  BY LenProperties
<1>2. d \in Seq(Byte) /\ Len(d) = p + q
  BY ConcatProperties
<1>3. \A i \in 1 .. p : d[i] = s[i]
  BY <1>1, ConcatProperties
<1>4. \A i \in 1 .. q : d[p + i] = t[i]
  <2> SUFFICES ASSUME NEW i \in 1 .. q PROVE d[p + i] = t[i]
    OBVIOUS
  <2>1. p + i \in 1 .. p + q /\ ~(p + i <= p) /\ p + i - p = i
    <3> HIDE DEF p, q
    <3> QED  BY <1>1
  <2>2. d[p + i] = IF p + i <= p THEN s[p + i] ELSE t[p + i - p]
    BY <2>1, ConcatProperties
  <2> HIDE DEF p, q, d
  <2> QED  BY <2>1, <2>2
<1> QED  BY <1>2, <1>3, <1>4, Zenon DEF Spans, p, q, d

\* The routines in the order in which they are assembled.
LEMMA Assembled ==
  /\ \A i \in 1 .. 10 : Driver[i] = INCH[i]
  /\ \A i \in 1 .. 17 : Driver[10 + i] = INCHE[i]
  /\ \A i \in 1 .. 11 : Driver[27 + i] = INCHEK[i]
  /\ \A i \in 1 .. 10 : Driver[38 + i] = OUTCH[i]
  /\ \A i \in 1 .. 12 : Driver[48 + i] = S(0)[i]
  /\ \A i \in 1 .. 12 : Driver[60 + i] = S(1)[i]
  /\ \A i \in 1 .. 12 : Driver[72 + i] = S(2)[i]
  /\ \A i \in 1 .. 12 : Driver[84 + i] = S(4)[i]
  /\ \A i \in 1 .. 12 : Driver[96 + i] = S(5)[i]
  /\ \A i \in 1 .. 2 : Driver[108 + i] = BAD[i]
<1> DEFINE d1 == INCH \o INCHE
           d2 == d1 \o INCHEK
           d3 == d2 \o OUTCH
           d4 == d3 \o S(0)
           d5 == d4 \o S(1)
           d6 == d5 \o S(2)
           d7 == d6 \o S(4)
           d8 == d7 \o S(5)
           d9 == d8 \o BAD
<1>0. /\ S(0) \in Seq(Byte) /\ Len(S(0)) = 12 /\ S(1) \in Seq(Byte) /\ Len(S(1)) = 12
      /\ S(2) \in Seq(Byte) /\ Len(S(2)) = 12 /\ S(4) \in Seq(Byte) /\ Len(S(4)) = 12
      /\ S(5) \in Seq(Byte) /\ Len(S(5)) = 12
  <2>1. 0 \in Byte /\ 1 \in Byte /\ 2 \in Byte /\ 4 \in Byte /\ 5 \in Byte
    BY DEF Byte
  <2> QED  BY <2>1, Routines, Zenon
<1>a. /\ INCH \in Seq(Byte) /\ Len(INCH) = 10 /\ INCHE \in Seq(Byte) /\ Len(INCHE) = 17
      /\ INCHEK \in Seq(Byte) /\ Len(INCHEK) = 11 /\ OUTCH \in Seq(Byte) /\ Len(OUTCH) = 10
      /\ BAD \in Seq(Byte) /\ Len(BAD) = 2
  BY Routines, Zenon
<1>1. d1 \in Seq(Byte) /\ Len(d1) = 27 /\ Spans(d1, INCH, INCHE, 10, 17)
  <2>2. INCH \in Seq(Byte) /\ Len(INCH) = 10
    BY <1>a
  <2>3. INCHE \in Seq(Byte) /\ Len(INCHE) = 17
    BY <1>0, <1>a, Zenon
  <2>4. Spans(d1, INCH, INCHE, 10, 17)
    BY <2>2, <2>3, Joined, Zenon
  <2> HIDE DEF d1
  <2>5. d1 \in Seq(Byte) /\ Len(d1) = 10 + 17
    BY <2>4, Zenon DEF Spans
  <2> QED  BY <2>4, <2>5
<1>2. d2 \in Seq(Byte) /\ Len(d2) = 38 /\ Spans(d2, d1, INCHEK, 27, 11)
  <2>2. d1 \in Seq(Byte) /\ Len(d1) = 27
    BY <1>1, Zenon
  <2>3. INCHEK \in Seq(Byte) /\ Len(INCHEK) = 11
    BY <1>0, <1>a, Zenon
  <2> HIDE DEF d1
  <2>4. Spans(d2, d1, INCHEK, 27, 11)
    BY <2>2, <2>3, Joined, Zenon
  <2> HIDE DEF d2
  <2>5. d2 \in Seq(Byte) /\ Len(d2) = 27 + 11
    BY <2>4, Zenon DEF Spans
  <2> QED  BY <2>4, <2>5
<1>3. d3 \in Seq(Byte) /\ Len(d3) = 48 /\ Spans(d3, d2, OUTCH, 38, 10)
  <2>2. d2 \in Seq(Byte) /\ Len(d2) = 38
    BY <1>2, Zenon
  <2>3. OUTCH \in Seq(Byte) /\ Len(OUTCH) = 10
    BY <1>0, <1>a, Zenon
  <2> HIDE DEF d2
  <2>4. Spans(d3, d2, OUTCH, 38, 10)
    BY <2>2, <2>3, Joined, Zenon
  <2> HIDE DEF d3
  <2>5. d3 \in Seq(Byte) /\ Len(d3) = 38 + 10
    BY <2>4, Zenon DEF Spans
  <2> QED  BY <2>4, <2>5
<1>4. d4 \in Seq(Byte) /\ Len(d4) = 60 /\ Spans(d4, d3, S(0), 48, 12)
  <2>2. d3 \in Seq(Byte) /\ Len(d3) = 48
    BY <1>3, Zenon
  <2>3. S(0) \in Seq(Byte) /\ Len(S(0)) = 12
    BY <1>0, <1>a, Zenon
  <2> HIDE DEF d3
  <2>4. Spans(d4, d3, S(0), 48, 12)
    BY <2>2, <2>3, Joined, Zenon
  <2> HIDE DEF d4
  <2>5. d4 \in Seq(Byte) /\ Len(d4) = 48 + 12
    BY <2>4, Zenon DEF Spans
  <2> QED  BY <2>4, <2>5
<1>5. d5 \in Seq(Byte) /\ Len(d5) = 72 /\ Spans(d5, d4, S(1), 60, 12)
  <2>2. d4 \in Seq(Byte) /\ Len(d4) = 60
    BY <1>4, Zenon
  <2>3. S(1) \in Seq(Byte) /\ Len(S(1)) = 12
    BY <1>0, <1>a, Zenon
  <2> HIDE DEF d4
  <2>4. Spans(d5, d4, S(1), 60, 12)
    BY <2>2, <2>3, Joined, Zenon
  <2> HIDE DEF d5
  <2>5. d5 \in Seq(Byte) /\ Len(d5) = 60 + 12
    BY <2>4, Zenon DEF Spans
  <2> QED  BY <2>4, <2>5
<1>6. d6 \in Seq(Byte) /\ Len(d6) = 84 /\ Spans(d6, d5, S(2), 72, 12)
  <2>2. d5 \in Seq(Byte) /\ Len(d5) = 72
    BY <1>5, Zenon
  <2>3. S(2) \in Seq(Byte) /\ Len(S(2)) = 12
    BY <1>0, <1>a, Zenon
  <2> HIDE DEF d5
  <2>4. Spans(d6, d5, S(2), 72, 12)
    BY <2>2, <2>3, Joined, Zenon
  <2> HIDE DEF d6
  <2>5. d6 \in Seq(Byte) /\ Len(d6) = 72 + 12
    BY <2>4, Zenon DEF Spans
  <2> QED  BY <2>4, <2>5
<1>7. d7 \in Seq(Byte) /\ Len(d7) = 96 /\ Spans(d7, d6, S(4), 84, 12)
  <2>2. d6 \in Seq(Byte) /\ Len(d6) = 84
    BY <1>6, Zenon
  <2>3. S(4) \in Seq(Byte) /\ Len(S(4)) = 12
    BY <1>0, <1>a, Zenon
  <2> HIDE DEF d6
  <2>4. Spans(d7, d6, S(4), 84, 12)
    BY <2>2, <2>3, Joined, ZenonT(60)
  <2> HIDE DEF d7
  <2>5. d7 \in Seq(Byte) /\ Len(d7) = 84 + 12
    BY <2>4, Zenon DEF Spans
  <2> QED  BY <2>4, <2>5
<1>8. d8 \in Seq(Byte) /\ Len(d8) = 108 /\ Spans(d8, d7, S(5), 96, 12)
  <2>2. d7 \in Seq(Byte) /\ Len(d7) = 96
    BY <1>7, Zenon
  <2>3. S(5) \in Seq(Byte) /\ Len(S(5)) = 12
    BY <1>0, <1>a, Zenon
  <2> HIDE DEF d7
  <2>4. Spans(d8, d7, S(5), 96, 12)
    BY <2>2, <2>3, Joined, ZenonT(60)
  <2> HIDE DEF d8
  <2>5. d8 \in Seq(Byte) /\ Len(d8) = 96 + 12
    BY <2>4, Zenon DEF Spans
  <2> QED  BY <2>4, <2>5
<1>9. d9 \in Seq(Byte) /\ Len(d9) = 110 /\ Spans(d9, d8, BAD, 108, 2)
  <2>2. d8 \in Seq(Byte) /\ Len(d8) = 108
    BY <1>8, Zenon
  <2>3. BAD \in Seq(Byte) /\ Len(BAD) = 2
    BY <1>0, <1>a, Zenon
  <2> HIDE DEF d8
  <2>4. Spans(d9, d8, BAD, 108, 2)
    BY <2>2, <2>3, Joined, ZenonT(60)
  <2> HIDE DEF d9
  <2>5. d9 \in Seq(Byte) /\ Len(d9) = 108 + 2
    BY <2>4, Zenon DEF Spans
  <2> QED  BY <2>4, <2>5
<1> HIDE DEF d1, d2, d3, d4, d5, d6, d7, d8, d9
<1>10. Driver = d9
  BY DEF Driver, d1, d2, d3, d4, d5, d6, d7, d8, d9
<1>11. \A i \in 1 .. 108 : Driver[i] = d8[i]
  <2>1. \A i \in 1 .. 108 : d9[i] = d8[i]
    BY <1>9, Zenon DEF Spans
  <2> QED  BY <2>1, <1>10
<1>12. \A i \in 1 .. 96 : Driver[i] = d7[i]
  <2>1. \A i \in 1 .. 96 : d8[i] = d7[i]
    BY <1>8, Zenon DEF Spans
  <2> QED  BY <2>1, <1>11
<1>13. \A i \in 1 .. 84 : Driver[i] = d6[i]
  <2>1. \A i \in 1 .. 84 : d7[i] = d6[i]
    BY <1>7, Zenon DEF Spans
  <2> QED  BY <2>1, <1>12
<1>14. \A i \in 1 .. 72 : Driver[i] = d5[i]
  <2>1. \A i \in 1 .. 72 : d6[i] = d5[i]
    BY <1>6, Zenon DEF Spans
  <2> QED  BY <2>1, <1>13
<1>15. \A i \in 1 .. 60 : Driver[i] = d4[i]
  <2>1. \A i \in 1 .. 60 : d5[i] = d4[i]
    BY <1>5, Zenon DEF Spans
  <2> QED  BY <2>1, <1>14
<1>16. \A i \in 1 .. 48 : Driver[i] = d3[i]
  <2>1. \A i \in 1 .. 48 : d4[i] = d3[i]
    BY <1>4, Zenon DEF Spans
  <2> QED  BY <2>1, <1>15
<1>17. \A i \in 1 .. 38 : Driver[i] = d2[i]
  <2>1. \A i \in 1 .. 38 : d3[i] = d2[i]
    BY <1>3, Zenon DEF Spans
  <2> QED  BY <2>1, <1>16
<1>18. \A i \in 1 .. 27 : Driver[i] = d1[i]
  <2>1. \A i \in 1 .. 27 : d2[i] = d1[i]
    BY <1>2, Zenon DEF Spans
  <2> QED  BY <2>1, <1>17
<1>19. \A i \in 1 .. 10 : Driver[i] = INCH[i]
  <2>1. \A i \in 1 .. 10 : d1[i] = INCH[i]
    BY <1>1, Zenon DEF Spans
  <2> QED  BY <2>1, <1>18
<1>20. \A i \in 1 .. 17 : Driver[10 + i] = INCHE[i]
  <2>1. \A i \in 1 .. 17 : d1[10 + i] = INCHE[i]
    BY <1>1, Zenon DEF Spans
  <2> QED  BY <2>1, <1>18
<1>21. \A i \in 1 .. 11 : Driver[27 + i] = INCHEK[i]
  <2>1. \A i \in 1 .. 11 : d2[27 + i] = INCHEK[i]
    BY <1>2, Zenon DEF Spans
  <2> QED  BY <2>1, <1>17
<1>22. \A i \in 1 .. 10 : Driver[38 + i] = OUTCH[i]
  <2>1. \A i \in 1 .. 10 : d3[38 + i] = OUTCH[i]
    BY <1>3, Zenon DEF Spans
  <2> QED  BY <2>1, <1>16
<1>23. \A i \in 1 .. 12 : Driver[48 + i] = S(0)[i]
  <2>1. \A i \in 1 .. 12 : d4[48 + i] = S(0)[i]
    BY <1>4, Zenon DEF Spans
  <2> QED  BY <2>1, <1>15
<1>24. \A i \in 1 .. 12 : Driver[60 + i] = S(1)[i]
  <2>1. \A i \in 1 .. 12 : d5[60 + i] = S(1)[i]
    BY <1>5, Zenon DEF Spans
  <2> QED  BY <2>1, <1>14
<1>25. \A i \in 1 .. 12 : Driver[72 + i] = S(2)[i]
  <2>1. \A i \in 1 .. 12 : d6[72 + i] = S(2)[i]
    BY <1>6, Zenon DEF Spans
  <2> QED  BY <2>1, <1>13
<1>26. \A i \in 1 .. 12 : Driver[84 + i] = S(4)[i]
  <2>1. \A i \in 1 .. 12 : d7[84 + i] = S(4)[i]
    BY <1>7, Zenon DEF Spans
  <2> QED  BY <2>1, <1>12
<1>27. \A i \in 1 .. 12 : Driver[96 + i] = S(5)[i]
  <2>1. \A i \in 1 .. 12 : d8[96 + i] = S(5)[i]
    BY <1>8, Zenon DEF Spans
  <2> QED  BY <2>1, <1>11
<1>28. \A i \in 1 .. 2 : Driver[108 + i] = BAD[i]
  <2>1. \A i \in 1 .. 2 : d9[108 + i] = BAD[i]
    BY <1>9, Zenon DEF Spans
  <2> QED  BY <2>1, <1>10
<1> QED  BY <1>19, <1>20, <1>21, <1>22, <1>23, <1>24, <1>25, <1>26, <1>27, <1>28, Zenon

\* The instructions of the drivers for the terminal.
TerminalText(n) ==
  /\ \A o \in {0, 10, 15, 27} : Read(n, Base + o) = 52 /\ Read(n, Base + o + 1) = 4
  /\ Read(n, Base + 38) = 52 /\ Read(n, Base + 39) = 6
  /\ \A o \in {2, 12, 17, 29, 42} : Read(n, Base + o) = 134
  /\ \A o \in {2, 12} : Read(n, Base + o + 1) = 3
  /\ \A o \in {17, 42} : Read(n, Base + o + 1) = 4
  /\ Read(n, Base + 30) = 5
  /\ \A o \in {4, 14, 19, 31, 44} : Read(n, Base + o) = 63
  /\ \A o \in {5, 22, 32} : Read(n, Base + o) = 31 /\ Read(n, Base + o + 1) = 152
  /\ Read(n, Base + 40) = 31 /\ Read(n, Base + 41) = 137
  /\ \A o \in {7, 20, 24, 34} : Read(n, Base + o) = 53 /\ Read(n, Base + o + 1) = 4
  /\ Read(n, Base + 45) = 53 /\ Read(n, Base + 46) = 6
  /\ Read(n, Base + 36) = 77
  /\ \A o \in {9, 26, 37, 47, 109} : Read(n, Base + o) = 57
  /\ Read(n, Base + 108) = 1

LEMMA TerminalReads == ASSUME NEW n, Code(n) PROVE TerminalText(n)
<1>1. \A i \in 0 .. 109 : Read(n, Base + i) = Driver[i + 1]
  BY DEF Code
<1>2. /\ Driver[1] = 52 /\ Driver[2] = 4 /\ Driver[3] = 134 /\ Driver[4] = 3 /\ Driver[5] = 63
       /\ Driver[6] = 31 /\ Driver[7] = 152 /\ Driver[8] = 53 /\ Driver[9] = 4 /\ Driver[10] = 57
  <2>1. /\ INCH[1] = 52 /\ INCH[2] = 4 /\ INCH[3] = 134 /\ INCH[4] = 3 /\ INCH[5] = 63
        /\ INCH[6] = 31 /\ INCH[7] = 152 /\ INCH[8] = 53 /\ INCH[9] = 4 /\ INCH[10] = 57
    BY DEF INCH
  <2>2. \A i \in 1 .. 10 : Driver[i] = INCH[i]
    BY Assembled
  <2> QED  BY <2>1, <2>2
<1>3. /\ Driver[11] = 52 /\ Driver[12] = 4 /\ Driver[13] = 134 /\ Driver[14] = 3 /\ Driver[15] = 63
       /\ Driver[16] = 52 /\ Driver[17] = 4 /\ Driver[18] = 134 /\ Driver[19] = 4 /\ Driver[20] = 63
       /\ Driver[21] = 53 /\ Driver[22] = 4 /\ Driver[23] = 31 /\ Driver[24] = 152 /\ Driver[25] = 53
       /\ Driver[26] = 4 /\ Driver[27] = 57
  <2>1. /\ INCHE[1] = 52 /\ INCHE[2] = 4 /\ INCHE[3] = 134 /\ INCHE[4] = 3 /\ INCHE[5] = 63
        /\ INCHE[6] = 52 /\ INCHE[7] = 4 /\ INCHE[8] = 134 /\ INCHE[9] = 4 /\ INCHE[10] = 63
        /\ INCHE[11] = 53 /\ INCHE[12] = 4 /\ INCHE[13] = 31 /\ INCHE[14] = 152 /\ INCHE[15] = 53
        /\ INCHE[16] = 4 /\ INCHE[17] = 57
    BY DEF INCHE
  <2>2. \A i \in 1 .. 17 : Driver[10 + i] = INCHE[i]
    BY Assembled
  <2> QED  BY <2>1, <2>2
<1>4. /\ Driver[28] = 52 /\ Driver[29] = 4 /\ Driver[30] = 134 /\ Driver[31] = 5 /\ Driver[32] = 63
       /\ Driver[33] = 31 /\ Driver[34] = 152 /\ Driver[35] = 53 /\ Driver[36] = 4 /\ Driver[37] = 77
       /\ Driver[38] = 57
  <2>1. /\ INCHEK[1] = 52 /\ INCHEK[2] = 4 /\ INCHEK[3] = 134 /\ INCHEK[4] = 5 /\ INCHEK[5] = 63
        /\ INCHEK[6] = 31 /\ INCHEK[7] = 152 /\ INCHEK[8] = 53 /\ INCHEK[9] = 4 /\ INCHEK[10] = 77
        /\ INCHEK[11] = 57
    BY DEF INCHEK
  <2>2. \A i \in 1 .. 11 : Driver[27 + i] = INCHEK[i]
    BY Assembled
  <2> QED  BY <2>1, <2>2
<1>5. /\ Driver[39] = 52 /\ Driver[40] = 6 /\ Driver[41] = 31 /\ Driver[42] = 137 /\ Driver[43] = 134
       /\ Driver[44] = 4 /\ Driver[45] = 63 /\ Driver[46] = 53 /\ Driver[47] = 6 /\ Driver[48] = 57
  <2>1. /\ OUTCH[1] = 52 /\ OUTCH[2] = 6 /\ OUTCH[3] = 31 /\ OUTCH[4] = 137 /\ OUTCH[5] = 134
        /\ OUTCH[6] = 4 /\ OUTCH[7] = 63 /\ OUTCH[8] = 53 /\ OUTCH[9] = 6 /\ OUTCH[10] = 57
    BY DEF OUTCH
  <2>2. \A i \in 1 .. 10 : Driver[38 + i] = OUTCH[i]
    BY Assembled
  <2> QED  BY <2>1, <2>2
<1>6. /\ Driver[109] = 1 /\ Driver[110] = 57
  <2>1. /\ BAD[1] = 1 /\ BAD[2] = 57
    BY DEF BAD
  <2>2. \A i \in 1 .. 2 : Driver[108 + i] = BAD[i]
    BY Assembled
  <2> QED  BY <2>1, <2>2
<1> HIDE DEF TerminalText
<1>7. /\ Read(n, Base + 0) = 52 /\ Read(n, Base + 1) = 4 /\ Read(n, Base + 2) = 134 /\ Read(n, Base + 3) = 3
       /\ Read(n, Base + 4) = 63 /\ Read(n, Base + 5) = 31 /\ Read(n, Base + 6) = 152 /\ Read(n, Base + 7) = 53
       /\ Read(n, Base + 8) = 4 /\ Read(n, Base + 9) = 57
  BY <1>1, <1>2
<1>8. /\ Read(n, Base + 10) = 52 /\ Read(n, Base + 11) = 4 /\ Read(n, Base + 12) = 134 /\ Read(n, Base + 13) = 3
       /\ Read(n, Base + 14) = 63 /\ Read(n, Base + 15) = 52 /\ Read(n, Base + 16) = 4 /\ Read(n, Base + 17) = 134
       /\ Read(n, Base + 18) = 4 /\ Read(n, Base + 19) = 63 /\ Read(n, Base + 20) = 53 /\ Read(n, Base + 21) = 4
       /\ Read(n, Base + 22) = 31 /\ Read(n, Base + 23) = 152 /\ Read(n, Base + 24) = 53 /\ Read(n, Base + 25) = 4
       /\ Read(n, Base + 26) = 57
  BY <1>1, <1>3
<1>9. /\ Read(n, Base + 27) = 52 /\ Read(n, Base + 28) = 4 /\ Read(n, Base + 29) = 134 /\ Read(n, Base + 30) = 5
       /\ Read(n, Base + 31) = 63 /\ Read(n, Base + 32) = 31 /\ Read(n, Base + 33) = 152 /\ Read(n, Base + 34) = 53
       /\ Read(n, Base + 35) = 4 /\ Read(n, Base + 36) = 77 /\ Read(n, Base + 37) = 57
  BY <1>1, <1>4
<1>10. /\ Read(n, Base + 38) = 52 /\ Read(n, Base + 39) = 6 /\ Read(n, Base + 40) = 31 /\ Read(n, Base + 41) = 137
       /\ Read(n, Base + 42) = 134 /\ Read(n, Base + 43) = 4 /\ Read(n, Base + 44) = 63 /\ Read(n, Base + 45) = 53
       /\ Read(n, Base + 46) = 6 /\ Read(n, Base + 47) = 57
  BY <1>1, <1>5
<1>11. /\ Read(n, Base + 108) = 1 /\ Read(n, Base + 109) = 57
  BY <1>1, <1>6
<1>12. Base \in Int
  BY DEF Base
<1> QED  BY <1>7, <1>8, <1>9, <1>10, <1>11, <1>12 DEF TerminalText

\* The instructions of the drivers for the disk.
DiskText(n, R) ==
  LET q == Base + Starts[R] IN
  /\ Read(n, q) = 52 /\ Read(n, q + 1) = 32 /\ Read(n, q + 2) = 31 /\ Read(n, q + 3) = 2
  /\ Read(n, q + 4) = 198 /\ Read(n, q + 5) = Number[R] /\ Read(n, q + 6) = 134 /\ Read(n, q + 7) = 6
  /\ Read(n, q + 8) = 63 /\ Read(n, q + 9) = 53 /\ Read(n, q + 10) = 32 /\ Read(n, q + 11) = 57

LEMMA DiskNumbers ==
  /\ DiskOps = DOMAIN Starts
  /\ \A R \in DiskOps :
       \/ R = "read" /\ Starts[R] = 48 /\ Number[R] = 0
       \/ R = "write" /\ Starts[R] = 60 /\ Number[R] = 1
       \/ R = "verify" /\ Starts[R] = 72 /\ Number[R] = 2
       \/ R = "drive" /\ Starts[R] = 84 /\ Number[R] = 4
       \/ R = "chkrdy" /\ Starts[R] = 96 /\ Number[R] = 5
  BY DEF DiskOps, Starts, Number

LEMMA DiskReads == ASSUME NEW n, Code(n), NEW R \in DiskOps PROVE DiskText(n, R)
<1> DEFINE q == Starts[R]
           v == Number[R]
<1>1. \A i \in 0 .. 109 : Read(n, Base + i) = Driver[i + 1]
  BY DEF Code
<1>2. q \in {48, 60, 72, 84, 96}
  BY DiskNumbers
<1>3. \A i \in 1 .. 12 : Driver[q + i] = S(v)[i]
  BY Assembled, DiskNumbers
<1>4. /\ S(v)[1] = 52 /\ S(v)[2] = 32 /\ S(v)[3] = 31 /\ S(v)[4] = 2 /\ S(v)[5] = 198 /\ S(v)[6] = v
      /\ S(v)[7] = 134 /\ S(v)[8] = 6 /\ S(v)[9] = 63 /\ S(v)[10] = 53 /\ S(v)[11] = 32 /\ S(v)[12] = 57
  BY DEF S
<1> HIDE DEF q, v
<1>5. /\ Driver[q + 1] = 52 /\ Driver[q + 2] = 32 /\ Driver[q + 3] = 31 /\ Driver[q + 4] = 2
      /\ Driver[q + 5] = 198 /\ Driver[q + 6] = v /\ Driver[q + 7] = 134 /\ Driver[q + 8] = 6
      /\ Driver[q + 9] = 63 /\ Driver[q + 10] = 53 /\ Driver[q + 11] = 32 /\ Driver[q + 12] = 57
  BY <1>3, <1>4
<1>6. \A i \in 0 .. 11 : Read(n, (Base + q) + i) = Driver[q + (i + 1)]
  <2> SUFFICES ASSUME NEW i \in 0 .. 11 PROVE Read(n, (Base + q) + i) = Driver[q + (i + 1)]
    OBVIOUS
  <2>1. q + i \in 0 .. 109 /\ (Base + q) + i = Base + (q + i) /\ q + (i + 1) = (q + i) + 1
    BY <1>2 DEF Base
  <2> QED  BY <1>1, <2>1
<1>7. (Base + q) + 0 = Base + q
  BY <1>2 DEF Base
<1>8. /\ Read(n, Base + q) = 52 /\ Read(n, (Base + q) + 1) = 32 /\ Read(n, (Base + q) + 2) = 31
      /\ Read(n, (Base + q) + 3) = 2 /\ Read(n, (Base + q) + 4) = 198 /\ Read(n, (Base + q) + 5) = v
  BY <1>5, <1>6, <1>7
<1>9. /\ Read(n, (Base + q) + 6) = 134 /\ Read(n, (Base + q) + 7) = 6 /\ Read(n, (Base + q) + 8) = 63
      /\ Read(n, (Base + q) + 9) = 53 /\ Read(n, (Base + q) + 10) = 32 /\ Read(n, (Base + q) + 11) = 57
  BY <1>5, <1>6
<1> QED  BY <1>8, <1>9, Zenon DEF DiskText, q, v

-----------------------------------------------------------------------------
(* What the drivers leave alone.                                           *)

LEMMA Numbers ==
  /\ Base = 62000 /\ Home = 4096 /\ Back = 4099 /\ Stack = 2048 /\ Buffer = 1280 /\ Fcb = 1024
  BY DEF Base, Home, Back, Stack, Buffer, Fcb

LEMMA ScratchPlaces ==
  ASSUME NEW adr \in Word
  PROVE  /\ adr \in Scratch <=> adr = 4097 \/ adr = 4098 \/ (2028 <= adr /\ adr <= 2047)
         /\ adr \in Sector => 1280 <= adr /\ adr < 1536
<1>1. adr \in Int
  BY WordInt
<1>2. Scratch = {4097, 4098} \cup (2028 .. 2047)
  BY SMT DEF Scratch, Home, Stack
<1>3. adr \in Sector => 1280 <= adr /\ adr < 1536
  BY <1>1, Size, SMT DEF Sector, Buffer
<1> QED  BY <1>1, <1>2, <1>3

\* The program stands above the stack and the sector.
Above(n, k) == \A adr \in Word : adr = 4096 \/ adr >= 4099 => Read(n, adr) = Read(k, adr)

LEMMA CodeAbove == ASSUME NEW n, NEW k, Code(k), Above(n, k) PROVE Code(n)
<1>1. ASSUME NEW i \in 0 .. 109 PROVE Read(n, Base + i) = Driver[i + 1]
  <2>1. Base + i \in Word /\ Base + i >= 4099
    BY Numbers, SMT DEF Word
  <2>2. Read(k, Base + i) = Driver[i + 1]
    BY DEF Code
  <2> QED  BY <2>1, <2>2 DEF Above
<1>2. 4096 \in Word /\ 4099 \in Word /\ 4100 \in Word /\ 4099 >= 4099 /\ 4100 >= 4099 /\ Back + 1 = 4100
  BY Numbers, SMT DEF Word
<1>3. Read(n, Home) = Read(k, Home) /\ Read(n, Back) = Read(k, Back) /\ Read(n, Back + 1) = Read(k, Back + 1)
  BY <1>2, Numbers DEF Above
<1> QED  BY <1>1, <1>3 DEF Code

LEMMA SectorAbove == ASSUME NEW n, NEW k, NEW R, KeepsSector(n, k, R) PROVE Above(n, k)
<1> SUFFICES ASSUME NEW adr \in Word, adr = 4096 \/ adr >= 4099 PROVE Read(n, adr) = Read(k, adr)
  BY DEF Above
<1>1. adr \notin Scratch /\ adr \notin Sector
  BY ScratchPlaces, WordInt
<1> QED  BY <1>1 DEF KeepsSector

LEMMA RestSector == ASSUME NEW n, NEW k, NEW R, KeepsRest(n, k) PROVE KeepsSector(n, k, R)
  BY DEF KeepsRest, KeepsSector

\* Nothing but the bytes below the stack has changed.
StackOnly(n, l) == \A adr \in Word : adr < 2028 \/ adr >= 2048 => Read(n, adr) = Read(l, adr)

LEMMA OnlyStack ==
  ASSUME NEW n, NEW l, StackOnly(n, l)
  PROVE  /\ Above(n, l) /\ (Code(l) => Code(n))
         /\ \A k : KeepsRest(l, k) => KeepsRest(n, k)
         /\ \A k, R : KeepsSector(l, k, R) => KeepsSector(n, k, R)
<1>1. Above(n, l)
  BY WordInt DEF Above, StackOnly
<1>2. \A adr \in Word : adr \notin Scratch => Read(n, adr) = Read(l, adr)
  <2> SUFFICES ASSUME NEW adr \in Word, adr \notin Scratch PROVE Read(n, adr) = Read(l, adr)
    OBVIOUS
  <2>1. adr < 2028 \/ adr >= 2048
    BY ScratchPlaces, WordInt
  <2> QED  BY <2>1 DEF StackOnly
<1>3. ASSUME NEW k, KeepsRest(l, k) PROVE KeepsRest(n, k)
  BY <1>2, <1>3 DEF KeepsRest
<1>4. ASSUME NEW k, NEW R, KeepsSector(l, k, R) PROVE KeepsSector(n, k, R)
  BY <1>2, <1>4 DEF KeepsSector
<1> QED  BY <1>1, <1>3, <1>4, CodeAbove

LEMMA SameStack == ASSUME NEW n, NEW l, SameMemory(n, l) PROVE StackOnly(n, l)
  BY DEF SameMemory, StackOnly

LEMMA PushedStack ==
  ASSUME NEW n, NEW l, NEW s, s \in 2041 .. 2048, NEW d \in 0 .. 12,
         \A adr : adr < s - d \/ adr >= s => Read(n, adr) = Read(l, adr)
  PROVE  StackOnly(n, l)
<1> SUFFICES ASSUME NEW adr \in Word, adr < 2028 \/ adr >= 2048 PROVE Read(n, adr) = Read(l, adr)
  BY DEF StackOnly
<1>1. adr < s - d \/ adr >= s
  BY WordInt
<1> QED  BY <1>1

-----------------------------------------------------------------------------
(* One instruction of the drivers for the terminal.                        *)

TerminalAt(n, R, o, k) ==
  /\ n.pc = Base + o /\ n.u = k.u /\ n.dp = k.dp /\ Pair(n, Stack - 2) = Back
  /\ AtPlace(R, o) /\ InTerminal(n, o, k)

LEMMA TerminalWithin ==
  ASSUME NEW n, NEW R, NEW o \in 0 .. 109, NEW k, TerminalAt(n, R, o, k)
  PROVE  Offset(n) = o /\ Within(n, R, k)
<1>1. Offset(n) = o
  BY Numbers DEF TerminalAt, Offset
<1> QED  BY <1>1 DEF TerminalAt, Within

\* What every instruction there starts from.
TerminalStart(m0, R, o, k) ==
  /\ m0.pc = 62000 + o /\ Low(m0.pc) /\ m0.pc + 2 = Base + (o + 2) /\ m0.pc + 1 = Base + (o + 1)
  /\ m0.u = k.u /\ m0.dp = k.dp /\ m0.x = k.x /\ m0.y = k.y
  /\ Pair(m0, 2046) = Back /\ KeepsRest(m0, k)
  /\ TerminalFrame(m0, o, k) /\ AtPlace(R, o)
  /\ m0.s \in 2044 .. 2046 /\ Room(m0.s) /\ m0.s < 40000
  /\ m0.a \in Byte /\ m0.b \in Byte

LEMMA TerminalStarts ==
  ASSUME NEW m0 \in Machines, NEW R, NEW o \in 0 .. 109, NEW k, TerminalAt(m0, R, o, k)
  PROVE  TerminalStart(m0, R, o, k)
<1>1. m0.s \in 2044 .. 2046
  <2>1. TerminalFrame(m0, o, k)
    BY DEF TerminalAt, InTerminal
  <2> QED  BY <2>1, Numbers DEF TerminalFrame
<1> QED  BY <1>1, Numbers, Fields DEF TerminalAt, InTerminal, Low, Room, TerminalStart

LEMMA StepPshs4 ==
  ASSUME NEW m0 \in Machines, Code(m0), NEW R, NEW k, NEW o \in {0, 10, 15, 27},
         TerminalAt(m0, R, o, k), NEW n, n = Execute(m0)
  PROVE  n.err = "none" /\ TerminalAt(n, R, o + 2, k)
<1>1. o \in 0 .. 109
  OBVIOUS
<1>2. /\ m0.pc = 62000 + o /\ Low(m0.pc) /\ m0.pc + 2 = Base + (o + 2) /\ m0.pc + 1 = Base + (o + 1)
      /\ m0.u = k.u /\ m0.dp = k.dp /\ m0.x = k.x /\ m0.y = k.y
      /\ Pair(m0, 2046) = Back /\ KeepsRest(m0, k)
      /\ TerminalFrame(m0, o, k) /\ AtPlace(R, o)
      /\ m0.s \in 2044 .. 2046 /\ Room(m0.s) /\ m0.s < 40000
      /\ m0.a \in Byte /\ m0.b \in Byte
  <2>1. TerminalStart(m0, R, o, k)
    BY <1>1, TerminalStarts
  <2> QED  BY <2>1 DEF TerminalStart
<1>3. Read(m0, m0.pc) = 52 /\ Read(m0, m0.pc + 1) = 4
  <2>1. TerminalText(m0)
    BY TerminalReads
  <2>2. m0.pc = Base + o /\ m0.pc + 1 = Base + o + 1
    BY <1>2, Numbers
  <2> QED  BY <2>1, <2>2 DEF TerminalText
<1>4. /\ n.err = "none" /\ Regs(n, m0.pc + 2, m0.s - 1, m0.a, m0.b, m0.x, m0.y, m0.u, m0.dp)
      /\ \A adr : adr < m0.s - 2 \/ adr >= m0.s => Read(n, adr) = Read(m0, adr)
      /\ Read(n, m0.s - 1) = m0.b
  BY <1>2, <1>3, DoesPshs
<1>p. Pair(n, 2046) = Pair(m0, 2046)
  <2>1. Read(n, 2046) = Read(m0, 2046) /\ Read(n, 2047) = Read(m0, 2047)
    BY <1>2, <1>4
  <2> QED  BY <2>1 DEF Pair
<1>5. StackOnly(n, m0)
  <2>1. m0.s \in 2041 .. 2048 /\ 2 \in 0 .. 12
    BY <1>2
  <2> QED  BY <1>4, <2>1, PushedStack
<1>6. AtPlace(R, o + 2) /\ o + 2 \in {2, 12, 17, 29}
  BY <1>2 DEF AtPlace
<1>7. TerminalFrame(n, o + 2, k)
  <2>1. CASE o \in {0, 10, 27}
    <3>1. m0.s = 2046 /\ m0.b = k.b
      BY <1>2, <2>1, Numbers DEF TerminalFrame
    <3>2. n.s = 2045 /\ Read(n, 2045) = k.b /\ o + 2 \in {2, 12, 29}
      BY <1>4, <2>1, <3>1 DEF Regs
    <3> QED  BY <3>2, Numbers DEF TerminalFrame
  <2>2. CASE o = 15
    <3>1. m0.s = 2045 /\ Read(m0, 2045) = k.b
      BY <1>2, <2>2, Numbers DEF TerminalFrame
    <3>2. n.s = 2044 /\ Read(n, 2045) = k.b /\ o + 2 = 17
      BY <1>4, <2>2, <3>1 DEF Regs
    <3> QED  BY <3>2, Numbers DEF TerminalFrame
  <2> QED  BY <2>1, <2>2
<1>8. n.pc = Base + (o + 2) /\ n.u = m0.u /\ n.dp = m0.dp /\ n.x = m0.x /\ n.y = m0.y
  BY <1>2, <1>4 DEF Regs
<1>9. o + 2 \in 0 .. 109 /\ o + 2 \notin {4, 5, 14, 15, 31, 32} /\ o + 2 \notin {19, 44}
  BY <1>6
<1>10. KeepsRest(n, k) /\ Stack - 2 = 2046
  BY <1>2, <1>5, OnlyStack, Numbers
<1>11. n.u = k.u /\ n.dp = k.dp /\ n.x = k.x /\ n.y = k.y /\ Pair(n, 2046) = Back
  BY <1>2, <1>8, <1>p
<1> QED  BY <1>4, <1>6, <1>7, <1>8, <1>9, <1>10, <1>11 DEF TerminalAt, InTerminal

LEMMA StepPshs6 ==
  ASSUME NEW m0 \in Machines, Code(m0), NEW R, NEW k, NEW o \in {38},
         TerminalAt(m0, R, o, k), NEW n, n = Execute(m0)
  PROVE  n.err = "none" /\ TerminalAt(n, R, o + 2, k)
<1>1. o \in 0 .. 109
  OBVIOUS
<1>2. /\ m0.pc = 62000 + o /\ Low(m0.pc) /\ m0.pc + 2 = Base + (o + 2) /\ m0.pc + 1 = Base + (o + 1)
      /\ m0.u = k.u /\ m0.dp = k.dp /\ m0.x = k.x /\ m0.y = k.y
      /\ Pair(m0, 2046) = Back /\ KeepsRest(m0, k)
      /\ TerminalFrame(m0, o, k) /\ AtPlace(R, o)
      /\ m0.s \in 2044 .. 2046 /\ Room(m0.s) /\ m0.s < 40000
      /\ m0.a \in Byte /\ m0.b \in Byte
  <2>1. TerminalStart(m0, R, o, k)
    BY <1>1, TerminalStarts
  <2> QED  BY <2>1 DEF TerminalStart
<1>3. Read(m0, m0.pc) = 52 /\ Read(m0, m0.pc + 1) = 6
  <2>1. TerminalText(m0)
    BY TerminalReads
  <2>2. m0.pc = Base + 38 /\ m0.pc + 1 = Base + 39
    BY <1>2, Numbers
  <2> QED  BY <2>1, <2>2, Zenon DEF TerminalText
<1>4. /\ n.err = "none" /\ Regs(n, m0.pc + 2, m0.s - 2, m0.a, m0.b, m0.x, m0.y, m0.u, m0.dp)
      /\ \A adr : adr < m0.s - 2 \/ adr >= m0.s => Read(n, adr) = Read(m0, adr)
      /\ Read(n, m0.s - 1) = m0.b /\ Read(n, m0.s - 2) = m0.a
  BY <1>2, <1>3, DoesPshs
<1>p. Pair(n, 2046) = Pair(m0, 2046)
  <2>1. Read(n, 2046) = Read(m0, 2046) /\ Read(n, 2047) = Read(m0, 2047)
    BY <1>2, <1>4
  <2> QED  BY <2>1 DEF Pair
<1>5. StackOnly(n, m0)
  <2>1. m0.s \in 2041 .. 2048 /\ 2 \in 0 .. 12
    BY <1>2
  <2> QED  BY <1>4, <2>1, PushedStack
<1>6. AtPlace(R, o + 2) /\ o + 2 = 40
  BY <1>2 DEF AtPlace
<1>7. TerminalFrame(n, o + 2, k)
  <2>1. m0.s = 2046 /\ m0.b = k.b /\ m0.a = k.a
    BY <1>2, Numbers DEF TerminalFrame
  <2>2. n.s = 2044 /\ Read(n, 2045) = k.b /\ Read(n, 2044) = k.a
    BY <1>4, <2>1 DEF Regs
  <2> QED  BY <1>6, <2>2, Numbers DEF TerminalFrame
<1>8. n.pc = Base + (o + 2) /\ n.u = m0.u /\ n.dp = m0.dp /\ n.x = m0.x /\ n.y = m0.y
  BY <1>2, <1>4 DEF Regs
<1>9. o + 2 \in 0 .. 109 /\ o + 2 \notin {4, 5, 14, 15, 31, 32} /\ o + 2 \notin {19, 44}
  BY <1>6
<1>10. KeepsRest(n, k) /\ Stack - 2 = 2046
  BY <1>2, <1>5, OnlyStack, Numbers
<1>11. n.u = k.u /\ n.dp = k.dp /\ n.x = k.x /\ n.y = k.y /\ Pair(n, 2046) = Back
  BY <1>2, <1>8, <1>p
<1> QED  BY <1>4, <1>6, <1>7, <1>8, <1>9, <1>10, <1>11 DEF TerminalAt, InTerminal

LEMMA StepLd ==
  ASSUME NEW m0 \in Machines, Code(m0), NEW R, NEW k, NEW o \in {2, 12, 17, 29, 42},
         TerminalAt(m0, R, o, k), NEW n, n = Execute(m0)
  PROVE  n.err = "none" /\ TerminalAt(n, R, o + 2, k)
<1>1. o \in 0 .. 109
  OBVIOUS
<1>2. /\ m0.pc = 62000 + o /\ Low(m0.pc) /\ m0.pc + 2 = Base + (o + 2) /\ m0.pc + 1 = Base + (o + 1)
      /\ m0.u = k.u /\ m0.dp = k.dp /\ m0.x = k.x /\ m0.y = k.y
      /\ Pair(m0, 2046) = Back /\ KeepsRest(m0, k)
      /\ TerminalFrame(m0, o, k) /\ AtPlace(R, o)
      /\ m0.s \in 2044 .. 2046 /\ Room(m0.s) /\ m0.s < 40000
      /\ m0.a \in Byte /\ m0.b \in Byte
  <2>1. TerminalStart(m0, R, o, k)
    BY <1>1, TerminalStarts
  <2> QED  BY <2>1 DEF TerminalStart
<1>3. Read(m0, m0.pc) = 134 /\ Read(m0, m0.pc + 1) = (IF o = 29 THEN 5 ELSE IF o \in {2, 12} THEN 3 ELSE 4)
  <2>1. TerminalText(m0)
    BY TerminalReads
  <2>2. m0.pc = Base + o /\ m0.pc + 1 = Base + o + 1 /\ (o = 29 => m0.pc + 1 = Base + 30)
    BY <1>2, Numbers
  <2>3. Read(m0, m0.pc) = 134
    BY <2>1, <2>2 DEF TerminalText
  <2>4. /\ o \in {2, 12} => Read(m0, m0.pc + 1) = 3
        /\ o \in {17, 42} => Read(m0, m0.pc + 1) = 4
    BY <2>1, <2>2 DEF TerminalText
  <2>5. o = 29 => Read(m0, m0.pc + 1) = 5
    BY <2>1, <2>2, Zenon DEF TerminalText
  <2> QED  BY <2>3, <2>4, <2>5
<1>4. /\ n.err = "none" /\ SameMemory(n, m0)
      /\ Regs(n, m0.pc + 2, m0.s, Read(m0, m0.pc + 1), m0.b, m0.x, m0.y, m0.u, m0.dp)
  BY <1>2, <1>3, DoesLd
<1>p. Pair(n, 2046) = Pair(m0, 2046)
  BY <1>4 DEF Pair, SameMemory
<1>5. StackOnly(n, m0)
  BY <1>4, SameStack
<1>6. AtPlace(R, o + 2) /\ o + 2 \in {4, 14, 19, 31, 44}
  BY <1>2 DEF AtPlace
<1>7. TerminalFrame(n, o + 2, k)
  <2>1. n.s = m0.s /\ Read(n, Stack - 3) = Read(m0, Stack - 3) /\ Read(n, Stack - 4) = Read(m0, Stack - 4)
    BY <1>4 DEF Regs, SameMemory
  <2> QED  BY <1>2, <2>1 DEF TerminalFrame
<1>8. n.pc = Base + (o + 2) /\ n.u = m0.u /\ n.dp = m0.dp /\ n.x = m0.x /\ n.y = m0.y
  BY <1>2, <1>4 DEF Regs
<1>9. o + 2 \in 0 .. 109 /\ n.a # 6 /\ (o + 2 \in {19, 44} => n.a = 4)
  BY <1>3, <1>4, <1>6 DEF Regs
<1>10. KeepsRest(n, k) /\ Stack - 2 = 2046
  BY <1>2, <1>5, OnlyStack, Numbers
<1>11. n.u = k.u /\ n.dp = k.dp /\ n.x = k.x /\ n.y = k.y /\ Pair(n, 2046) = Back
  BY <1>2, <1>8, <1>p
<1> QED  BY <1>4, <1>6, <1>7, <1>8, <1>9, <1>10, <1>11 DEF TerminalAt, InTerminal

LEMMA StepTfrBA ==
  ASSUME NEW m0 \in Machines, Code(m0), NEW R, NEW k, NEW o \in {5, 22, 32},
         TerminalAt(m0, R, o, k), NEW n, n = Execute(m0)
  PROVE  n.err = "none" /\ TerminalAt(n, R, o + 2, k) /\ n.a = m0.b
<1>1. o \in 0 .. 109
  OBVIOUS
<1>2. /\ m0.pc = 62000 + o /\ Low(m0.pc) /\ m0.pc + 2 = Base + (o + 2) /\ m0.pc + 1 = Base + (o + 1)
      /\ m0.u = k.u /\ m0.dp = k.dp /\ m0.x = k.x /\ m0.y = k.y
      /\ Pair(m0, 2046) = Back /\ KeepsRest(m0, k)
      /\ TerminalFrame(m0, o, k) /\ AtPlace(R, o)
      /\ m0.s \in 2044 .. 2046 /\ Room(m0.s) /\ m0.s < 40000
      /\ m0.a \in Byte /\ m0.b \in Byte
  <2>1. TerminalStart(m0, R, o, k)
    BY <1>1, TerminalStarts
  <2> QED  BY <2>1 DEF TerminalStart
<1>3. Read(m0, m0.pc) = 31 /\ Read(m0, m0.pc + 1) = 152
  <2>1. TerminalText(m0)
    BY TerminalReads
  <2>2. m0.pc = Base + o /\ m0.pc + 1 = Base + o + 1
    BY <1>2, Numbers
  <2> QED  BY <2>1, <2>2 DEF TerminalText
<1>4. /\ n.err = "none" /\ SameMemory(n, m0)
      /\ Regs(n, m0.pc + 2, m0.s, m0.b, m0.b, m0.x, m0.y, m0.u, m0.dp)
  <2>1. Read(m0, m0.pc + 1) \in {152, 137, 2}
    BY <1>3
  <2> QED  BY <1>2, <1>3, <2>1, DoesTfr
<1>p. Pair(n, 2046) = Pair(m0, 2046)
  BY <1>4 DEF Pair, SameMemory
<1>5. StackOnly(n, m0)
  BY <1>4, SameStack
<1>6. AtPlace(R, o + 2) /\ o + 2 \in {7, 24, 34}
  BY <1>2 DEF AtPlace
<1>7. TerminalFrame(n, o + 2, k)
  <2>1. n.s = m0.s /\ Read(n, Stack - 3) = Read(m0, Stack - 3) /\ Read(n, Stack - 4) = Read(m0, Stack - 4)
    BY <1>4 DEF Regs, SameMemory
  <2> QED  BY <1>2, <2>1 DEF TerminalFrame
<1>8. n.pc = Base + (o + 2) /\ n.a = m0.b /\ n.u = m0.u /\ n.dp = m0.dp /\ n.x = m0.x /\ n.y = m0.y
  BY <1>2, <1>4 DEF Regs
<1>9. o + 2 \in 0 .. 109 /\ o + 2 \notin {4, 5, 14, 15, 31, 32} /\ o + 2 \notin {19, 44}
  BY <1>6
<1>10. KeepsRest(n, k) /\ Stack - 2 = 2046
  BY <1>2, <1>5, OnlyStack, Numbers
<1>11. n.u = k.u /\ n.dp = k.dp /\ n.x = k.x /\ n.y = k.y /\ Pair(n, 2046) = Back
  BY <1>2, <1>8, <1>p
<1> QED  BY <1>4, <1>6, <1>7, <1>8, <1>9, <1>10, <1>11 DEF TerminalAt, InTerminal

LEMMA StepTfrAB ==
  ASSUME NEW m0 \in Machines, Code(m0), NEW R, NEW k, NEW o \in {40},
         TerminalAt(m0, R, o, k), NEW n, n = Execute(m0)
  PROVE  n.err = "none" /\ TerminalAt(n, R, o + 2, k)
<1>1. o \in 0 .. 109
  OBVIOUS
<1>2. /\ m0.pc = 62000 + o /\ Low(m0.pc) /\ m0.pc + 2 = Base + (o + 2) /\ m0.pc + 1 = Base + (o + 1)
      /\ m0.u = k.u /\ m0.dp = k.dp /\ m0.x = k.x /\ m0.y = k.y
      /\ Pair(m0, 2046) = Back /\ KeepsRest(m0, k)
      /\ TerminalFrame(m0, o, k) /\ AtPlace(R, o)
      /\ m0.s \in 2044 .. 2046 /\ Room(m0.s) /\ m0.s < 40000
      /\ m0.a \in Byte /\ m0.b \in Byte
  <2>1. TerminalStart(m0, R, o, k)
    BY <1>1, TerminalStarts
  <2> QED  BY <2>1 DEF TerminalStart
<1>3. Read(m0, m0.pc) = 31 /\ Read(m0, m0.pc + 1) = 137
  <2>1. TerminalText(m0)
    BY TerminalReads
  <2>2. m0.pc = Base + 40 /\ m0.pc + 1 = Base + 41
    BY <1>2, Numbers
  <2> QED  BY <2>1, <2>2, Zenon DEF TerminalText
<1>4. /\ n.err = "none" /\ SameMemory(n, m0)
      /\ Regs(n, m0.pc + 2, m0.s, m0.a, m0.a, m0.x, m0.y, m0.u, m0.dp)
  <2>1. Read(m0, m0.pc + 1) \in {152, 137, 2}
    BY <1>3
  <2> QED  BY <1>2, <1>3, <2>1, DoesTfr
<1>p. Pair(n, 2046) = Pair(m0, 2046)
  BY <1>4 DEF Pair, SameMemory
<1>5. StackOnly(n, m0)
  BY <1>4, SameStack
<1>6. AtPlace(R, o + 2) /\ o + 2 \in {42}
  BY <1>2 DEF AtPlace
<1>7. TerminalFrame(n, o + 2, k)
  <2>1. n.s = m0.s /\ Read(n, Stack - 3) = Read(m0, Stack - 3) /\ Read(n, Stack - 4) = Read(m0, Stack - 4)
    BY <1>4 DEF Regs, SameMemory
  <2> QED  BY <1>2, <2>1 DEF TerminalFrame
<1>8. n.pc = Base + (o + 2) /\ n.a = m0.a /\ n.u = m0.u /\ n.dp = m0.dp /\ n.x = m0.x /\ n.y = m0.y
  BY <1>2, <1>4 DEF Regs
<1>9. o + 2 \in 0 .. 109 /\ o + 2 \notin {4, 5, 14, 15, 31, 32} /\ o + 2 \notin {19, 44}
  BY <1>6
<1>10. KeepsRest(n, k) /\ Stack - 2 = 2046
  BY <1>2, <1>5, OnlyStack, Numbers
<1>11. n.u = k.u /\ n.dp = k.dp /\ n.x = k.x /\ n.y = k.y /\ Pair(n, 2046) = Back
  BY <1>2, <1>8, <1>p
<1> QED  BY <1>4, <1>6, <1>7, <1>8, <1>9, <1>10, <1>11 DEF TerminalAt, InTerminal

LEMMA StepPuls4 ==
  ASSUME NEW m0 \in Machines, Code(m0), NEW R, NEW k, NEW o \in {7, 20, 24, 34},
         TerminalAt(m0, R, o, k), NEW n, n = Execute(m0)
  PROVE  n.err = "none" /\ TerminalAt(n, R, o + 2, k)
<1>1. o \in 0 .. 109
  OBVIOUS
<1>2. /\ m0.pc = 62000 + o /\ Low(m0.pc) /\ m0.pc + 2 = Base + (o + 2) /\ m0.pc + 1 = Base + (o + 1)
      /\ m0.u = k.u /\ m0.dp = k.dp /\ m0.x = k.x /\ m0.y = k.y
      /\ Pair(m0, 2046) = Back /\ KeepsRest(m0, k)
      /\ TerminalFrame(m0, o, k) /\ AtPlace(R, o)
      /\ m0.s \in 2044 .. 2046 /\ Room(m0.s) /\ m0.s < 40000
      /\ m0.a \in Byte /\ m0.b \in Byte
  <2>1. TerminalStart(m0, R, o, k)
    BY <1>1, TerminalStarts
  <2> QED  BY <2>1 DEF TerminalStart
<1>3. Read(m0, m0.pc) = 53 /\ Read(m0, m0.pc + 1) = 4
  <2>1. TerminalText(m0)
    BY TerminalReads
  <2>2. m0.pc = Base + o /\ m0.pc + 1 = Base + o + 1
    BY <1>2, Numbers
  <2> QED  BY <2>1, <2>2 DEF TerminalText
<1>4. /\ n.err = "none" /\ SameMemory(n, m0)
      /\ Regs(n, m0.pc + 2, m0.s + 1, m0.a, Read(m0, m0.s), m0.x, m0.y, m0.u, m0.dp)
  <2>1. m0.s < 50000
    BY <1>2
  <2> QED  BY <1>2, <1>3, <2>1, DoesPuls
<1>p. Pair(n, 2046) = Pair(m0, 2046)
  BY <1>4 DEF Pair, SameMemory
<1>5. StackOnly(n, m0)
  BY <1>4, SameStack
<1>6. AtPlace(R, o + 2) /\ o + 2 \in {9, 22, 26, 36}
  BY <1>2 DEF AtPlace
<1>7. TerminalFrame(n, o + 2, k)
  <2>1. CASE o \in {7, 24, 34}
    <3>1. m0.s = 2045 /\ Read(m0, 2045) = k.b
      BY <1>2, <2>1, Numbers DEF TerminalFrame
    <3>2. n.s = 2046 /\ n.b = k.b /\ o + 2 \in {9, 26, 36}
      BY <1>4, <2>1, <3>1 DEF Regs
    <3> QED  BY <3>2, Numbers DEF TerminalFrame
  <2>2. CASE o = 20
    <3>1. m0.s = 2044 /\ Read(m0, 2045) = k.b
      BY <1>2, <2>2, Numbers DEF TerminalFrame
    <3>2. n.s = 2045 /\ Read(n, 2045) = k.b /\ o + 2 = 22
      BY <1>4, <2>2, <3>1 DEF Regs, SameMemory
    <3> QED  BY <3>2, Numbers DEF TerminalFrame
  <2> QED  BY <2>1, <2>2
<1>8. n.pc = Base + (o + 2) /\ n.u = m0.u /\ n.dp = m0.dp /\ n.x = m0.x /\ n.y = m0.y
  BY <1>2, <1>4 DEF Regs
<1>9. o + 2 \in 0 .. 109 /\ o + 2 \notin {4, 5, 14, 15, 31, 32} /\ o + 2 \notin {19, 44}
  BY <1>6
<1>10. KeepsRest(n, k) /\ Stack - 2 = 2046
  BY <1>2, <1>5, OnlyStack, Numbers
<1>11. n.u = k.u /\ n.dp = k.dp /\ n.x = k.x /\ n.y = k.y /\ Pair(n, 2046) = Back
  BY <1>2, <1>8, <1>p
<1> QED  BY <1>4, <1>6, <1>7, <1>8, <1>9, <1>10, <1>11 DEF TerminalAt, InTerminal

LEMMA StepPuls6 ==
  ASSUME NEW m0 \in Machines, Code(m0), NEW R, NEW k, NEW o \in {45},
         TerminalAt(m0, R, o, k), NEW n, n = Execute(m0)
  PROVE  n.err = "none" /\ TerminalAt(n, R, o + 2, k)
<1>1. o \in 0 .. 109
  OBVIOUS
<1>2. /\ m0.pc = 62000 + o /\ Low(m0.pc) /\ m0.pc + 2 = Base + (o + 2) /\ m0.pc + 1 = Base + (o + 1)
      /\ m0.u = k.u /\ m0.dp = k.dp /\ m0.x = k.x /\ m0.y = k.y
      /\ Pair(m0, 2046) = Back /\ KeepsRest(m0, k)
      /\ TerminalFrame(m0, o, k) /\ AtPlace(R, o)
      /\ m0.s \in 2044 .. 2046 /\ Room(m0.s) /\ m0.s < 40000
      /\ m0.a \in Byte /\ m0.b \in Byte
  <2>1. TerminalStart(m0, R, o, k)
    BY <1>1, TerminalStarts
  <2> QED  BY <2>1 DEF TerminalStart
<1>3. Read(m0, m0.pc) = 53 /\ Read(m0, m0.pc + 1) = 6
  <2>1. TerminalText(m0)
    BY TerminalReads
  <2>2. m0.pc = Base + 45 /\ m0.pc + 1 = Base + 46
    BY <1>2, Numbers
  <2> QED  BY <2>1, <2>2, Zenon DEF TerminalText
<1>4. /\ n.err = "none" /\ SameMemory(n, m0)
      /\ Regs(n, m0.pc + 2, m0.s + 2, Read(m0, m0.s), Read(m0, m0.s + 1), m0.x, m0.y, m0.u, m0.dp)
  <2>1. m0.s < 50000
    BY <1>2
  <2> QED  BY <1>2, <1>3, <2>1, DoesPuls
<1>p. Pair(n, 2046) = Pair(m0, 2046)
  BY <1>4 DEF Pair, SameMemory
<1>5. StackOnly(n, m0)
  BY <1>4, SameStack
<1>6. AtPlace(R, o + 2) /\ o + 2 = 47
  BY <1>2 DEF AtPlace
<1>7. TerminalFrame(n, o + 2, k)
  <2>1. m0.s = 2044 /\ Read(m0, 2045) = k.b /\ Read(m0, 2044) = k.a
    BY <1>2, Numbers DEF TerminalFrame
  <2>2. n.s = 2046 /\ n.b = k.b /\ n.a = k.a
    BY <1>4, <2>1 DEF Regs
  <2> QED  BY <1>6, <2>2, Numbers DEF TerminalFrame
<1>8. n.pc = Base + (o + 2) /\ n.u = m0.u /\ n.dp = m0.dp /\ n.x = m0.x /\ n.y = m0.y
  BY <1>2, <1>4 DEF Regs
<1>9. o + 2 \in 0 .. 109 /\ o + 2 \notin {4, 5, 14, 15, 31, 32} /\ o + 2 \notin {19, 44}
  BY <1>6
<1>10. KeepsRest(n, k) /\ Stack - 2 = 2046
  BY <1>2, <1>5, OnlyStack, Numbers
<1>11. n.u = k.u /\ n.dp = k.dp /\ n.x = k.x /\ n.y = k.y /\ Pair(n, 2046) = Back
  BY <1>2, <1>8, <1>p
<1> QED  BY <1>4, <1>6, <1>7, <1>8, <1>9, <1>10, <1>11 DEF TerminalAt, InTerminal

LEMMA StepTst ==
  ASSUME NEW m0 \in Machines, Code(m0), NEW R, NEW k, NEW o \in {36},
         TerminalAt(m0, R, o, k), NEW n, n = Execute(m0)
  PROVE  n.err = "none" /\ TerminalAt(n, R, o + 1, k)
<1>1. o \in 0 .. 109
  OBVIOUS
<1>2. /\ m0.pc = 62000 + o /\ Low(m0.pc) /\ m0.pc + 2 = Base + (o + 2) /\ m0.pc + 1 = Base + (o + 1)
      /\ m0.u = k.u /\ m0.dp = k.dp /\ m0.x = k.x /\ m0.y = k.y
      /\ Pair(m0, 2046) = Back /\ KeepsRest(m0, k)
      /\ TerminalFrame(m0, o, k) /\ AtPlace(R, o)
      /\ m0.s \in 2044 .. 2046 /\ Room(m0.s) /\ m0.s < 40000
      /\ m0.a \in Byte /\ m0.b \in Byte
  <2>1. TerminalStart(m0, R, o, k)
    BY <1>1, TerminalStarts
  <2> QED  BY <2>1 DEF TerminalStart
<1>3. Read(m0, m0.pc) = 77
  <2>1. TerminalText(m0)
    BY TerminalReads
  <2>2. m0.pc = Base + 36 /\ m0.pc + 1 = Base + 37
    BY <1>2, Numbers
  <2> QED  BY <2>1, <2>2, Zenon DEF TerminalText
<1>4. /\ n.err = "none" /\ SameMemory(n, m0)
      /\ Regs(n, m0.pc + 1, m0.s, m0.a, m0.b, m0.x, m0.y, m0.u, m0.dp)
  BY <1>2, <1>3, DoesTst
<1>p. Pair(n, 2046) = Pair(m0, 2046)
  BY <1>4 DEF Pair, SameMemory
<1>5. StackOnly(n, m0)
  BY <1>4, SameStack
<1>6. AtPlace(R, o + 1) /\ o + 1 = 37
  BY <1>2 DEF AtPlace
<1>7. TerminalFrame(n, o + 1, k)
  <2>1. n.s = m0.s /\ n.a = m0.a /\ n.b = m0.b
    BY <1>4 DEF Regs
  <2> QED  BY <1>2, <1>6, <2>1 DEF TerminalFrame
<1>8. n.pc = Base + (o + 1) /\ n.u = m0.u /\ n.dp = m0.dp /\ n.x = m0.x /\ n.y = m0.y
  BY <1>2, <1>4 DEF Regs
<1>9. o + 1 \in 0 .. 109 /\ o + 1 \notin {4, 5, 14, 15, 31, 32} /\ o + 1 \notin {19, 44}
  BY <1>6
<1>10. KeepsRest(n, k) /\ Stack - 2 = 2046
  BY <1>2, <1>5, OnlyStack, Numbers
<1>11. n.u = k.u /\ n.dp = k.dp /\ n.x = k.x /\ n.y = k.y /\ Pair(n, 2046) = Back
  BY <1>2, <1>8, <1>p
<1> QED  BY <1>4, <1>6, <1>7, <1>8, <1>9, <1>10, <1>11 DEF TerminalAt, InTerminal

LEMMA StepNull ==
  ASSUME NEW m0 \in Machines, Code(m0), NEW R, NEW k, NEW o \in {108},
         TerminalAt(m0, R, o, k), NEW n, n = Execute(m0)
  PROVE  n.err = "opcode" /\ TerminalAt(n, R, o + 1, k)
<1>1. o \in 0 .. 109
  OBVIOUS
<1>2. /\ m0.pc = 62000 + o /\ Low(m0.pc) /\ m0.pc + 2 = Base + (o + 2) /\ m0.pc + 1 = Base + (o + 1)
      /\ m0.u = k.u /\ m0.dp = k.dp /\ m0.x = k.x /\ m0.y = k.y
      /\ Pair(m0, 2046) = Back /\ KeepsRest(m0, k)
      /\ TerminalFrame(m0, o, k) /\ AtPlace(R, o)
      /\ m0.s \in 2044 .. 2046 /\ Room(m0.s) /\ m0.s < 40000
      /\ m0.a \in Byte /\ m0.b \in Byte
  <2>1. TerminalStart(m0, R, o, k)
    BY <1>1, TerminalStarts
  <2> QED  BY <2>1 DEF TerminalStart
<1>3. Read(m0, m0.pc) = 1
  <2>1. TerminalText(m0)
    BY TerminalReads
  <2>2. m0.pc = Base + 108 /\ m0.pc + 1 = Base + 109
    BY <1>2, Numbers
  <2> QED  BY <2>1, <2>2, Zenon DEF TerminalText
<1>4. /\ n.err = "opcode" /\ SameMemory(n, m0)
      /\ Regs(n, m0.pc + 1, m0.s, m0.a, m0.b, m0.x, m0.y, m0.u, m0.dp)
  BY <1>2, <1>3, DoesNull
<1>p. Pair(n, 2046) = Pair(m0, 2046)
  BY <1>4 DEF Pair, SameMemory
<1>5. StackOnly(n, m0)
  BY <1>4, SameStack
<1>6. AtPlace(R, o + 1) /\ o + 1 = 109
  BY <1>2 DEF AtPlace
<1>7. TerminalFrame(n, o + 1, k)
  <2>1. n.s = m0.s /\ n.a = m0.a /\ n.b = m0.b
    BY <1>4 DEF Regs
  <2> QED  BY <1>2, <1>6, <2>1 DEF TerminalFrame
<1>8. n.pc = Base + (o + 1) /\ n.u = m0.u /\ n.dp = m0.dp /\ n.x = m0.x /\ n.y = m0.y
  BY <1>2, <1>4 DEF Regs
<1>9. o + 1 \in 0 .. 109 /\ o + 1 \notin {4, 5, 14, 15, 31, 32} /\ o + 1 \notin {19, 44}
  BY <1>6
<1>10. KeepsRest(n, k) /\ Stack - 2 = 2046
  BY <1>2, <1>5, OnlyStack, Numbers
<1>11. n.u = k.u /\ n.dp = k.dp /\ n.x = k.x /\ n.y = k.y /\ Pair(n, 2046) = Back
  BY <1>2, <1>8, <1>p
<1> QED  BY <1>4, <1>6, <1>7, <1>8, <1>9, <1>10, <1>11 DEF TerminalAt, InTerminal

LEMMA StepRts ==
  ASSUME NEW m0 \in Machines, Code(m0), NEW R, NEW k, NEW o \in {9, 26, 37, 47, 109},
         TerminalAt(m0, R, o, k), NEW n, n = Execute(m0)
  PROVE  n.err = "none" /\ Returned(n, R, k)
<1>1. o \in 0 .. 109
  OBVIOUS
<1>2. /\ m0.pc = 62000 + o /\ Low(m0.pc) /\ m0.pc + 2 = Base + (o + 2) /\ m0.pc + 1 = Base + (o + 1)
      /\ m0.u = k.u /\ m0.dp = k.dp /\ m0.x = k.x /\ m0.y = k.y
      /\ Pair(m0, 2046) = Back /\ KeepsRest(m0, k)
      /\ TerminalFrame(m0, o, k) /\ AtPlace(R, o)
      /\ m0.s \in 2044 .. 2046 /\ Room(m0.s) /\ m0.s < 40000
      /\ m0.a \in Byte /\ m0.b \in Byte
  <2>1. TerminalStart(m0, R, o, k)
    BY <1>1, TerminalStarts
  <2> QED  BY <2>1 DEF TerminalStart
<1>3. Read(m0, m0.pc) = 57
  <2>1. TerminalText(m0)
    BY TerminalReads
  <2>2. m0.pc = Base + o /\ m0.pc + 1 = Base + o + 1
    BY <1>2, Numbers
  <2> QED  BY <2>1, <2>2 DEF TerminalText
<1>4. /\ n.err = "none" /\ SameMemory(n, m0)
      /\ Regs(n, ReadW(m0, m0.s), m0.s + 2, m0.a, m0.b, m0.x, m0.y, m0.u, m0.dp)
  <2>1. m0.s < 50000
    BY <1>2
  <2> QED  BY <1>2, <1>3, <2>1, DoesRts
<1>5. m0.s = 2046 /\ m0.b = k.b /\ (o \in {47, 109} => m0.a = k.a)
  BY <1>2, Numbers DEF TerminalFrame
<1>6. ReadW(m0, m0.s) = Back
  <2>1. W(2046 + 1) = 2046 + 1
    BY SMT DEF W
  <2> QED  BY <1>2, <1>5, <2>1 DEF ReadW, Pair
<1>7. R \in {"outch", "bad"} => o \in {47, 109}
  BY <1>2 DEF AtPlace
<1>8. KeepsSector(n, k, R)
  <2>1. KeepsRest(n, k)
    BY <1>2, <1>4, SameStack, OnlyStack
  <2> QED  BY <2>1, RestSector
<1>9. /\ n.pc = Back /\ n.s = Stack /\ n.u = k.u /\ n.dp = k.dp /\ n.y = k.y /\ n.x = k.x /\ n.b = k.b
      /\ (o \in {47, 109} => n.a = k.a)
  BY <1>2, <1>4, <1>5, <1>6, Numbers DEF Regs
<1> QED  BY <1>4, <1>7, <1>8, <1>9 DEF Returned

LEMMA StepSwi ==
  ASSUME NEW m0 \in Machines, Code(m0), NEW R, NEW k, NEW o \in {4, 14, 19, 31, 44},
         TerminalAt(m0, R, o, k), NEW n, n = Execute(m0)
  PROVE  /\ n.err = "swi" /\ Rti(n) \in Machines /\ Code(Rti(n)) /\ n.pc = Rti(n).pc /\ n.a = Rti(n).a
         /\ n.pc = Base + (o + 1) /\ Asking(Rti(n), R, k)
<1>1. o \in 0 .. 109
  OBVIOUS
<1>2. /\ m0.pc = 62000 + o /\ Low(m0.pc) /\ m0.pc + 2 = Base + (o + 2) /\ m0.pc + 1 = Base + (o + 1)
      /\ m0.u = k.u /\ m0.dp = k.dp /\ m0.x = k.x /\ m0.y = k.y
      /\ Pair(m0, 2046) = Back /\ KeepsRest(m0, k)
      /\ TerminalFrame(m0, o, k) /\ AtPlace(R, o)
      /\ m0.s \in 2044 .. 2046 /\ Room(m0.s) /\ m0.s < 40000
      /\ m0.a \in Byte /\ m0.b \in Byte
  <2>1. TerminalStart(m0, R, o, k)
    BY <1>1, TerminalStarts
  <2> QED  BY <2>1 DEF TerminalStart
<1>3. Read(m0, m0.pc) = 63
  <2>1. TerminalText(m0)
    BY TerminalReads
  <2>2. m0.pc = Base + o /\ m0.pc + 1 = Base + o + 1
    BY <1>2, Numbers
  <2> QED  BY <2>1, <2>2 DEF TerminalText
<1>4. /\ n.err = "swi"
      /\ Regs(n, m0.pc + 1, m0.s - 12, m0.a, m0.b, m0.x, m0.y, m0.u, m0.dp)
      /\ \A adr : adr < m0.s - 12 \/ adr >= m0.s => Read(n, adr) = Read(m0, adr)
      /\ Rti(n) \in Machines /\ SameMemory(Rti(n), n)
      /\ Regs(Rti(n), m0.pc + 1, m0.s, m0.a, m0.b, m0.x, m0.y, m0.u, m0.dp)
  BY <1>2, <1>3, DoesSwi
<1> DEFINE j == Rti(n)
<1>5. StackOnly(j, m0)
  <2>1. m0.s \in 2041 .. 2048 /\ 12 \in 0 .. 12
    BY <1>2
  <2>2. \A adr : adr < m0.s - 12 \/ adr >= m0.s => Read(j, adr) = Read(m0, adr)
    BY <1>4 DEF SameMemory
  <2> QED  BY <2>1, <2>2, PushedStack
<1> HIDE DEF j
<1>6. \A adr : adr >= m0.s => Read(j, adr) = Read(m0, adr)
  BY <1>4 DEF SameMemory, j
<1>7. Regs(j, m0.pc + 1, m0.s, m0.a, m0.b, m0.x, m0.y, m0.u, m0.dp)
  BY <1>4 DEF j
<1>8. Pair(j, 2046) = Pair(m0, 2046)
  <2>1. Read(j, 2046) = Read(m0, 2046) /\ Read(j, 2047) = Read(m0, 2047)
    BY <1>2, <1>6
  <2> QED  BY <2>1 DEF Pair
<1>9. AtPlace(R, o + 1) /\ o + 1 \in {5, 15, 20, 32, 45}
  BY <1>2 DEF AtPlace
<1>10. TerminalFrame(j, o + 1, k)
  <2>1. CASE o \in {4, 14, 31}
    <3>1. m0.s = 2045 /\ Read(m0, 2045) = k.b
      BY <1>2, <2>1, Numbers DEF TerminalFrame
    <3>2. j.s = 2045 /\ Read(j, 2045) = k.b /\ o + 1 \in {5, 15, 32}
      BY <1>6, <1>7, <2>1, <3>1 DEF Regs
    <3> QED  BY <3>2, Numbers DEF TerminalFrame
  <2>2. CASE o = 19
    <3>1. m0.s = 2044 /\ Read(m0, 2045) = k.b
      BY <1>2, <2>2, Numbers DEF TerminalFrame
    <3>2. j.s = 2044 /\ Read(j, 2045) = k.b /\ o + 1 = 20
      BY <1>6, <1>7, <2>2, <3>1 DEF Regs
    <3> QED  BY <3>2, Numbers DEF TerminalFrame
  <2>3. CASE o = 44
    <3>1. m0.s = 2044 /\ Read(m0, 2045) = k.b /\ Read(m0, 2044) = k.a
      BY <1>2, <2>3, Numbers DEF TerminalFrame
    <3>2. j.s = 2044 /\ Read(j, 2045) = k.b /\ Read(j, 2044) = k.a /\ o + 1 = 45
      BY <1>6, <1>7, <2>3, <3>1 DEF Regs
    <3> QED  BY <3>2, Numbers DEF TerminalFrame
  <2> QED  BY <2>1, <2>2, <2>3
<1>11. m0.a # 6 /\ (o \in {19, 44} => m0.a = 4)
  BY DEF TerminalAt, InTerminal
<1>12. /\ j.pc = Base + (o + 1) /\ j.a = m0.a /\ j.u = m0.u /\ j.dp = m0.dp /\ j.x = m0.x /\ j.y = m0.y
       /\ n.pc = Base + (o + 1) /\ n.a = m0.a
  BY <1>2, <1>4, <1>7 DEF Regs
<1>13. /\ o + 1 \in 0 .. 109 /\ (o + 1 \in {4, 5, 14, 15, 31, 32} => j.a # 6) /\ (o + 1 \in {19, 44} => j.a = 4)
       /\ (o + 1 \in {20, 45} => j.a = 4) /\ j.a # 6
  BY <1>9, <1>11, <1>12
<1>14. TerminalAt(j, R, o + 1, k)
  <2>1. KeepsRest(j, k) /\ Stack - 2 = 2046
    BY <1>2, <1>5, OnlyStack, Numbers
  <2>2. j.u = k.u /\ j.dp = k.dp /\ j.x = k.x /\ j.y = k.y /\ Pair(j, 2046) = Back
    BY <1>2, <1>8, <1>12
  <2> QED  BY <1>9, <1>10, <1>12, <1>13, <2>1, <2>2 DEF TerminalAt, InTerminal
<1>15. Offset(j) = o + 1
  BY <1>13, <1>14, TerminalWithin
<1>16. Asking(j, R, k)
  BY <1>9, <1>13, <1>14, <1>15 DEF Asking, TerminalAt, Swis
<1>17. Code(j)
  BY <1>5, OnlyStack
<1> QED  BY <1>4, <1>12, <1>16, <1>17 DEF j

-----------------------------------------------------------------------------
(* One instruction of the drivers for the disk.                            *)

DiskAt(n, R, i, k) ==
  /\ R \in DiskOps /\ n.pc = Base + (Starts[R] + i) /\ n.u = k.u /\ n.dp = k.dp
  /\ Pair(n, Stack - 2) = Back /\ InDisk(n, R, i, k)

LEMMA DiskStarts ==
  ASSUME NEW R \in DiskOps
  PROVE  Starts[R] \in 48 .. 96 /\ Number[R] \in {0, 1, 2, 4, 5} /\ Number[R] \in Byte
<1>1. Starts[R] \in {48, 60, 72, 84, 96} /\ Number[R] \in {0, 1, 2, 4, 5}
  BY DiskNumbers
<1>2. 0 \in Byte /\ 1 \in Byte /\ 2 \in Byte /\ 4 \in Byte /\ 5 \in Byte
  BY DEF Byte
<1> QED  BY <1>1, <1>2

LEMMA DiskWithin ==
  ASSUME NEW n, NEW R, NEW i \in 0 .. 11, NEW k, DiskAt(n, R, i, k)
  PROVE  Offset(n) - Starts[R] = i /\ Within(n, R, k)
<1>1. Offset(n) - Starts[R] = i
  <2>1. Starts[R] \in Int /\ n.pc = 62000 + (Starts[R] + i)
    BY DiskStarts, Numbers DEF DiskAt
  <2> QED  BY <2>1, Numbers DEF Offset
<1> QED  BY <1>1 DEF DiskAt, Within

\* What every instruction there starts from.
DiskStart(m0, R, i, k) ==
  /\ m0.pc = 62000 + (Starts[R] + i) /\ Low(m0.pc)
  /\ m0.pc + 2 = Base + (Starts[R] + (i + 2)) /\ m0.pc + 1 = Base + (Starts[R] + (i + 1))
  /\ m0.pc = (Base + Starts[R]) + i /\ m0.pc + 1 = (Base + Starts[R]) + (i + 1)
  /\ m0.u = k.u /\ m0.dp = k.dp /\ Pair(m0, 2046) = Back
  /\ InDisk(m0, R, i, k) /\ m0.a \in Byte /\ m0.b \in Byte

LEMMA DiskBegins ==
  ASSUME NEW m0 \in Machines, NEW R, NEW i \in 0 .. 11, NEW k, DiskAt(m0, R, i, k)
  PROVE  DiskStart(m0, R, i, k)
<1>1. Starts[R] \in 48 .. 96
  BY DiskStarts DEF DiskAt
<1> QED  BY <1>1, Numbers, Fields DEF DiskAt, Low, DiskStart

LEMMA StepPushY ==
  ASSUME NEW m0 \in Machines, Code(m0), NEW R \in DiskOps, NEW k,
         DiskAt(m0, R, 0, k), NEW n, n = Execute(m0)
  PROVE  n.err = "none" /\ DiskAt(n, R, 2, k)
<1>1. /\ m0.pc = 62000 + (Starts[R] + 0) /\ Low(m0.pc)
      /\ m0.pc + 2 = Base + (Starts[R] + (0 + 2)) /\ m0.pc + 1 = Base + (Starts[R] + (0 + 1))
      /\ m0.pc = (Base + Starts[R]) + 0 /\ m0.pc + 1 = (Base + Starts[R]) + (0 + 1)
      /\ m0.u = k.u /\ m0.dp = k.dp /\ Pair(m0, 2046) = Back
      /\ InDisk(m0, R, 0, k) /\ m0.a \in Byte /\ m0.b \in Byte
  <2>1. 0 \in 0 .. 11
    OBVIOUS
  <2>2. DiskStart(m0, R, 0, k)
    BY <2>1, DiskBegins
  <2> QED  BY <2>2 DEF DiskStart
<1>2. m0.x = k.x /\ KeepsRest(m0, k) /\ m0.s = 2046 /\ m0.y = k.y /\ D(m0) = D(k)
  BY <1>1, Numbers DEF InDisk, DiskFrame
<1>3. Read(m0, m0.pc) = 52 /\ Read(m0, m0.pc + 1) = 32
  <2>1. DiskText(m0, R)
    BY DiskReads
  <2>2. Starts[R] \in Int
    BY DiskStarts
  <2>3. m0.pc = Base + Starts[R] /\ m0.pc + 1 = Base + Starts[R] + 1
    BY <1>1, <2>2, Numbers
  <2> QED  BY <2>1, <2>3 DEF DiskText
<1>4. /\ n.err = "none" /\ Regs(n, m0.pc + 2, m0.s - 2, m0.a, m0.b, m0.x, m0.y, m0.u, m0.dp)
      /\ \A adr : adr < m0.s - 2 \/ adr >= m0.s => Read(n, adr) = Read(m0, adr)
      /\ 256 * Read(n, m0.s - 2) + Read(n, m0.s - 1) = m0.y
  <2>1. Room(m0.s)
    BY <1>2 DEF Room
  <2> QED  BY <1>1, <1>3, <2>1, DoesPshs
<1>5. StackOnly(n, m0)
  <2>1. m0.s \in 2041 .. 2048 /\ 2 \in 0 .. 12
    BY <1>2
  <2> QED  BY <1>4, <2>1, PushedStack
<1>6. Pair(n, 2046) = Pair(m0, 2046) /\ Pair(n, 2044) = m0.y
  <2>1. Read(n, 2046) = Read(m0, 2046) /\ Read(n, 2047) = Read(m0, 2047)
    BY <1>2, <1>4
  <2> QED  BY <1>2, <1>4, <2>1 DEF Pair
<1>8. n.x = k.x /\ n.s = 2044 /\ Pair(n, 2044) = k.y /\ D(n) = D(k)
  BY <1>2, <1>4, <1>6 DEF Regs, D
<1>9. KeepsRest(n, k)
  BY <1>2, <1>5, OnlyStack
<1>10. n.u = k.u /\ n.dp = k.dp /\ n.pc = Base + (Starts[R] + 2) /\ Pair(n, 2046) = Back
  BY <1>1, <1>4, <1>6, DiskStarts DEF Regs
<1>11. InDisk(n, R, 2, k)
  BY <1>8, <1>9, Numbers DEF InDisk, DiskFrame
<1>12. Stack - 2 = 2046
  BY Numbers
<1> QED  BY <1>4, <1>10, <1>11, <1>12 DEF DiskAt

LEMMA StepTfrDY ==
  ASSUME NEW m0 \in Machines, Code(m0), NEW R \in DiskOps, NEW k,
         DiskAt(m0, R, 2, k), NEW n, n = Execute(m0)
  PROVE  n.err = "none" /\ DiskAt(n, R, 4, k)
<1>1. /\ m0.pc = 62000 + (Starts[R] + 2) /\ Low(m0.pc)
      /\ m0.pc + 2 = Base + (Starts[R] + (2 + 2)) /\ m0.pc + 1 = Base + (Starts[R] + (2 + 1))
      /\ m0.pc = (Base + Starts[R]) + 2 /\ m0.pc + 1 = (Base + Starts[R]) + (2 + 1)
      /\ m0.u = k.u /\ m0.dp = k.dp /\ Pair(m0, 2046) = Back
      /\ InDisk(m0, R, 2, k) /\ m0.a \in Byte /\ m0.b \in Byte
  <2>1. 2 \in 0 .. 11
    OBVIOUS
  <2>2. DiskStart(m0, R, 2, k)
    BY <2>1, DiskBegins
  <2> QED  BY <2>2 DEF DiskStart
<1>2. m0.x = k.x /\ KeepsRest(m0, k) /\ m0.s = 2044 /\ Pair(m0, 2044) = k.y /\ D(m0) = D(k)
  BY <1>1, Numbers DEF InDisk, DiskFrame
<1>3. Read(m0, m0.pc) = 31 /\ Read(m0, m0.pc + 1) = 2
  <2>1. DiskText(m0, R)
    BY DiskReads
  <2>2. Starts[R] \in Int
    BY DiskStarts
  <2>3. m0.pc = Base + Starts[R] + 2 /\ m0.pc + 1 = Base + Starts[R] + 3
    BY <1>1, <2>2, Numbers
  <2> QED  BY <2>1, <2>3 DEF DiskText
<1>4. /\ n.err = "none" /\ SameMemory(n, m0)
      /\ Regs(n, m0.pc + 2, m0.s, m0.a, m0.b, m0.x, D(m0), m0.u, m0.dp)
  <2>1. Read(m0, m0.pc + 1) \in {152, 137, 2}
    BY <1>3
  <2> QED  BY <1>1, <1>3, <2>1, DoesTfr
<1>5. StackOnly(n, m0)
  BY <1>4, SameStack
<1>6. Pair(n, 2046) = Pair(m0, 2046) /\ Pair(n, 2044) = Pair(m0, 2044)
  BY <1>4 DEF Pair, SameMemory
<1>8. n.x = k.x /\ n.s = 2044 /\ Pair(n, 2044) = k.y /\ n.y = D(k)
  BY <1>2, <1>4, <1>6 DEF Regs
<1>9. KeepsRest(n, k)
  BY <1>2, <1>5, OnlyStack
<1>10. n.u = k.u /\ n.dp = k.dp /\ n.pc = Base + (Starts[R] + 4) /\ Pair(n, 2046) = Back
  BY <1>1, <1>4, <1>6, DiskStarts DEF Regs
<1>11. InDisk(n, R, 4, k)
  BY <1>8, <1>9, Numbers DEF InDisk, DiskFrame
<1>12. Stack - 2 = 2046
  BY Numbers
<1> QED  BY <1>4, <1>10, <1>11, <1>12 DEF DiskAt

LEMMA StepLdB ==
  ASSUME NEW m0 \in Machines, Code(m0), NEW R \in DiskOps, NEW k,
         DiskAt(m0, R, 4, k), NEW n, n = Execute(m0)
  PROVE  n.err = "none" /\ DiskAt(n, R, 6, k)
<1>1. /\ m0.pc = 62000 + (Starts[R] + 4) /\ Low(m0.pc)
      /\ m0.pc + 2 = Base + (Starts[R] + (4 + 2)) /\ m0.pc + 1 = Base + (Starts[R] + (4 + 1))
      /\ m0.pc = (Base + Starts[R]) + 4 /\ m0.pc + 1 = (Base + Starts[R]) + (4 + 1)
      /\ m0.u = k.u /\ m0.dp = k.dp /\ Pair(m0, 2046) = Back
      /\ InDisk(m0, R, 4, k) /\ m0.a \in Byte /\ m0.b \in Byte
  <2>1. 4 \in 0 .. 11
    OBVIOUS
  <2>2. DiskStart(m0, R, 4, k)
    BY <2>1, DiskBegins
  <2> QED  BY <2>2 DEF DiskStart
<1>2. m0.x = k.x /\ KeepsRest(m0, k) /\ m0.s = 2044 /\ Pair(m0, 2044) = k.y /\ m0.y = D(k)
  BY <1>1, Numbers DEF InDisk, DiskFrame
<1>3. Read(m0, m0.pc) = 198 /\ Read(m0, m0.pc + 1) = Number[R]
  <2>1. DiskText(m0, R)
    BY DiskReads
  <2>2. Starts[R] \in Int
    BY DiskStarts
  <2>3. m0.pc = Base + Starts[R] + 4 /\ m0.pc + 1 = Base + Starts[R] + 5
    BY <1>1, <2>2, Numbers
  <2> QED  BY <2>1, <2>3 DEF DiskText
<1>4. /\ n.err = "none" /\ SameMemory(n, m0)
      /\ Regs(n, m0.pc + 2, m0.s, m0.a, Read(m0, m0.pc + 1), m0.x, m0.y, m0.u, m0.dp)
  BY <1>1, <1>3, DoesLd
<1>5. StackOnly(n, m0)
  BY <1>4, SameStack
<1>6. Pair(n, 2046) = Pair(m0, 2046) /\ Pair(n, 2044) = Pair(m0, 2044)
  BY <1>4 DEF Pair, SameMemory
<1>8. n.x = k.x /\ n.s = 2044 /\ Pair(n, 2044) = k.y /\ n.y = D(k) /\ n.b = Number[R]
  BY <1>2, <1>3, <1>4, <1>6 DEF Regs
<1>9. KeepsRest(n, k)
  BY <1>2, <1>5, OnlyStack
<1>10. n.u = k.u /\ n.dp = k.dp /\ n.pc = Base + (Starts[R] + 6) /\ Pair(n, 2046) = Back
  BY <1>1, <1>4, <1>6, DiskStarts DEF Regs
<1>11. InDisk(n, R, 6, k)
  BY <1>8, <1>9, Numbers DEF InDisk, DiskFrame
<1>12. Stack - 2 = 2046
  BY Numbers
<1> QED  BY <1>4, <1>10, <1>11, <1>12 DEF DiskAt

LEMMA StepLdA6 ==
  ASSUME NEW m0 \in Machines, Code(m0), NEW R \in DiskOps, NEW k,
         DiskAt(m0, R, 6, k), NEW n, n = Execute(m0)
  PROVE  n.err = "none" /\ DiskAt(n, R, 8, k)
<1>1. /\ m0.pc = 62000 + (Starts[R] + 6) /\ Low(m0.pc)
      /\ m0.pc + 2 = Base + (Starts[R] + (6 + 2)) /\ m0.pc + 1 = Base + (Starts[R] + (6 + 1))
      /\ m0.pc = (Base + Starts[R]) + 6 /\ m0.pc + 1 = (Base + Starts[R]) + (6 + 1)
      /\ m0.u = k.u /\ m0.dp = k.dp /\ Pair(m0, 2046) = Back
      /\ InDisk(m0, R, 6, k) /\ m0.a \in Byte /\ m0.b \in Byte
  <2>1. 6 \in 0 .. 11
    OBVIOUS
  <2>2. DiskStart(m0, R, 6, k)
    BY <2>1, DiskBegins
  <2> QED  BY <2>2 DEF DiskStart
<1>2. m0.x = k.x /\ KeepsRest(m0, k) /\ m0.s = 2044 /\ Pair(m0, 2044) = k.y /\ m0.y = D(k) /\ m0.b = Number[R]
  BY <1>1, Numbers DEF InDisk, DiskFrame
<1>3. Read(m0, m0.pc) = 134 /\ Read(m0, m0.pc + 1) = 6
  <2>1. DiskText(m0, R)
    BY DiskReads
  <2>2. Starts[R] \in Int
    BY DiskStarts
  <2>3. m0.pc = Base + Starts[R] + 6 /\ m0.pc + 1 = Base + Starts[R] + 7
    BY <1>1, <2>2, Numbers
  <2> QED  BY <2>1, <2>3 DEF DiskText
<1>4. /\ n.err = "none" /\ SameMemory(n, m0)
      /\ Regs(n, m0.pc + 2, m0.s, Read(m0, m0.pc + 1), m0.b, m0.x, m0.y, m0.u, m0.dp)
  BY <1>1, <1>3, DoesLd
<1>5. StackOnly(n, m0)
  BY <1>4, SameStack
<1>6. Pair(n, 2046) = Pair(m0, 2046) /\ Pair(n, 2044) = Pair(m0, 2044)
  BY <1>4 DEF Pair, SameMemory
<1>8. n.x = k.x /\ n.s = 2044 /\ Pair(n, 2044) = k.y /\ n.y = D(k) /\ n.b = Number[R] /\ n.a = 6
  BY <1>2, <1>3, <1>4, <1>6 DEF Regs
<1>9. KeepsRest(n, k)
  BY <1>2, <1>5, OnlyStack
<1>10. n.u = k.u /\ n.dp = k.dp /\ n.pc = Base + (Starts[R] + 8) /\ Pair(n, 2046) = Back
  BY <1>1, <1>4, <1>6, DiskStarts DEF Regs
<1>11. InDisk(n, R, 8, k)
  BY <1>8, <1>9, Numbers DEF InDisk, DiskFrame
<1>12. Stack - 2 = 2046
  BY Numbers
<1> QED  BY <1>4, <1>10, <1>11, <1>12 DEF DiskAt

LEMMA StepPullY ==
  ASSUME NEW m0 \in Machines, Code(m0), NEW R \in DiskOps, NEW k,
         DiskAt(m0, R, 9, k), NEW n, n = Execute(m0)
  PROVE  n.err = "none" /\ DiskAt(n, R, 11, k) /\ SameMemory(n, m0) /\ n.cc = m0.cc
<1>1. /\ m0.pc = 62000 + (Starts[R] + 9) /\ Low(m0.pc)
      /\ m0.pc + 2 = Base + (Starts[R] + (9 + 2)) /\ m0.pc + 1 = Base + (Starts[R] + (9 + 1))
      /\ m0.pc = (Base + Starts[R]) + 9 /\ m0.pc + 1 = (Base + Starts[R]) + (9 + 1)
      /\ m0.u = k.u /\ m0.dp = k.dp /\ Pair(m0, 2046) = Back
      /\ InDisk(m0, R, 9, k) /\ m0.a \in Byte /\ m0.b \in Byte
  <2>1. 9 \in 0 .. 11
    OBVIOUS
  <2>2. DiskStart(m0, R, 9, k)
    BY <2>1, DiskBegins
  <2> QED  BY <2>2 DEF DiskStart
<1>2. m0.s = 2044 /\ Pair(m0, 2044) = k.y /\ KeepsSector(m0, k, R)
  BY <1>1, Numbers DEF InDisk, DiskFrame
<1>3. Read(m0, m0.pc) = 53 /\ Read(m0, m0.pc + 1) = 32
  <2>1. DiskText(m0, R)
    BY DiskReads
  <2>2. Starts[R] \in Int
    BY DiskStarts
  <2>3. m0.pc = Base + Starts[R] + 9 /\ m0.pc + 1 = Base + Starts[R] + 10
    BY <1>1, <2>2, Numbers
  <2> QED  BY <2>1, <2>3 DEF DiskText
<1>4. /\ n.err = "none" /\ SameMemory(n, m0) /\ n.cc = m0.cc
      /\ Regs(n, m0.pc + 2, m0.s + 2, m0.a, m0.b, m0.x, 256 * Read(m0, m0.s) + Read(m0, m0.s + 1), m0.u, m0.dp)
  <2>1. m0.s < 50000
    BY <1>2
  <2> QED  BY <1>1, <1>3, <2>1, DoesPuls
<1>5. StackOnly(n, m0)
  BY <1>4, SameStack
<1>6. Pair(n, 2046) = Pair(m0, 2046) /\ Pair(n, 2044) = Pair(m0, 2044)
  BY <1>4 DEF Pair, SameMemory
<1>8. n.s = 2046 /\ n.y = k.y
  BY <1>2, <1>4 DEF Regs, Pair
<1>9. KeepsSector(n, k, R)
  BY <1>2, <1>5, OnlyStack
<1>10. n.u = k.u /\ n.dp = k.dp /\ n.pc = Base + (Starts[R] + 11) /\ Pair(n, 2046) = Back
  BY <1>1, <1>4, <1>6, DiskStarts DEF Regs
<1>11. InDisk(n, R, 11, k)
  BY <1>8, <1>9, Numbers DEF InDisk, DiskFrame
<1>12. Stack - 2 = 2046
  BY Numbers
<1> QED  BY <1>4, <1>10, <1>11, <1>12 DEF DiskAt

LEMMA StepBack ==
  ASSUME NEW m0 \in Machines, Code(m0), NEW R \in DiskOps, NEW k,
         DiskAt(m0, R, 11, k), NEW n, n = Execute(m0)
  PROVE  n.err = "none" /\ Returned(n, R, k) /\ SameMemory(n, m0) /\ n.cc = m0.cc
<1>1. /\ m0.pc = 62000 + (Starts[R] + 11) /\ Low(m0.pc)
      /\ m0.pc + 2 = Base + (Starts[R] + (11 + 2)) /\ m0.pc + 1 = Base + (Starts[R] + (11 + 1))
      /\ m0.pc = (Base + Starts[R]) + 11 /\ m0.pc + 1 = (Base + Starts[R]) + (11 + 1)
      /\ m0.u = k.u /\ m0.dp = k.dp /\ Pair(m0, 2046) = Back
      /\ InDisk(m0, R, 11, k) /\ m0.a \in Byte /\ m0.b \in Byte
  <2>1. 11 \in 0 .. 11
    OBVIOUS
  <2>2. DiskStart(m0, R, 11, k)
    BY <2>1, DiskBegins
  <2> QED  BY <2>2 DEF DiskStart
<1>2. m0.s = 2046 /\ m0.y = k.y /\ KeepsSector(m0, k, R)
  BY <1>1, Numbers DEF InDisk, DiskFrame
<1>3. Read(m0, m0.pc) = 57
  <2>1. DiskText(m0, R)
    BY DiskReads
  <2>2. Starts[R] \in Int
    BY DiskStarts
  <2>3. m0.pc = Base + Starts[R] + 11
    BY <1>1, <2>2, Numbers
  <2> QED  BY <2>1, <2>3 DEF DiskText
<1>4. /\ n.err = "none" /\ SameMemory(n, m0) /\ n.cc = m0.cc
      /\ Regs(n, ReadW(m0, m0.s), m0.s + 2, m0.a, m0.b, m0.x, m0.y, m0.u, m0.dp)
  <2>1. m0.s < 50000
    BY <1>2
  <2> QED  BY <1>1, <1>3, <2>1, DoesRts
<1>5. ReadW(m0, m0.s) = Back
  <2>1. W(2046 + 1) = 2046 + 1
    BY SMT DEF W
  <2> QED  BY <1>1, <1>2, <2>1 DEF ReadW, Pair
<1>6. KeepsSector(n, k, R)
  BY <1>2, <1>4, SameStack, OnlyStack
<1>7. n.pc = Back /\ n.s = Stack /\ n.u = k.u /\ n.dp = k.dp /\ n.y = k.y
  BY <1>1, <1>2, <1>4, <1>5, Numbers DEF Regs
<1>8. R \notin {"outch", "bad"}
  BY DEF DiskOps
<1> QED  BY <1>4, <1>6, <1>7, <1>8 DEF Returned

LEMMA StepAsk ==
  ASSUME NEW m0 \in Machines, Code(m0), NEW R \in DiskOps, NEW k,
         DiskAt(m0, R, 8, k), NEW n, n = Execute(m0)
  PROVE  /\ n.err = "swi" /\ Rti(n) \in Machines /\ Code(Rti(n)) /\ n.pc = Rti(n).pc /\ n.a = Rti(n).a
         /\ n.pc = Base + (Starts[R] + 9) /\ Asking(Rti(n), R, k)
<1>1. /\ m0.pc = 62000 + (Starts[R] + 8) /\ Low(m0.pc)
      /\ m0.pc + 2 = Base + (Starts[R] + (8 + 2)) /\ m0.pc + 1 = Base + (Starts[R] + (8 + 1))
      /\ m0.pc = (Base + Starts[R]) + 8 /\ m0.pc + 1 = (Base + Starts[R]) + (8 + 1)
      /\ m0.u = k.u /\ m0.dp = k.dp /\ Pair(m0, 2046) = Back
      /\ InDisk(m0, R, 8, k) /\ m0.a \in Byte /\ m0.b \in Byte
  <2>1. 8 \in 0 .. 11
    OBVIOUS
  <2>2. DiskStart(m0, R, 8, k)
    BY <2>1, DiskBegins
  <2> QED  BY <2>2 DEF DiskStart
<1>2. m0.x = k.x /\ KeepsRest(m0, k) /\ m0.s = 2044 /\ Pair(m0, 2044) = k.y /\ m0.y = D(k) /\ m0.b = Number[R] /\ m0.a = 6
  BY <1>1, Numbers DEF InDisk, DiskFrame
<1>3. Read(m0, m0.pc) = 63
  <2>1. DiskText(m0, R)
    BY DiskReads
  <2>2. Starts[R] \in Int
    BY DiskStarts
  <2>3. m0.pc = Base + Starts[R] + 8
    BY <1>1, <2>2, Numbers
  <2> QED  BY <2>1, <2>3 DEF DiskText
<1>4. /\ n.err = "swi"
      /\ Regs(n, m0.pc + 1, m0.s - 12, m0.a, m0.b, m0.x, m0.y, m0.u, m0.dp)
      /\ \A adr : adr < m0.s - 12 \/ adr >= m0.s => Read(n, adr) = Read(m0, adr)
      /\ Rti(n) \in Machines /\ SameMemory(Rti(n), n)
      /\ Regs(Rti(n), m0.pc + 1, m0.s, m0.a, m0.b, m0.x, m0.y, m0.u, m0.dp)
  <2>1. Room(m0.s) /\ m0.s < 40000
    BY <1>2 DEF Room
  <2> QED  BY <1>1, <1>3, <2>1, DoesSwi
<1> DEFINE j == Rti(n)
<1>5. StackOnly(j, m0)
  <2>1. m0.s \in 2041 .. 2048 /\ 12 \in 0 .. 12
    BY <1>2
  <2>2. \A adr : adr < m0.s - 12 \/ adr >= m0.s => Read(j, adr) = Read(m0, adr)
    BY <1>4 DEF SameMemory
  <2> QED  BY <2>1, <2>2, PushedStack
<1>6. Pair(j, 2046) = Pair(m0, 2046) /\ Pair(j, 2044) = Pair(m0, 2044)
  <2>1. \A adr : adr >= m0.s => Read(j, adr) = Read(m0, adr)
    BY <1>4 DEF SameMemory
  <2>2. /\ Read(j, 2046) = Read(m0, 2046) /\ Read(j, 2047) = Read(m0, 2047)
        /\ Read(j, 2044) = Read(m0, 2044) /\ Read(j, 2045) = Read(m0, 2045)
    <3> HIDE DEF j
    <3> QED  BY <1>2, <2>1
  <2> HIDE DEF j
  <2> QED  BY <2>2 DEF Pair
<1>7. Regs(j, m0.pc + 1, m0.s, m0.a, m0.b, m0.x, m0.y, m0.u, m0.dp)
  BY <1>4
<1> HIDE DEF j
<1>8. j.x = k.x /\ j.s = 2044 /\ Pair(j, 2044) = k.y /\ j.y = D(k) /\ j.b = Number[R] /\ j.a = 6
  BY <1>2, <1>6, <1>7 DEF Regs
<1>9. KeepsRest(j, k) /\ Code(j)
  BY <1>2, <1>5, OnlyStack
<1>10. /\ j.u = k.u /\ j.dp = k.dp /\ j.pc = Base + (Starts[R] + 9) /\ Pair(j, 2046) = Back
       /\ n.pc = j.pc /\ n.a = j.a
  BY <1>1, <1>4, <1>6, <1>7, DiskStarts DEF Regs
<1>11. Offset(j) - Starts[R] = 9
  <2>1. Starts[R] \in Int
    BY DiskStarts
  <2> QED  BY <1>10, <2>1, Numbers DEF Offset
<1>12. DiskFrame(j, R, 8, k) /\ Stack - 2 = 2046
  BY <1>8, Numbers DEF DiskFrame
<1>13. Asking(j, R, k)
  BY <1>8, <1>9, <1>10, <1>11, <1>12 DEF Asking
<1> QED  BY <1>4, <1>9, <1>10, <1>13 DEF j

-----------------------------------------------------------------------------
(* One instruction of a driver.                                            *)

\* The host is to be asked.
Asks(n, m0, R, k) ==
  /\ n.err = "swi" /\ Rti(n) \in Machines /\ Code(Rti(n)) /\ n.pc = Rti(n).pc /\ n.a = Rti(n).a
  /\ Asking(Rti(n), R, k)
  /\ Offset(n) \in {5, 15, 32} => Offset(m0) = Offset(n) - 1
  /\ n.pc = m0.pc + 1 /\ Read(m0, m0.pc) = 63 /\ Read(m0, m0.pc - 1) # 63

\* The driver goes on, or returns.
Moves(n, m0, R, k) ==
  /\ n.err # "swi" /\ (Within(n, R, k) \/ Returned(n, R, k))
  /\ Offset(m0) \in {5, 32} => n.err = "none" /\ n.pc = m0.pc + 2 /\ n.a = m0.b
  /\ Offset(n) \in {4, 14, 31} => m0.pc = n.pc - 2

LEMMA WithinPlaces ==
  ASSUME NEW m0 \in Machines, NEW R, NEW k, Within(m0, R, k)
  PROVE  \/ /\ TerminalAt(m0, R, Offset(m0), k)
            /\ Offset(m0) \in {0, 10, 15, 27, 38, 2, 12, 17, 29, 42, 5, 22, 32, 40, 7, 20, 24, 34, 45,
                               36, 108, 9, 26, 37, 47, 109, 4, 14, 19, 31, 44}
         \/ \E i \in {0, 2, 4, 6, 8, 9, 11} : R \in DiskOps /\ DiskAt(m0, R, i, k)
<1>1. m0.pc \in Int
  BY Fields, WordInt
<1> DEFINE o == Offset(m0)
<1>2. m0.pc = Base + o
  BY <1>1, Numbers DEF Offset
<1> HIDE DEF o
<1>3. CASE AtPlace(R, o) /\ InTerminal(m0, o, k)
  <2>1. o \in {0, 10, 15, 27, 38, 2, 12, 17, 29, 42, 5, 22, 32, 40, 7, 20, 24, 34, 45,
               36, 108, 9, 26, 37, 47, 109, 4, 14, 19, 31, 44}
    BY <1>3 DEF AtPlace
  <2>2. TerminalAt(m0, R, o, k)
    BY <1>2, <1>3 DEF TerminalAt, Within
  <2> QED  BY <2>1, <2>2 DEF o
<1>4. CASE R \in DiskOps /\ InDisk(m0, R, o - Starts[R], k)
  <2> DEFINE i == o - Starts[R]
  <2>1. i \in {0, 2, 4, 6, 8, 9, 11}
    BY <1>4 DEF InDisk
  <2>2. o \in Int /\ Starts[R] \in Int
    BY <1>1, <1>4, DiskStarts, Numbers DEF o, Offset
  <2>3. m0.pc = Base + (Starts[R] + i)
    BY <1>2, <2>2
  <2> HIDE DEF i
  <2>4. DiskAt(m0, R, i, k)
    BY <1>4, <2>3 DEF DiskAt, Within, i
  <2> QED  BY <1>4, <2>1, <2>4
<1> QED  BY <1>3, <1>4 DEF Within, o

LEMMA TerminalSteps ==
  ASSUME NEW m0 \in Machines, Code(m0), NEW R, NEW k, NEW o, o = Offset(m0), TerminalAt(m0, R, o, k),
         NEW n, n = Execute(m0),
         o \in {0, 10, 15, 27, 38, 2, 12, 17, 29, 42, 5, 22, 32, 40, 7, 20, 24, 34, 45,
                36, 108, 9, 26, 37, 47, 109, 4, 14, 19, 31, 44}
  PROVE  Asks(n, m0, R, k) \/ Moves(n, m0, R, k)
<1>1. m0.pc = 62000 + o /\ o \in 0 .. 109
  BY Numbers DEF TerminalAt
\* Where n has arrived in the routine.
<1>2. ASSUME NEW e \in 0 .. 109, TerminalAt(n, R, e, k), n.err \in {"none", "opcode"},
             e = o + 2 \/ (e = o + 1 /\ o \in {36, 108}),
             o \in {5, 32} => e = o + 2 /\ n.err = "none" /\ n.a = m0.b
      PROVE  Moves(n, m0, R, k)
  <2>0. e \in 0 .. 109 /\ TerminalAt(n, R, e, k)
    BY <1>2
  <2>1. Offset(n) = e /\ Within(n, R, k)
    BY ONLY <2>0, TerminalWithin, Zenon
  <2>2. n.pc = 62000 + e
    BY <1>2, Numbers DEF TerminalAt
  <2>3. n.err # "swi"
    BY <1>2
  <2>4. e \in {4, 14, 31} => e = o + 2
    BY <1>1, <1>2
  <2>5. e = o + 2 => n.pc = m0.pc + 2 /\ m0.pc = n.pc - 2
    BY <1>1, <2>2
  <2> QED  BY <1>2, <2>1, <2>3, <2>4, <2>5 DEF Moves
<1>3. CASE o \in {0, 10, 15, 27}
  <2>1. n.err = "none" /\ TerminalAt(n, R, o + 2, k)
    BY <1>3, StepPshs4
  <2>2. o + 2 \in 0 .. 109
    BY <1>3
  <2>3. o \notin {5, 32}
    BY <1>3
  <2> QED  BY <1>2, <1>3, <2>1, <2>2, <2>3
<1>4. CASE o \in {38}
  <2>1. n.err = "none" /\ TerminalAt(n, R, o + 2, k)
    BY <1>4, StepPshs6
  <2>2. o + 2 \in 0 .. 109
    BY <1>4
  <2>3. o \notin {5, 32}
    BY <1>4
  <2> QED  BY <1>2, <1>4, <2>1, <2>2, <2>3
<1>5. CASE o \in {2, 12, 17, 29, 42}
  <2>1. n.err = "none" /\ TerminalAt(n, R, o + 2, k)
    BY <1>5, StepLd
  <2>2. o + 2 \in 0 .. 109
    BY <1>5
  <2>3. o \notin {5, 32}
    BY <1>5
  <2> QED  BY <1>2, <1>5, <2>1, <2>2, <2>3
<1>6. CASE o \in {5, 22, 32}
  <2>1. n.err = "none" /\ TerminalAt(n, R, o + 2, k) /\ n.a = m0.b
    BY <1>6, StepTfrBA
  <2>2. o + 2 \in 0 .. 109
    BY <1>6
  <2> QED  BY <1>2, <2>1, <2>2
<1>7. CASE o \in {40}
  <2>1. n.err = "none" /\ TerminalAt(n, R, o + 2, k)
    BY <1>7, StepTfrAB
  <2>2. o + 2 \in 0 .. 109
    BY <1>7
  <2>3. o \notin {5, 32}
    BY <1>7
  <2> QED  BY <1>2, <1>7, <2>1, <2>2, <2>3
<1>8. CASE o \in {7, 20, 24, 34}
  <2>1. n.err = "none" /\ TerminalAt(n, R, o + 2, k)
    BY <1>8, StepPuls4
  <2>2. o + 2 \in 0 .. 109
    BY <1>8
  <2>3. o \notin {5, 32}
    BY <1>8
  <2> QED  BY <1>2, <1>8, <2>1, <2>2, <2>3
<1>9. CASE o \in {45}
  <2>1. n.err = "none" /\ TerminalAt(n, R, o + 2, k)
    BY <1>9, StepPuls6
  <2>2. o + 2 \in 0 .. 109
    BY <1>9
  <2>3. o \notin {5, 32}
    BY <1>9
  <2> QED  BY <1>2, <1>9, <2>1, <2>2, <2>3
<1>10. CASE o \in {36}
  <2>1. n.err = "none" /\ TerminalAt(n, R, o + 1, k)
    BY <1>10, StepTst
  <2>2. o + 1 \in 0 .. 109
    BY <1>10
  <2>3. o \notin {5, 32}
    BY <1>10
  <2> QED  BY <1>2, <1>10, <2>1, <2>2, <2>3
<1>11. CASE o \in {108}
  <2>1. n.err = "opcode" /\ TerminalAt(n, R, o + 1, k)
    BY <1>11, StepNull
  <2>2. o + 1 \in 0 .. 109
    BY <1>11
  <2>3. o \notin {5, 32}
    BY <1>11
  <2> QED  BY <1>2, <1>11, <2>1, <2>2, <2>3
<1>12. CASE o \in {9, 26, 37, 47, 109}
  <2>1. n.err = "none" /\ Returned(n, R, k)
    BY <1>12, StepRts
  <2>2. Offset(n) = 4099 - 62000
    BY <2>1, Numbers DEF Offset, Returned
  <2>3. Offset(n) \notin {4, 14, 31} /\ o \notin {5, 32}
    BY <1>12, <2>2
  <2> QED  BY <2>1, <2>3 DEF Moves
<1>13. CASE o \in {4, 14, 19, 31, 44}
  <2>1. /\ n.err = "swi" /\ Rti(n) \in Machines /\ Code(Rti(n)) /\ n.pc = Rti(n).pc /\ n.a = Rti(n).a
        /\ n.pc = Base + (o + 1) /\ Asking(Rti(n), R, k)
    BY <1>13, StepSwi
  <2>2. Offset(n) = o + 1
    BY <1>1, <2>1, Numbers DEF Offset
  <2>3. o = Offset(n) - 1
    BY <1>1, <2>2
  <2>4. Base + o = m0.pc /\ n.pc = m0.pc + 1
    BY <1>1, <2>1, Numbers
  <2>5. TerminalText(m0)
    BY TerminalReads
  <2>6. Read(m0, Base + o) = 63
    BY <1>13, <2>5 DEF TerminalText
  <2>7. Read(m0, m0.pc - 1) \in {3, 4, 5}
    <3>1. CASE o \in {4, 14}
      <4>1. o - 2 \in {2, 12} /\ Base + (o - 2) + 1 = m0.pc - 1
        BY <1>1, <3>1, Numbers
      <4>2. Read(m0, Base + (o - 2) + 1) = 3
        BY <2>5, <4>1 DEF TerminalText
      <4> QED  BY <4>1, <4>2
    <3>2. CASE o \in {19, 44}
      <4>1. o - 2 \in {17, 42} /\ Base + (o - 2) + 1 = m0.pc - 1
        BY <1>1, <3>2, Numbers
      <4>2. Read(m0, Base + (o - 2) + 1) = 4
        BY <2>5, <4>1 DEF TerminalText
      <4> QED  BY <4>1, <4>2
    <3>3. CASE o = 31
      <4>1. Base + 30 = m0.pc - 1
        BY <1>1, <3>3, Numbers
      <4>2. Read(m0, Base + 30) = 5
        BY <2>5 DEF TerminalText
      <4> QED  BY <4>1, <4>2
    <3> QED  BY <1>13, <3>1, <3>2, <3>3
  <2> QED  BY <2>1, <2>3, <2>4, <2>6, <2>7 DEF Asks
<1> QED  BY <1>3, <1>4, <1>5, <1>6, <1>7, <1>8, <1>9, <1>10, <1>11, <1>12, <1>13

LEMMA DiskSteps ==
  ASSUME NEW m0 \in Machines, Code(m0), NEW R \in DiskOps, NEW k, NEW i \in {0, 2, 4, 6, 8, 9, 11},
         DiskAt(m0, R, i, k), NEW n, n = Execute(m0)
  PROVE  Asks(n, m0, R, k) \/ Moves(n, m0, R, k)
<1>1. Starts[R] \in 48 .. 96
  BY DiskStarts
<1>2. m0.pc = 62000 + (Starts[R] + i) /\ i \in 0 .. 11
  BY Numbers DEF DiskAt
<1>3. Offset(m0) = Starts[R] + i
  BY <1>1, <1>2, Numbers DEF Offset
<1>4. Offset(m0) \notin {5, 32}
  BY <1>1, <1>2, <1>3
<1>5. ASSUME NEW e \in 0 .. 11, DiskAt(n, R, e, k), n.err = "none" PROVE Moves(n, m0, R, k)
  <2>1. n.pc = 62000 + (Starts[R] + e)
    BY <1>5, Numbers DEF DiskAt
  <2>2. Offset(n) = Starts[R] + e
    BY <1>1, <2>1, Numbers DEF Offset
  <2>3. Offset(n) \notin {4, 14, 31}
    BY <1>1, <2>2
  <2>4. Within(n, R, k)
    BY <1>5, DiskWithin
  <2> QED  BY <1>4, <1>5, <2>3, <2>4 DEF Moves
<1>6. CASE i = 0
  <2>1. n.err = "none" /\ DiskAt(n, R, 2, k)
    BY <1>6, StepPushY
  <2>2. 2 \in 0 .. 11
    OBVIOUS
  <2> QED  BY <1>5, <2>1, <2>2
<1>7. CASE i = 2
  <2>1. n.err = "none" /\ DiskAt(n, R, 4, k)
    BY <1>7, StepTfrDY
  <2>2. 4 \in 0 .. 11
    OBVIOUS
  <2> QED  BY <1>5, <2>1, <2>2
<1>8. CASE i = 4
  <2>1. n.err = "none" /\ DiskAt(n, R, 6, k)
    BY <1>8, StepLdB
  <2>2. 6 \in 0 .. 11
    OBVIOUS
  <2> QED  BY <1>5, <2>1, <2>2
<1>9. CASE i = 6
  <2>1. n.err = "none" /\ DiskAt(n, R, 8, k)
    BY <1>9, StepLdA6
  <2>2. 8 \in 0 .. 11
    OBVIOUS
  <2> QED  BY <1>5, <2>1, <2>2
<1>10. CASE i = 9
  <2>1. n.err = "none" /\ DiskAt(n, R, 11, k)
    BY <1>10, StepPullY
  <2>2. 11 \in 0 .. 11
    OBVIOUS
  <2> QED  BY <1>5, <2>1, <2>2
<1>11. CASE i = 11
  <2>1. n.err = "none" /\ Returned(n, R, k)
    BY <1>11, StepBack
  <2>2. Offset(n) = 4099 - 62000
    BY <2>1, Numbers DEF Offset, Returned
  <2>3. Offset(n) \notin {4, 14, 31}
    BY <2>2
  <2> QED  BY <1>4, <2>1, <2>3 DEF Moves
<1>12. CASE i = 8
  <2>1. /\ n.err = "swi" /\ Rti(n) \in Machines /\ Code(Rti(n)) /\ n.pc = Rti(n).pc /\ n.a = Rti(n).a
        /\ n.pc = Base + (Starts[R] + 9) /\ Asking(Rti(n), R, k)
    BY <1>12, StepAsk
  <2>2. n.pc = 62000 + (Starts[R] + 9)
    BY <2>1, Numbers
  <2>3. Offset(n) = Starts[R] + 9
    BY <1>1, <2>2, Numbers DEF Offset
  <2>4. Offset(n) \notin {5, 15, 32}
    BY <1>1, <2>3
  <2>5. (Base + Starts[R]) + 8 = m0.pc /\ (Base + Starts[R]) + 7 = m0.pc - 1 /\ n.pc = m0.pc + 1
    BY <1>1, <1>2, <1>12, <2>2, Numbers
  <2>6. DiskText(m0, R)
    BY DiskReads
  <2>7. Read(m0, m0.pc) = 63 /\ Read(m0, m0.pc - 1) = 6
    BY <2>5, <2>6 DEF DiskText
  <2> QED  BY <2>1, <2>4, <2>5, <2>7 DEF Asks
<1> QED  BY <1>6, <1>7, <1>8, <1>9, <1>10, <1>11, <1>12

LEMMA StepsOn ==
  ASSUME NEW m0 \in Machines, Code(m0), NEW R, NEW k, Within(m0, R, k), NEW n, n = Execute(m0)
  PROVE  Asks(n, m0, R, k) \/ Moves(n, m0, R, k)
<1>1. \/ /\ TerminalAt(m0, R, Offset(m0), k)
         /\ Offset(m0) \in {0, 10, 15, 27, 38, 2, 12, 17, 29, 42, 5, 22, 32, 40, 7, 20, 24, 34, 45,
                            36, 108, 9, 26, 37, 47, 109, 4, 14, 19, 31, 44}
      \/ \E i \in {0, 2, 4, 6, 8, 9, 11} : R \in DiskOps /\ DiskAt(m0, R, i, k)
  BY WithinPlaces
<1> QED  BY <1>1, TerminalSteps, DiskSteps

\* The program stands where it stood.
LEMMA WithinCode ==
  ASSUME NEW n, NEW R, NEW k, Code(k), Within(n, R, k) \/ Returned(n, R, k) \/ Asking(n, R, k)
  PROVE  Code(n)
<1>1. KeepsSector(n, k, R)
  BY RestSector DEF Within, Returned, Asking, InTerminal, InDisk
<1> QED  BY <1>1, SectorAbove, CodeAbove

-----------------------------------------------------------------------------
(* FMS calls a driver, and comes back from it.                             *)

LEMMA CodeOfMemory == ASSUME NEW n, n.mem = Memory PROVE Code(n)
<1> DEFINE f == [i \in Base .. Base + Len(Driver) - 1 |-> Driver[i - Base + 1]]
           g == [i \in Home .. Home + 4 |-> <<189, 0, 0, 32, 251>>[i - Home + 1]]
<1>1. Memory = Over(f, g)
  BY DEF Memory
<1>2. DOMAIN f = 62000 .. 62109 /\ \A i \in 62000 .. 62109 : f[i] = Driver[i - 62000 + 1]
  BY DriverTyped, Numbers
<1>3. DOMAIN g = 4096 .. 4100
  BY Numbers
<1>4. g[4096] = 189 /\ g[4099] = 32 /\ g[4100] = 251
  <2>1. 4096 \in Home .. Home + 4 /\ 4099 \in Home .. Home + 4 /\ 4100 \in Home .. Home + 4
    BY Numbers
  <2>2. 4096 - Home + 1 = 1 /\ 4099 - Home + 1 = 4 /\ 4100 - Home + 1 = 5
    BY Numbers
  <2> QED  BY <2>1, <2>2
<1> HIDE DEF f, g
<1>5. ASSUME NEW i \in 0 .. 109 PROVE Read(n, Base + i) = Driver[i + 1]
  <2>1. Base + i \in 62000 .. 62109 /\ (Base + i) - 62000 + 1 = i + 1
    BY Numbers
  <2>2. Base + i \in DOMAIN Memory /\ Memory[Base + i] = f[Base + i]
    BY <1>1, <1>2, <2>1 DEF Over
  <2> QED  BY <1>2, <2>1, <2>2 DEF Read
<1>6. Read(n, 4096) = 189 /\ Read(n, 4099) = 32 /\ Read(n, 4100) = 251
  <2>1. /\ 4096 \in DOMAIN g /\ 4096 \notin DOMAIN f
        /\ 4099 \in DOMAIN g /\ 4099 \notin DOMAIN f
        /\ 4100 \in DOMAIN g /\ 4100 \notin DOMAIN f
    BY <1>2, <1>3
  <2>2. \A adr \in DOMAIN g : adr \notin DOMAIN f => adr \in DOMAIN Memory /\ Memory[adr] = g[adr]
    BY <1>1 DEF Over
  <2> QED  BY <1>4, <2>1, <2>2 DEF Read
<1>7. Home = 4096 /\ Back = 4099 /\ Back + 1 = 4100
  BY Numbers
<1> QED  BY <1>5, <1>6, <1>7 DEF Code

\* A sector is copied into the memory.
LEMMA CopiedReads ==
  ASSUME NEW m0 \in Machines, NEW adr, NEW block, NEW n, n = Copied(m0, adr, block)
  PROVE  /\ AsIn(n, m0) /\ n.cc = m0.cc /\ n.err = m0.err
         /\ \A a : a \notin {W(adr + i) : i \in 0 .. SectorBytes - 1} => Read(n, a) = Read(m0, a)
<1> DEFINE f == [a \in {W(adr + i) : i \in 0 .. SectorBytes - 1} |-> block[W(a - adr)]]
           g == Over(f, m0.mem)
<1>1. n = [m0 EXCEPT !.mem = g]
  BY DEF Copied
<1>2. DOMAIN f = {W(adr + i) : i \in 0 .. SectorBytes - 1}
  OBVIOUS
<1>3. \A a : a \notin DOMAIN f => (a \in DOMAIN g <=> a \in DOMAIN m0.mem)
  <2> HIDE DEF f
  <2> QED  BY DEF Over
<1>4. \A a \in DOMAIN g : a \notin DOMAIN f => g[a] = m0.mem[a]
  <2> HIDE DEF f
  <2> QED  BY DEF Over
<1> HIDE DEF f, g
<1>5. n.mem = g /\ AsIn(n, m0) /\ n.cc = m0.cc /\ n.err = m0.err
  BY <1>1 DEF AsIn, Regs, Machines
<1>6. \A a : a \notin DOMAIN f => Read(n, a) = Read(m0, a)
  BY <1>3, <1>4, <1>5 DEF Read
<1> QED  BY <1>2, <1>5, <1>6

LEMMA SectorCopied ==
  ASSUME NEW m0 \in Machines, NEW block, NEW n, n = Copied(m0, Buffer, block)
  PROVE  /\ AsIn(n, m0) /\ n.cc = m0.cc /\ n.err = m0.err
         /\ \A a \in Word : a \notin Sector => Read(n, a) = Read(m0, a)
<1>1. \A i \in 0 .. SectorBytes - 1 : W(Buffer + i) = Buffer + i /\ Buffer + i \in Sector
  <2> SUFFICES ASSUME NEW i \in 0 .. SectorBytes - 1
               PROVE  W(Buffer + i) = Buffer + i /\ Buffer + i \in Sector
    OBVIOUS
  <2>1. i \in Int /\ 0 <= i /\ i < 256
    BY Size
  <2> QED  BY <2>1, Numbers, Size DEF W, Sector
<1>2. \A a : a \in {W(Buffer + i) : i \in 0 .. SectorBytes - 1} => a \in Sector
  BY <1>1
<1> QED  BY <1>2, CopiedReads

\* The driver has been entered with m1.
Entered(n, R, m1) ==
  /\ n.err = "none" /\ Within(n, R, m1) /\ Code(n)
  /\ Offset(n) \notin {2, 4, 5, 12, 14, 15, 29, 31, 32}
  /\ R \in DiskOps => Offset(n) = Starts[R]

LEMMA Enters ==
  ASSUME NEW m1 \in Machines, Code(m1), m1.pc = Home, m1.s = Stack, NEW R \in Routine,
         NEW n, n = Execute(WriteW(m1, Home + 1, Entry[R]))
  PROVE  Entered(n, R, m1)
<1> DEFINE e == Entry[R]
           m2 == WriteW(m1, Home + 1, e)
<1>1. e \in Word /\ m2 \in Machines
  BY EntryTyped, EnterTyped
<1>2. 4097 \in Word /\ 4097 + 1 \in Word /\ Home + 1 = 4097
  BY Numbers, SMT DEF Word
<1> HIDE DEF e
<1>3. /\ \A adr : Read(m2, adr) = IF adr = 4097 THEN e \div 256 ELSE IF adr = 4097 + 1 THEN e % 256 ELSE Read(m1, adr)
      /\ AsIn(m2, m1) /\ m2.err = m1.err
  BY <1>1, <1>2, WriteWReads
<1> HIDE DEF m2
<1>4. m2.pc = 4096 /\ m2.s = 2048 /\ Low(m2.pc) /\ Room(m2.s)
  BY <1>3, Numbers DEF AsIn, Regs, Low, Room
<1>5. Read(m2, m2.pc) = 189
  <2>1. Read(m1, 4096) = 189
    BY Numbers DEF Code
  <2> QED  BY <1>3, <1>4, <2>1
<1>6. ReadW(m2, m2.pc + 1) = e
  <2>1. m2.pc + 1 = 4097 /\ W(4097 + 1) = 4098
    BY <1>4, SMT DEF W
  <2>2. Read(m2, 4097) = e \div 256 /\ Read(m2, 4098) = e % 256
    BY <1>3
  <2>3. 256 * (e \div 256) + (e % 256) = e
    BY <1>1, WordInt
  <2> QED  BY <2>1, <2>2, <2>3 DEF ReadW
<1>7. /\ n.err = "none"
      /\ Regs(n, e, 2046, m1.a, m1.b, m1.x, m1.y, m1.u, m1.dp)
      /\ \A adr : Read(n, adr) = IF adr = 2046 THEN 4099 \div 256
                                 ELSE IF adr = 2047 THEN 4099 % 256 ELSE Read(m2, adr)
  <2>1. /\ n.err = "none"
        /\ Regs(n, e, m2.s - 2, m2.a, m2.b, m2.x, m2.y, m2.u, m2.dp)
        /\ \A adr : Read(n, adr) = IF adr = m2.s - 2 THEN (m2.pc + 3) \div 256
                                   ELSE IF adr = m2.s - 1 THEN (m2.pc + 3) % 256 ELSE Read(m2, adr)
    BY <1>1, <1>4, <1>5, <1>6, DoesJsr DEF m2, e
  <2>2. m2.s - 2 = 2046 /\ m2.s - 1 = 2047 /\ m2.pc + 3 = 4099
    BY <1>4
  <2> QED  BY <1>3, <2>1, <2>2 DEF AsIn, Regs
<1>8. Pair(n, Stack - 2) = Back
  <2>1. Read(n, 2046) = 16 /\ Read(n, 2047) = 3
    BY <1>7
  <2> QED  BY <2>1, Numbers DEF Pair
<1>9. KeepsRest(n, m1)
  <2> SUFFICES ASSUME NEW adr \in Word, adr \notin Scratch PROVE Read(n, adr) = Read(m1, adr)
    BY DEF KeepsRest
  <2>1. adr # 4097 /\ adr # 4098 /\ adr # 2046 /\ adr # 2047
    BY ScratchPlaces
  <2> QED  BY <1>3, <1>7, <2>1
<1>10. n.u = m1.u /\ n.dp = m1.dp /\ n.x = m1.x /\ n.y = m1.y /\ n.s = Stack - 2 /\ n.a = m1.a /\ n.b = m1.b /\ n.pc = e
  BY <1>7, Numbers DEF Regs
<1>11. R \in {"inch", "inche", "inchek", "outch", "bad"} \/ R \in DiskOps
  BY DEF Routine, DiskOps
<1>12. CASE R \in {"inch", "inche", "inchek", "outch", "bad"}
  <2>1. PICK o \in {0, 10, 27, 38, 108} : e = Base + o /\ AtPlace(R, o)
    BY <1>12 DEF e, Entry, Base, AtPlace
  <2>2. TerminalFrame(n, o, m1)
    BY <1>10 DEF TerminalFrame
  <2>3. TerminalAt(n, R, o, m1)
    BY <1>8, <1>9, <1>10, <2>1, <2>2 DEF TerminalAt, InTerminal
  <2>4. Offset(n) = o /\ Within(n, R, m1)
    <3>1. o \in 0 .. 109
      OBVIOUS
    <3> QED  BY ONLY <2>3, <3>1, TerminalWithin, Zenon
  <2>5. R \notin DiskOps
    BY <1>12 DEF DiskOps
  <2> QED  BY <1>7, <2>4, <2>5, WithinCode DEF Entered
<1>13. CASE R \in DiskOps
  <2>1. e = Base + (Starts[R] + 0) /\ Starts[R] \in {48, 60, 72, 84, 96}
    BY <1>13 DEF e, Entry, DiskOps, Starts, Base
  <2>2. InDisk(n, R, 0, m1)
    BY <1>9, <1>10 DEF InDisk, DiskFrame, D
  <2>3. DiskAt(n, R, 0, m1)
    BY <1>8, <1>10, <1>13, <2>1, <2>2 DEF DiskAt
  <2>4. Offset(n) - Starts[R] = 0 /\ Within(n, R, m1)
    BY <2>3, DiskWithin
  <2>5. Offset(n) = Starts[R]
    BY <1>10, <2>1, Numbers DEF Offset
  <2> QED  BY <1>7, <2>1, <2>4, <2>5, WithinCode DEF Entered
<1> QED  BY <1>11, <1>12, <1>13

\* The branch behind the JSR.
LEMMA Branches ==
  ASSUME NEW m0 \in Machines, Code(m0), m0.pc = Back, NEW n, n = Execute(m0)
  PROVE  n.err = "none" /\ n.pc = Home /\ n.s = m0.s /\ Code(n) /\ SameMemory(n, m0)
<1>1. m0.pc = 4099 /\ Low(m0.pc)
  BY Numbers DEF Low
<1>2. Read(m0, m0.pc) = 32 /\ Read(m0, m0.pc + 1) = 251
  BY DEF Code
<1>3. /\ n.err = "none" /\ SameMemory(n, m0)
      /\ Regs(n, W(m0.pc + 2 + Ext8(251)), m0.s, m0.a, m0.b, m0.x, m0.y, m0.u, m0.dp)
  BY <1>1, <1>2, DoesBra
<1>4. W(m0.pc + 2 + Ext8(251)) = 4096
  BY <1>1, SMT DEF W, Ext8
<1>5. Code(n)
  BY <1>3, SameStack, OnlyStack
<1> QED  BY <1>3, <1>4, <1>5, Numbers DEF Regs

-----------------------------------------------------------------------------
(* The invariant, action by action.  The bits of a break point are taken   *)
(* for those of a number.                                                  *)

Framed == Frame /\ Caller /\ Notice /\ \A adr : Brk(adr) \in Int

\* Break points are where the user has put them.
BreaksKept == (\A adr : Brk(adr)' % 4 = 2 => adr \in Traceable) /\ \A adr : Brk(adr)' \in Int

LEMMA WithBrkGives ==
  ASSUME NEW a, NEW v, brkbuf' = WithBrk(a, v)
  PROVE  \A adr : Brk(adr)' = IF adr = a THEN v ELSE Brk(adr)
<1> DEFINE others == [b \in DOMAIN brkbuf \ {a} |-> brkbuf[b]]
<1>1. CASE v = 0
  <2>1. brkbuf' = others
    BY <1>1 DEF WithBrk
  <2> QED  BY <1>1, <2>1 DEF Brk
<1>2. CASE v # 0
  <2>1. brkbuf' = Over([b \in {a} |-> v], others)
    BY <1>2 DEF WithBrk
  <2>2. /\ DOMAIN brkbuf' = {a} \cup (DOMAIN brkbuf \ {a})
        /\ \A b \in DOMAIN brkbuf' : brkbuf'[b] = IF b = a THEN v ELSE brkbuf[b]
    BY <2>1 DEF Over
  <2> QED  BY <2>2 DEF Brk
<1> QED  BY <1>1, <1>2

LEMMA BreaksStay == ASSUME Framed, brkbuf' = brkbuf PROVE BreaksKept
  BY DEF Framed, Notice, Brk, BreaksKept

\* Where a key cannot do harm.
Open == {2, 4, 5, 12, 14, 15, 29, 31, 32}

LEMMA Quiet == ASSUME BreaksKept, bkeyin' = 0, Offset(m)' \notin Open PROVE Notice'
  BY DEF Notice, Open, BreaksKept

LEMMA WithinAbove == ASSUME NEW n \in Machines, NEW R, NEW k, Within(n, R, k) PROVE n.pc >= 62000
<1>1. CASE TerminalAt(n, R, Offset(n), k) /\ Offset(n) \in 0 .. 109
  BY <1>1, Numbers DEF TerminalAt
<1>2. CASE \E i \in {0, 2, 4, 6, 8, 9, 11} : R \in DiskOps /\ DiskAt(n, R, i, k)
  <2>1. PICK i \in {0, 2, 4, 6, 8, 9, 11} : R \in DiskOps /\ n.pc = Base + (Starts[R] + i)
    BY <1>2 DEF DiskAt
  <2>2. Starts[R] \in 48 .. 96
    BY <2>1, DiskStarts
  <2> QED  BY <2>1, <2>2, Numbers
<1>3. \A o \in {0, 10, 15, 27, 38, 2, 12, 17, 29, 42, 5, 22, 32, 40, 7, 20, 24, 34, 45,
                36, 108, 9, 26, 37, 47, 109, 4, 14, 19, 31, 44} : o \in 0 .. 109
  OBVIOUS
<1> QED  BY <1>1, <1>2, <1>3, WithinPlaces

\* FMS runs.
LEMMA AtHome ==
  ASSUME Types, Framed, phase = "run", m.pc = Home
  PROVE  Code(m) /\ Idle(m) /\ bkeyin = 0
<1>1. m \in Machines /\ Sound(m)
  BY DEF Types, Framed, Frame
<1>2. m.pc = 4096 /\ Back = 4099
  BY Numbers
<1>3. ~Returned(m, Running, saved) /\ ~Within(m, Running, saved)
  BY <1>1, <1>2, WithinAbove DEF Returned
<1>4. Offset(m) \notin {5, 32}
  BY <1>2, Numbers DEF Offset
<1>5. bkeyin = 0
  BY <1>4 DEF Framed, Notice
<1> QED  BY <1>1, <1>3, <1>5 DEF Sound

LEMMA AtBack ==
  ASSUME Types, Framed, phase = "run", m.pc = Back
  PROVE  Code(m) /\ Returned(m, Running, saved) /\ stage # "none" /\ bkeyin = 0
<1>1. m \in Machines /\ Sound(m)
  BY DEF Types, Framed, Frame
<1>2. m.pc = 4099 /\ Home = 4096
  BY Numbers
<1>3. ~Idle(m) /\ ~Within(m, Running, saved)
  BY <1>1, <1>2, WithinAbove DEF Idle
<1>4. Offset(m) \notin {5, 32}
  BY <1>2, Numbers DEF Offset
<1>5. bkeyin = 0
  BY <1>4 DEF Framed, Notice
<1> QED  BY <1>1, <1>3, <1>5 DEF Sound

LEMMA StepGives ==
  ASSUME NEW m0, Step(m0), phase = "run"
  PROVE  /\ m' = Execute(m0) /\ bkeyin' = bkeyin /\ brkbuf' = brkbuf /\ command' = command
         /\ \/ m'.err = "swi" /\ phase' = "swi" /\ prepc' = prepc /\ active' = active /\ step' = step
            \/ m'.err # "swi" /\ phase' = "tail" /\ prepc' = prepc
               /\ (active' \/ Brk(m'.pc) # 0 \/ (bkeyin # 0 /\ m'.err = "none"))
            \/ m'.err = "none" /\ phase' = "run" /\ prepc' = m'.pc /\ bkeyin = 0 /\ Brk(m'.pc) = 0
               /\ active' = active /\ step' = step /\ ~active
<1>1. m' = Execute(m0) /\ bkeyin' = bkeyin /\ brkbuf' = brkbuf /\ command' = command
  BY DEF Step
<1>2. CASE m'.err = "swi"
  BY <1>1, <1>2 DEF Step
<1>3. CASE m'.err \notin {"none", "swi"}
  BY <1>1, <1>3 DEF Step
<1>4. CASE m'.err = "none" /\ ~active /\ Brk(m'.pc) = 0 /\ bkeyin = 0
  BY <1>1, <1>4, Zenon DEF Step
<1>5. CASE m'.err = "none" /\ (active \/ Brk(m'.pc) # 0 \/ bkeyin # 0)
  BY <1>1, <1>5, Zenon DEF Step
<1> QED  BY <1>1, <1>2, <1>3, <1>4, <1>5

\* A driver is called.
LEMMA EnterFramed ==
  ASSUME Types, Framed, phase = "run", m.pc = Home, NEW R \in Routine, NEW m1 \in Machines,
         Code(m1), m1.pc = Home, m1.s = Stack, Enter(R, m1), Running' = R, stage' # "none", Caller'
  PROVE  Framed' /\ phase' # "swi"
<1>1. bkeyin = 0
  BY AtHome
<1>2. Step(WriteW(m1, Home + 1, Entry[R])) /\ saved' = m1
  BY DEF Enter
<1>3. m' = Execute(WriteW(m1, Home + 1, Entry[R])) /\ bkeyin' = 0 /\ brkbuf' = brkbuf
  BY <1>1, <1>2, StepGives
<1>4. Entered(m', R, m1)
  BY <1>3, Enters
<1>5. phase' # "swi"
  BY <1>2, <1>4, StepGives DEF Entered
<1>6. Frame'
  <2>1. Code(m)' /\ Within(m, Running, saved)'
    BY <1>2, <1>4 DEF Entered
  <2>2. Sound(m)'
    BY <2>1 DEF Sound
  <2> QED  BY <1>5, <2>2 DEF Frame
<1>7. BreaksKept
  BY <1>3, BreaksStay
<1>8. Notice'
  <2>1. Offset(m)' \notin Open
    BY <1>4 DEF Entered, Open, Offset
  <2> QED  BY <1>3, <1>7, <2>1, Quiet
<1> QED  BY <1>5, <1>6, <1>7, <1>8 DEF Framed, BreaksKept

-----------------------------------------------------------------------------
(* FMS calls, and comes back.                                              *)

LEMMA FcbCode ==
  ASSUME NEW m0 \in Machines, Code(m0), NEW v, NEW n, n = Write([m0 EXCEPT !.x = Fcb], Fcb + 3, v)
  PROVE  Code(n) /\ n.pc = m0.pc /\ n.s = m0.s
<1> DEFINE l == [m0 EXCEPT !.x = Fcb]
<1>1. l \in Machines
  <2>1. Fcb \in Word
    BY SMT DEF Fcb, Word
  <2> QED  BY <2>1, OtherSet
<1>2. l.pc = m0.pc /\ l.s = m0.s /\ l.mem = m0.mem
  BY DEF Machines
<1>3. Code(l)
  BY <1>2 DEF Code, Read
<1> HIDE DEF l
<1>4. /\ \A adr : Read(n, adr) = IF adr = Fcb + 3 THEN v ELSE Read(l, adr)
      /\ n.pc = l.pc /\ n.s = l.s
  <2>1. n = Write(l, Fcb + 3, v)
    BY DEF l
  <2> HIDE DEF l
  <2> QED  BY <1>1, <2>1, WriteReads DEF AsIn, Regs
<1>5. Above(n, l)
  <2> SUFFICES ASSUME NEW adr \in Word, adr = 4096 \/ adr >= 4099 PROVE Read(n, adr) = Read(l, adr)
    BY DEF Above
  <2>1. adr # Fcb + 3
    BY Numbers, WordInt
  <2> QED  BY <1>4, <2>1
<1> QED  BY <1>2, <1>3, <1>4, <1>5, CodeAbove

LEMMA BufferCode ==
  ASSUME NEW m0 \in Machines, Code(m0), NEW block, NEW n, n = Copied(m0, Buffer, block)
  PROVE  Code(n) /\ n.pc = m0.pc /\ n.s = m0.s
<1>1. AsIn(n, m0) /\ \A a \in Word : a \notin Sector => Read(n, a) = Read(m0, a)
  BY SectorCopied
<1>2. Above(n, m0)
  <2> SUFFICES ASSUME NEW adr \in Word, adr = 4096 \/ adr >= 4099 PROVE Read(n, adr) = Read(m0, adr)
    BY DEF Above
  <2>1. adr \notin Sector
    BY ScratchPlaces, WordInt
  <2> QED  BY <1>1, <2>1
<1> QED  BY <1>1, <1>2, CodeAbove DEF AsIn, Regs

LEMMA CallFramed == ASSUME Types, Framed, Call PROVE Framed' /\ phase' # "swi"
<1>1. PICK q \in Services : (Select(q) \/ Single(q)) /\ call' = q
  BY DEF Call
<1>2. phase = "run" /\ m.pc = Home
  BY DEF Call
<1>3. Code(m) /\ m.s = Stack /\ m \in Machines
  BY <1>2, AtHome DEF Idle, Types
<1>4. q.op \in Routine
  BY <1>1, ServiceTyped
<1>5. CASE Select(q)
  <2> DEFINE m1 == Write([m EXCEPT !.x = Fcb], Fcb + 3, q.sector[1])
             block == [i \in 0 .. SectorBytes - 1 |-> (Pattern[q.value] + i) % 256]
             m2 == IF q.op = "read" THEN m1 ELSE Copied(m1, Buffer, block)
  <2>1. IsDisk(q) /\ Enter("drive", m2) /\ stage' = "select"
    BY <1>5 DEF Select
  <2>2. q.sector[1] \in Byte
    BY <2>1, ServiceTyped
  <2>3. m1 \in Machines /\ Code(m1) /\ m1.pc = Home /\ m1.s = Stack
    <3>1. m1 \in Machines
      BY <2>2, FcbWritten
    <3> QED  BY <1>2, <1>3, <3>1, FcbCode
  <2>4. q.op # "read" => block \in Blocks
    <3> SUFFICES ASSUME q.op # "read" PROVE block \in Blocks
      OBVIOUS
    <3>1. q.op = "write"
      BY <2>1 DEF IsDisk
    <3>2. Pattern[q.value] \in Int
      BY <3>1, ServiceTyped, ByteInt
    <3>3. \A i \in 0 .. SectorBytes - 1 : (Pattern[q.value] + i) % 256 \in Byte
      BY <3>2, ModByte
    <3> QED  BY <3>3 DEF Blocks
  <2>5. m2 \in Machines
    <3>1. Buffer \in Word
      BY SMT DEF Buffer, Word
    <3> HIDE DEF m1, block
    <3> QED  BY <2>3, <2>4, <3>1, CopiedTyped
  <2>6. Code(m2) /\ m2.pc = Home /\ m2.s = Stack
    <3> HIDE DEF m1, block
    <3> QED  BY <2>3, BufferCode
  <2> HIDE DEF m2
  <2>7. "drive" \in Routine /\ Running' = "drive" /\ saved' = m2
    BY <2>1 DEF Routine, Running, Enter
  <2>8. Caller'
    BY <1>1, <2>1, <2>6, <2>7 DEF Caller
  <2> QED  BY <1>2, <2>1, <2>5, <2>6, <2>7, <2>8, EnterFramed
<1>6. CASE Single(q)
  <2> DEFINE m2 == CASE q.op = "outch"  -> [m EXCEPT !.a = q.char]
                     [] q.op = "chkrdy" -> Write([m EXCEPT !.x = Fcb], Fcb + 3, q.drive)
                     [] OTHER           -> m
  <2>1. Enter(q.op, m2) /\ stage' = "transfer" /\ ~IsDisk(q)
    BY <1>6 DEF Single
  <2>2. m2 \in Machines /\ Code(m2) /\ m2.pc = Home /\ m2.s = Stack
    <3>1. CASE q.op = "outch"
      <4>1. m2 = [m EXCEPT !.a = q.char]
        BY <3>1
      <4>2. m2 \in Machines
        BY <3>1, <4>1, ServiceTyped, OtherSet DEF Types
      <4> HIDE DEF m2
      <4>3. m2.mem = m.mem /\ m2.pc = m.pc /\ m2.s = m.s
        BY <1>3, <4>1 DEF Machines
      <4>4. Code(m2)
        BY <1>3, <4>3 DEF Code, Read
      <4> QED  BY <1>2, <1>3, <4>2, <4>3, <4>4
    <3>2. CASE q.op = "chkrdy"
      <4>1. m2 = Write([m EXCEPT !.x = Fcb], Fcb + 3, q.drive)
        BY <3>2
      <4>2. m2 \in Machines
        BY <3>2, <4>1, ServiceTyped, FcbWritten
      <4> HIDE DEF m2
      <4>3. Code(m2) /\ m2.pc = m.pc /\ m2.s = m.s
        BY <1>3, <4>1, FcbCode
      <4> QED  BY <1>2, <1>3, <4>2, <4>3
    <3>3. CASE q.op \notin {"outch", "chkrdy"}
      BY <1>2, <1>3, <3>3
    <3> HIDE DEF m2
    <3> QED  BY <3>1, <3>2, <3>3
  <2> HIDE DEF m2
  <2>3. Running' = q.op /\ saved' = m2
    BY <1>1, <2>1 DEF Running, Enter
  <2>4. Caller'
    BY <1>1, <2>1, <2>2, <2>3 DEF Caller
  <2> QED  BY <1>2, <1>4, <2>1, <2>2, <2>3, <2>4, EnterFramed
<1> QED  BY <1>1, <1>5, <1>6

LEMMA TransferFramed == ASSUME Types, Framed, Transfer PROVE Framed' /\ phase' # "swi"
<1> DEFINE m1 == [m EXCEPT !.x = Buffer]
           m2 == [m1 EXCEPT !.a = call.sector[2]]
           m3 == [m2 EXCEPT !.b = call.sector[3]]
<1>1. /\ phase = "run" /\ m.pc = Home /\ stage = "select" /\ stage' = "transfer" /\ call' = call
      /\ call \in Services /\ IsDisk(call)
  BY DEF Transfer, Types
<1>2. call.op \in Routine /\ call.sector[2] \in Byte /\ call.sector[3] \in Byte
  BY <1>1, ServiceTyped
<1>3. Code(m) /\ m.s = Stack /\ m \in Machines
  BY <1>1, AtHome DEF Idle, Types
<1>4. m1 \in Machines /\ m1.mem = m.mem /\ m1.pc = m.pc /\ m1.s = m.s /\ m1.x = Buffer
  <2>1. Buffer \in Word
    BY SMT DEF Buffer, Word
  <2> QED  BY <1>3, <2>1, OtherSet DEF Machines
<1>5. m2 \in Machines /\ m2.mem = m.mem /\ m2.pc = m.pc /\ m2.s = m.s /\ m2.x = Buffer
  <2> HIDE DEF m1
  <2> QED  BY <1>2, <1>4, OtherSet DEF Machines
<1>6. m3 \in Machines /\ m3.mem = m.mem /\ m3.pc = m.pc /\ m3.s = m.s /\ m3.x = Buffer
  <2> HIDE DEF m2
  <2> QED  BY <1>2, <1>5, OtherSet DEF Machines
<1>7. Enter(call.op, m3)
  <2>1. [m EXCEPT !.x = Buffer, !.a = call.sector[2], !.b = call.sector[3]] = m3
    BY SMT
  <2> HIDE DEF m3
  <2> QED  BY <2>1 DEF Transfer
<1> HIDE DEF m3
<1>8. Code(m3)
  BY <1>3, <1>6 DEF Code, Read
<1>9. Running' = call.op /\ saved' = m3
  BY <1>1, <1>7 DEF Running, Enter
<1>10. Caller'
  BY <1>1, <1>3, <1>6, <1>8, <1>9 DEF Caller
<1> QED  BY <1>1, <1>2, <1>3, <1>6, <1>7, <1>8, <1>9, <1>10, EnterFramed

LEMMA ReturnFramed == ASSUME Types, Framed, Return PROVE Framed' /\ phase' # "swi"
<1> DEFINE m0 == IF stage = "select" THEN m ELSE Own(m)
<1>1. phase = "run" /\ m.pc = Back /\ Step(m0)
  BY DEF Return
<1>2. m \in Machines /\ Code(m) /\ m.s = Stack /\ bkeyin = 0
  BY <1>1, AtBack DEF Types, Returned
<1>3. Own(m) \in Machines /\ Own(m).pc = m.pc /\ Own(m).s = m.s /\ Code(Own(m))
  <2>1. Own(m) \in Machines
    BY <1>2, OwnTyped
  <2>2. Own(m).mem = Memory /\ Own(m).pc = m.pc /\ Own(m).s = m.s
    BY DEF Own, PowerOn
  <2> QED  BY <2>1, <2>2, CodeOfMemory
<1>4. m0 \in Machines /\ Code(m0) /\ m0.pc = Back /\ m0.s = Stack
  BY <1>1, <1>2, <1>3
<1> HIDE DEF m0
<1>5. m' = Execute(m0) /\ bkeyin' = 0 /\ brkbuf' = brkbuf
  BY <1>1, <1>2, StepGives
<1>6. m'.err = "none" /\ m'.pc = Home /\ m'.s = Stack /\ Code(m')
  BY <1>4, <1>5, Branches
<1>7. phase' # "swi"
  BY <1>1, <1>6, StepGives
<1>8. Caller' /\ stage' \in {"none", "select"}
  <2>1. CASE stage = "select"
    BY <2>1 DEF Return, Framed, Caller, IsDisk
  <2>2. CASE stage # "select"
    <3>1. stage' = "none" /\ call' = None
      BY <2>2 DEF Return
    <3> QED  BY <3>1 DEF Caller
  <2> QED  BY <2>1, <2>2
<1>9. Sound(m)'
  <2>1. Code(m)' /\ Idle(m)'
    BY <1>6, <1>8 DEF Idle
  <2> QED  BY <2>1 DEF Sound
<1>10. BreaksKept
  BY <1>5, BreaksStay
<1>11. Offset(m)' \notin Open
  BY <1>6, Numbers DEF Offset, Open
<1>12. Notice'
  BY <1>5, <1>10, <1>11, Quiet
<1> QED  BY <1>7, <1>8, <1>9, <1>10, <1>12 DEF Framed, Frame, BreaksKept

-----------------------------------------------------------------------------
(* A driver runs, and the host answers it.                                 *)

LEMMA InDriver ==
  ASSUME Types, Framed, phase # "swi", m.pc \notin {Home, Back}
  PROVE  m \in Machines /\ Code(m) /\ stage # "none" /\ Within(m, Running, saved) /\ Code(saved)
<1>1. m \in Machines /\ Sound(m) /\ Caller
  BY DEF Types, Framed, Frame
<1>2. ~Idle(m) /\ ~Returned(m, Running, saved)
  BY DEF Idle, Returned
<1> QED  BY <1>1, <1>2 DEF Sound, Caller

\* The instruction behind the interrupt for a key takes no interrupt itself.
LEMMA KeyMoved ==
  ASSUME NEW m0 \in Machines, Code(m0), NEW R, NEW k, Within(m0, R, k), Offset(m0) \in {5, 32},
         NEW n, n = Execute(m0)
  PROVE  n.err = "none"
<1>1. CASE TerminalAt(m0, R, Offset(m0), k)
  <2> DEFINE o == Offset(m0)
  <2>1. TerminalAt(m0, R, o, k) /\ o \in {5, 22, 32}
    BY <1>1
  <2> HIDE DEF o
  <2> QED  BY <2>1, StepTfrBA
<1>2. CASE \E i \in {0, 2, 4, 6, 8, 9, 11} : R \in DiskOps /\ DiskAt(m0, R, i, k)
  <2>1. PICK i \in {0, 2, 4, 6, 8, 9, 11} : R \in DiskOps /\ m0.pc = Base + (Starts[R] + i)
    BY <1>2 DEF DiskAt
  <2>2. Starts[R] \in 48 .. 96
    BY <2>1, DiskStarts
  <2>3. Offset(m0) >= 48
    BY <2>1, <2>2, Numbers DEF Offset
  <2> QED  BY <2>3
<1> QED  BY <1>1, <1>2, WithinPlaces

LEMMA InstructionFramed == ASSUME Types, Framed, TracesApart, Instruction PROVE Framed'
<1>1. phase = "run" /\ Step(m) /\ stage' = stage /\ call' = call /\ saved' = saved
  BY DEF Instruction
<1>2. m \in Machines /\ Code(m) /\ stage # "none" /\ Within(m, Running, saved) /\ Code(saved)
  BY <1>1, InDriver DEF Instruction
<1>3. m' = Execute(m) /\ bkeyin' = bkeyin /\ brkbuf' = brkbuf
  BY <1>1, StepGives
<1>4. Running' = Running /\ Caller'
  BY <1>1 DEF Running, Framed, Caller, IsDisk
<1>5. BreaksKept
  BY <1>3, BreaksStay
<1>6. m.pc \in Int /\ m'.pc \in Int /\ prepc \in Int
  <2>1. m' \in Machines
    BY <1>2, <1>3, ExecuteTyped
  <2> QED  BY <1>2, <2>1, Fields, WordInt DEF Types
<1> DEFINE o == Offset(m)
           p == Offset(m')
<1>7. m.pc = 62000 + o /\ m'.pc = 62000 + p /\ o \in Int /\ p \in Int
  BY <1>6, Numbers DEF Offset
<1>8. p = Offset(m)'
  BY DEF Offset
<1> HIDE DEF o, p
<1>9. CASE Asks(m', m, Running, saved)
  <2>1. phase' = "swi" /\ prepc' = prepc
    BY <1>1, <1>9, StepGives DEF Asks
  <2>2. bkeyin = 0
    <3>1. o \notin {5, 32}
      BY <1>2, <1>3, <1>9, KeyMoved DEF Asks, o
    <3> QED  BY <1>1, <3>1 DEF Framed, Notice, o
  <2>3. Host'
    <3>1. /\ m'.pc = Rti(m').pc /\ m'.a = Rti(m').a /\ Code(Rti(m')) /\ Asking(Rti(m'), Running', saved')
      BY <1>1, <1>4, <1>9 DEF Asks
    <3>2. stage' # "none" /\ bkeyin' = 0
      BY <1>1, <1>2, <1>3, <2>2
    <3> QED  BY <3>1, <3>2 DEF Host
  <2>4. p \in {5, 15, 32} => prepc' - Base \in {p - 1, p - 3}
    <3> SUFFICES ASSUME p \in {5, 15, 32} PROVE prepc' - Base \in {p - 1, p - 3}
      OBVIOUS
    <3>1. o = p - 1
      BY <1>9 DEF Asks, o, p
    <3>2. o \in {4, 14, 31}
      BY <3>1
    <3>3. prepc = m.pc \/ prepc = m.pc - 2
      BY <1>1, <3>2 DEF Framed, Notice, o
    <3>4. prepc - Base \in {p - 1, p - 3}
      BY <1>6, <1>7, <3>1, <3>3, Numbers
    <3> QED  BY <2>1, <3>4
  <2>5. Notice'
    BY <1>3, <1>5, <1>8, <2>1, <2>2, <2>4 DEF Notice, BreaksKept, Before, Offset
  <2> QED  BY <1>4, <1>5, <2>1, <2>3, <2>5 DEF Framed, Frame, BreaksKept
<1>10. CASE Moves(m', m, Running, saved)
  <2>1. phase' \in {"tail", "run"}
    BY <1>1, <1>10, StepGives DEF Moves
  <2>2. Sound(m)'
    <3>1. Code(m')
      BY <1>2, <1>10, WithinCode DEF Moves
    <3>2. Code(m)' /\ stage' # "none" /\ (Returned(m, Running, saved)' \/ Within(m, Running, saved)')
      BY <1>1, <1>2, <1>4, <1>10, <3>1 DEF Moves
    <3> QED  BY <3>2 DEF Sound
  <2>3. CASE bkeyin # 0
    <3>1. /\ o \in {5, 32} /\ m.pc \in Traceable /\ m.b # 6
          /\ (Before(o) \/ prepc = m.pc)
      BY <1>1, <2>3 DEF Framed, Notice, o
    <3>2. m'.pc = m.pc + 2 /\ m'.a = m.b
      BY <1>10, <3>1 DEF Moves, o
    <3>3. phase' = "tail" /\ prepc' = prepc
      BY <1>1, <2>1, <2>3, StepGives
    <3>4. p = o + 2 /\ p \in {7, 34}
      BY <1>7, <3>1, <3>2
    <3>5. m'.pc \notin Traceable
      <4>1. m.pc \in {Base + 5, Base + 32}
        BY <1>7, <3>1, Numbers
      <4> QED  BY <3>1, <3>2, <4>1 DEF TracesApart
    <3>6. prepc - Base \in {(p - 2) - 1, (p - 2) - 3} \/ prepc = m'.pc - 2
      <4>1. p - 2 = o /\ m'.pc - 2 = m.pc
        BY <1>6, <1>7, <3>2, <3>4
      <4> QED  BY <3>1, <4>1 DEF Before
    <3>7. Notice'
      BY <1>3, <1>5, <1>8, <2>3, <3>1, <3>2, <3>3, <3>4, <3>5, <3>6 DEF Notice, BreaksKept, Before
    <3> QED  BY <1>4, <1>5, <2>1, <2>2, <3>7 DEF Framed, Frame, BreaksKept
  <2>4. CASE bkeyin = 0 /\ phase' = "run"
    <3>1. prepc' = m'.pc
      BY <1>1, <2>4, StepGives
    <3>2. Notice'
      BY <1>3, <1>5, <2>4, <3>1 DEF Notice, BreaksKept
    <3> QED  BY <1>4, <1>5, <2>1, <2>2, <3>2 DEF Framed, Frame, BreaksKept
  <2>5. CASE bkeyin = 0 /\ phase' = "tail"
    <3>1. prepc' = prepc /\ (active' \/ Brk(m'.pc) # 0)
      BY <1>1, <2>5, StepGives
    <3>2. Brk(m.pc)' = Brk(m'.pc)
      BY <1>3 DEF Brk
    <3>3. p \in {4, 14, 31} => prepc = m'.pc - 2 \/ m'.pc - 2 \in Traceable
      <4> SUFFICES ASSUME p \in {4, 14, 31} PROVE prepc = m'.pc - 2 \/ m'.pc - 2 \in Traceable
        OBVIOUS
      <4>1. m.pc = m'.pc - 2
        BY <1>10 DEF Moves, p
      <4>2. o \in {2, 12, 29}
        BY <1>7, <4>1
      <4>3. prepc = m.pc \/ m.pc \in Traceable
        BY <1>1, <4>2 DEF Framed, Notice, o
      <4> QED  BY <4>1, <4>3
    <3>4. Notice'
      BY <1>3, <1>5, <1>8, <2>5, <3>1, <3>2, <3>3 DEF Notice, BreaksKept
    <3> QED  BY <1>4, <1>5, <2>1, <2>2, <3>4 DEF Framed, Frame, BreaksKept
  <2> QED  BY <2>1, <2>3, <2>4, <2>5
<1> QED  BY <1>2, <1>3, <1>9, <1>10, StepsOn

\* A key goes into B, where the driver fetches it.
LEMMA KeyHanded ==
  ASSUME NEW n \in Machines, NEW R, NEW k, Code(n), Asking(n, R, k), n.a \notin {4, 6}, NEW v \in Byte,
         NEW l, l = [n EXCEPT !.b = v]
  PROVE  /\ Code(l) /\ Within(l, R, k)
         /\ l.pc = n.pc /\ l.a = n.a /\ l.b = v /\ Offset(l) \in {5, 15, 32}
<1>1. /\ AtPlace(R, Offset(n)) /\ Offset(n) \in {5, 15, 32} /\ InTerminal(n, Offset(n), k)
      /\ n.u = k.u /\ n.dp = k.dp /\ Pair(n, Stack - 2) = Back
  BY DEF Asking, DiskFrame, Swis
<1>2. /\ l.pc = n.pc /\ l.a = n.a /\ l.b = v /\ l.mem = n.mem /\ l.s = n.s /\ l.x = n.x /\ l.y = n.y
      /\ l.u = n.u /\ l.dp = n.dp
  BY DEF Machines
<1>3. \A adr : Read(l, adr) = Read(n, adr)
  BY <1>2 DEF Read
<1>4. Offset(l) = Offset(n) /\ Code(l) /\ Pair(l, Stack - 2) = Back
  BY <1>1, <1>2, <1>3 DEF Offset, Code, Pair
<1>5. KeepsRest(l, k)
  BY <1>1, <1>3 DEF InTerminal, KeepsRest
<1>6. TerminalFrame(l, Offset(l), k)
  BY <1>1, <1>2, <1>3, <1>4 DEF InTerminal, TerminalFrame
<1>7. InTerminal(l, Offset(l), k)
  BY <1>1, <1>2, <1>4, <1>5, <1>6 DEF InTerminal
<1> QED  BY <1>1, <1>2, <1>4, <1>7 DEF Within

\* Nothing but the stack and the sector is known of what the host leaves.
LEMMA HostDone ==
  ASSUME NEW n \in Machines, NEW R \in DiskOps, NEW k, Code(n), Asking(n, R, k), n.a = 6,
         NEW l, l.pc = n.pc, l.s = n.s, l.u = n.u, l.dp = n.dp,
         \A adr \in Word : adr \notin Sector \/ R # "read" => Read(l, adr) = Read(n, adr)
  PROVE  Code(l) /\ Within(l, R, k) /\ Offset(l) \notin Open
<1>1. /\ n.u = k.u /\ n.dp = k.dp /\ Pair(n, Stack - 2) = Back
      /\ Offset(n) - Starts[R] = 9 /\ KeepsRest(n, k) /\ n.s = Stack - 4 /\ Pair(n, Stack - 4) = k.y
  BY DEF Asking, DiskFrame
<1>2. Above(l, n)
  <2> SUFFICES ASSUME NEW adr \in Word, adr = 4096 \/ adr >= 4099 PROVE Read(l, adr) = Read(n, adr)
    BY DEF Above
  <2>1. adr \notin Sector
    BY ScratchPlaces, WordInt
  <2> QED  BY <2>1
<1>3. \A adr \in {2044, 2045, 2046, 2047} : Read(l, adr) = Read(n, adr)
  <2> SUFFICES ASSUME NEW adr \in {2044, 2045, 2046, 2047} PROVE Read(l, adr) = Read(n, adr)
    OBVIOUS
  <2>1. adr \in Word
    BY SMT DEF Word
  <2>2. adr \notin Sector
    BY <2>1, ScratchPlaces
  <2> QED  BY <2>1, <2>2
<1>4. Pair(l, Stack - 2) = Back /\ Pair(l, Stack - 4) = k.y
  <2>1. /\ Stack - 2 = 2046 /\ (Stack - 2) + 1 = 2047
        /\ Stack - 4 = 2044 /\ (Stack - 4) + 1 = 2045
    BY Numbers
  <2>2. Pair(l, 2046) = Pair(n, 2046) /\ Pair(l, 2044) = Pair(n, 2044)
    BY <1>3 DEF Pair
  <2> QED  BY <1>1, <2>1, <2>2
<1>5. KeepsSector(l, k, R)
  <2> SUFFICES ASSUME NEW adr \in Word, adr \notin Scratch, R = "read" => adr \notin Sector
               PROVE  Read(l, adr) = Read(k, adr)
    BY DEF KeepsSector
  <2>1. Read(l, adr) = Read(n, adr)
    OBVIOUS
  <2> QED  BY <1>1, <2>1 DEF KeepsRest
<1>6. Offset(l) = Offset(n) /\ n.pc \in Int
  BY Fields, WordInt DEF Offset
<1>7. Offset(l) - Starts[R] = 9
  BY <1>1, <1>6
<1>8. Within(l, R, k)
  BY <1>1, <1>4, <1>5, <1>7 DEF Within, InDisk
<1>9. Offset(l) \notin Open
  <2>1. Starts[R] \in 48 .. 96 /\ Offset(l) \in Int
    BY <1>6, DiskStarts, Numbers DEF Offset
  <2>2. Offset(l) > 32
    BY <1>7, <2>1
  <2> QED  BY <2>2 DEF Open
<1> QED  BY <1>2, <1>8, <1>9, CodeAbove

\* drive_ctr leaves the stack alone, and writes to the sector at most.
LEMMA DriveCtrLeaves ==
  ASSUME Types, DriveCtr
  PROVE  /\ m'.pc = Rti(m).pc /\ m'.s = Rti(m).s /\ m'.u = Rti(m).u /\ m'.dp = Rti(m).dp
         /\ \A adr \in Word : (adr \notin Sector /\ Rti(m).x = Buffer) \/ Rti(m).b # 0
                              => Read(m', adr) = Read(Rti(m), adr)
<1> DEFINE n    == Rti(m)
           dcmd == n.b
           m1   == TrackSector(n)
           drv  == Read(m1, W(m1.x + 3))
           past == [m1 EXCEPT !.x = W(m1.x + SectorBytes)]
           k0   == K!FileRead(disks, m1.a, m1.b)
           read == Copied(past, m1.x, K!Half(k0))
           Leaves(l) == /\ l.pc = n.pc /\ l.s = n.s /\ l.u = n.u /\ l.dp = n.dp
                        /\ \A adr \in Word : (adr \notin Sector /\ n.x = Buffer) \/ dcmd # 0
                                             => Read(l, adr) = Read(n, adr)
<1>1. n \in Machines
  BY ReturnsTyped DEF Types
<1>2. \/ dcmd = 0 /\ \E ok : m' = Ans(read, ok)
      \/ dcmd # 0 /\ \E ok : m' = Ans(past, ok) \/ m' = Ans(m1, ok)
  <2> DEFINE buf1 == K!Filled(disks, Fetched(m1))
             k1   == K!FileWrite([disks EXCEPT !.buf = buf1], m1.a, m1.b)
  <2>1. /\ CASE dcmd = 0 -> disks' = k0 /\ m' = Ans(read, K!Ready(disks))
             [] dcmd = 1 -> disks' = k1 /\ m' = Ans(past, K!Ready(disks))
             [] dcmd = 4 -> disks' = [disks EXCEPT !.seldrv = drv] /\ m' = Ans(m1, drv < 4)
             [] dcmd \in {5, 6} -> m' = Ans(m1, drv < 4) /\ UNCHANGED disks
             [] OTHER    -> m' = Ans(m1, TRUE) /\ UNCHANGED disks
    BY DEF DriveCtr, Registers
  <2> HIDE DEF m1, past, read, k0, k1, drv, dcmd
  <2>2. CASE dcmd = 0
    BY <2>1, <2>2
  <2>3. CASE dcmd = 1
    BY <2>1, <2>3
  <2>4. CASE dcmd = 4
    BY <2>1, <2>4
  <2>5. CASE dcmd \in {5, 6}
    BY <2>1, <2>5
  <2>6. CASE dcmd \notin {0, 1, 4, 5, 6}
    BY <2>1, <2>6
  <2> QED  BY <2>2, <2>3, <2>4, <2>5, <2>6
<1>3. m1 \in Machines /\ Leaves(m1) /\ m1.x = n.x
  <2> DEFINE h == n.y \div 256
             l == n.y % 256
             n1 == [n EXCEPT !.a = h]
             n2 == [n1 EXCEPT !.b = l]
  <2>1. h \in Byte /\ l \in Byte
    BY <1>1, HalvesOfWord, Fields
  <2>2. n1 \in Machines /\ n1.mem = n.mem /\ n1.pc = n.pc /\ n1.s = n.s /\ n1.u = n.u /\ n1.dp = n.dp /\ n1.x = n.x
    <3> HIDE DEF h, n
    <3> QED  BY <1>1, <2>1, OtherSet DEF Machines
  <2>3. n2 \in Machines /\ n2.mem = n.mem /\ n2.pc = n.pc /\ n2.s = n.s /\ n2.u = n.u /\ n2.dp = n.dp /\ n2.x = n.x
    <3> HIDE DEF n1, l, n
    <3> QED  BY <2>1, <2>2, OtherSet DEF Machines
  <2>4. m1 = n2
    BY SMT DEF TrackSector
  <2> HIDE DEF n2, m1, n
  <2> QED  BY <2>3, <2>4 DEF Read
<1> HIDE DEF m1, k0, n
<1>4. past \in Machines /\ Leaves(past)
  <2>1. W(m1.x + SectorBytes) \in Word
    BY <1>3, Size, NearWord, Fields
  <2>2. past \in Machines
    BY <1>3, <2>1, OtherSet
  <2>3. past.pc = m1.pc /\ past.s = m1.s /\ past.u = m1.u /\ past.dp = m1.dp /\ past.mem = m1.mem
    BY <1>3 DEF Machines
  <2> HIDE DEF past
  <2>4. \A adr : Read(past, adr) = Read(m1, adr)
    BY <2>3 DEF Read
  <2> QED  BY <1>3, <2>2, <2>3, <2>4
<1> HIDE DEF past
<1>5. dcmd = 0 => read \in Machines /\ Leaves(read)
  <2> SUFFICES ASSUME dcmd = 0 PROVE read \in Machines /\ Leaves(read)
    OBVIOUS
  <2>1. AsIn(read, past)
    BY <1>4, CopiedReads
  <2>2. n.x = Buffer => \A adr \in Word : adr \notin Sector => Read(read, adr) = Read(past, adr)
    <3> SUFFICES ASSUME n.x = Buffer PROVE \A adr \in Word : adr \notin Sector => Read(read, adr) = Read(past, adr)
      OBVIOUS
    <3>1. read = Copied(past, Buffer, K!Half(k0))
      BY <1>3
    <3> HIDE DEF read
    <3> QED  BY <1>4, <3>1, SectorCopied
  <2>3. read \in Machines
    <3>1. K!Half(k0) \in Blocks
      <4>1. m1.a \in Byte /\ m1.b \in Byte
        BY <1>3, Fields
      <4>2. k0 \in DiskStates
        BY <4>1, FileReadTyped DEF k0, Types
      <4> QED  BY <4>2, HalfTyped
    <3>2. m1.x \in Word
      BY <1>3, Fields
    <3> QED  BY <1>4, <3>1, <3>2, CopiedTyped
  <2> HIDE DEF read
  <2> QED  BY <1>4, <2>1, <2>2, <2>3 DEF AsIn, Regs
<1> HIDE DEF read
<1>6. ASSUME NEW l \in Machines, Leaves(l), NEW ok PROVE Leaves(Ans(l, ok))
  <2> DEFINE f == Setcc(IF ok THEN 4 ELSE 0)
             q == [l EXCEPT !.cc = f]
  <2>1. q.pc = l.pc /\ q.s = l.s /\ q.u = l.u /\ q.dp = l.dp /\ q.mem = l.mem
    <3> HIDE DEF f
    <3> QED  BY DEF Machines
  <2>2. Ans(l, ok) = q
    BY DEF Ans
  <2> HIDE DEF q
  <2>3. \A adr : Read(q, adr) = Read(l, adr)
    BY <2>1 DEF Read
  <2> QED  BY <1>6, <2>1, <2>2, <2>3
<1>7. Leaves(m')
  <2> HIDE DEF Leaves
  <2> QED  BY <1>2, <1>3, <1>4, <1>5, <1>6
<1> QED  BY <1>7 DEF n

LEMMA SwiCallFramed == ASSUME Types, Framed, SwiCall PROVE Framed'
<1> DEFINE n == Rti(m)
<1>1. /\ phase = "swi" /\ phase' = "tail" /\ prepc' = prepc /\ brkbuf' = brkbuf
      /\ call' = call /\ stage' = stage /\ saved' = saved
  BY DEF SwiCall, Getch, Putch, Kbhit, DriveCtr, Unknown, Answer, fmsVars
<1>2. /\ m.pc = n.pc /\ m.a = n.a /\ Code(n) /\ stage # "none" /\ Asking(n, Running, saved) /\ bkeyin = 0
      /\ Caller
  BY <1>1 DEF Framed, Frame, Host
<1>3. n \in Machines /\ n = Registers
  BY ReturnsTyped DEF Types, Registers
<1>4. Running' = Running /\ Caller'
  BY <1>1, <1>2 DEF Running, Caller, IsDisk
<1>5. BreaksKept
  BY <1>1, BreaksStay
<1>6. Code(saved)
  BY <1>2 DEF Caller
<1>7. n.pc = 62000 + Offset(n) /\ Offset(n) \in Int /\ prepc \in Int
  BY <1>3, Fields, WordInt, Numbers DEF Offset, Types
<1> HIDE DEF n
\* The driver goes on.
<1>8. ASSUME Code(m'), Within(m', Running, saved), Notice' PROVE Framed'
  <2>1. Code(m)' /\ Within(m, Running, saved)' /\ stage' # "none"
    BY <1>1, <1>2, <1>4, <1>8
  <2>2. Sound(m)'
    BY <2>1 DEF Sound
  <2> QED  BY <1>1, <1>4, <1>5, <1>8, <2>2 DEF Framed, Frame, BreaksKept
\* A key.
<1>9. ASSUME NEW v \in Byte, m' = [n EXCEPT !.b = v], m.a \in {3, 5}, bkeyin' # 0 => v # 6
      PROVE  Framed'
  <2>1. n.a \notin {4, 6} /\ n.a # 6
    BY <1>2, <1>9
  <2>2. /\ Code(m') /\ Within(m', Running, saved)
        /\ m'.pc = n.pc /\ m'.a = n.a /\ m'.b = v /\ Offset(m') \in {5, 15, 32}
    BY <1>2, <1>3, <1>9, <2>1, KeyHanded
  <2>3. Offset(m) = Offset(m') /\ Offset(m') \in Int
    BY <1>2, <1>7, <2>2 DEF Offset
  <2>4. Before(Offset(m))
    BY <1>1, <2>2, <2>3 DEF Framed, Notice
  <2>5. Notice'
    <3>1. Offset(m)' \in {5, 15, 32} /\ prepc' - Base \in {Offset(m)' - 1, Offset(m)' - 3}
      BY <1>1, <2>2, <2>3, <2>4 DEF Before
    <3>2. m'.a # 6 /\ (bkeyin' # 0 => m'.b # 6)
      BY <1>9, <2>1, <2>2
    <3> QED  BY <1>1, <1>5, <3>1, <3>2 DEF Notice, BreaksKept, Before
  <2> QED  BY <1>8, <2>2, <2>5
<1>10. ASSUME NEW key \in Keys PROVE key # 6
  BY KeysAssumption
<1>11. CASE Getch
  <2>1. /\ m.a = 3 /\ waiting # <<>> /\ m' = [n EXCEPT !.b = Head(waiting)]
        /\ bkeyin' = IF Head(waiting) = 3 THEN 3 ELSE bkeyin
    BY <1>3, <1>11 DEF Getch, Answer
  <2>2. Head(waiting) \in Byte
    BY <2>1, KeyTaken
  <2>3. bkeyin' # 0 => Head(waiting) # 6
    BY <1>2, <2>1
  <2> QED  BY <1>9, <2>1, <2>2, <2>3
<1>12. CASE Kbhit
  <2> DEFINE kin == IF waiting = <<>> THEN 0 ELSE Head(waiting)
  <2>1. m.a = 5 /\ m' = [n EXCEPT !.b = kin]
    BY <1>3, <1>12 DEF Kbhit
  <2>2. kin \in Byte
    BY KeyTaken DEF Byte
  <2>3. kin # 6
    <3>1. waiting # <<>> => Head(waiting) \in Keys
      BY HeadTailProperties DEF Types
    <3> QED  BY <1>10, <3>1
  <2> HIDE DEF kin
  <2> QED  BY <1>9, <2>1, <2>2, <2>3
<1>13. CASE Putch \/ Unknown
  <2>1. m' = n /\ bkeyin' = 0 /\ m.a # 6
    BY <1>2, <1>3, <1>13 DEF Putch, Unknown, Answer
  <2>2. AtPlace(Running, Offset(n)) /\ Offset(n) \in Swis /\ InTerminal(n, Offset(n), saved)
    BY <1>2, <2>1 DEF Asking, DiskFrame
  <2>3. Within(m', Running, saved)
    BY <1>2, <2>1, <2>2 DEF Asking, Within
  <2>4. Notice'
    <3>1. Offset(m)' \in Swis
      BY <2>1, <2>2 DEF Offset
    <3> QED  BY <1>1, <1>5, <2>1, <3>1 DEF Notice, BreaksKept, Swis
  <2> QED  BY <1>2, <1>8, <2>1, <2>3, <2>4
<1>14. CASE DriveCtr
  <2>1. m.a = 6 /\ bkeyin' = 0
    BY <1>2, <1>14 DEF DriveCtr, Answer
  <2>2. Running \in DiskOps /\ n.b = Number[Running] /\ n.x = saved.x
    BY <1>2, <2>1 DEF Asking, DiskFrame
  <2>3. n.b = 0 <=> Running = "read"
    BY <2>2, DiskNumbers
  <2>4. Running = "read" => saved.x = Buffer
    <3> SUFFICES ASSUME Running = "read" PROVE saved.x = Buffer
      OBVIOUS
    <3>1. stage # "select" /\ call.op = "read"
      BY DEF Running
    <3>2. stage = "transfer" /\ IsDisk(call)
      BY <1>2, <3>1 DEF Caller, IsDisk
    <3> QED  BY <1>2, <3>2 DEF Caller
  <2>5. /\ m'.pc = n.pc /\ m'.s = n.s /\ m'.u = n.u /\ m'.dp = n.dp
        /\ \A adr \in Word : adr \notin Sector \/ n.b # 0 => Read(m', adr) = Read(n, adr)
    <3>1. n.b # 0 \/ n.x = Buffer
      BY <2>2, <2>3, <2>4
    <3> QED  BY <1>14, <3>1, DriveCtrLeaves DEF n
  <2>6. Code(m') /\ Within(m', Running, saved) /\ Offset(m') \notin Open
    <3>1. \A adr \in Word : adr \notin Sector \/ Running # "read" => Read(m', adr) = Read(n, adr)
      BY <2>3, <2>5
    <3>2. n.a = 6
      BY <1>2, <2>1
    <3> QED  BY <1>2, <1>3, <2>2, <2>5, <3>1, <3>2, HostDone
  <2>7. Notice'
    <3>1. Offset(m)' \notin Open
      BY <2>6 DEF Offset
    <3> QED  BY <1>5, <2>1, <3>1, Quiet
  <2> QED  BY <1>8, <2>6, <2>7
<1> QED  BY <1>11, <1>12, <1>13, <1>14 DEF SwiCall

-----------------------------------------------------------------------------
(* After the inner loop.                                                   *)

\* A key takes the driver back to where it asks.
TakesBack(o, q) == (o \in {5, 15, 32} /\ q \in {o - 1, o - 3}) \/ (o \in {7, 34} /\ q \in {o - 2, o - 3, o - 5})

LEMMA TakenBack ==
  ASSUME NEW n \in Machines, Code(n), NEW R, NEW k, Within(n, R, k), n.a # 6,
         NEW pre \in Word, TakesBack(Offset(n), pre - Base), NEW l, l = [n EXCEPT !.pc = pre]
  PROVE  Code(l) /\ Within(l, R, k)
<1> DEFINE o == Offset(n)
           q == pre - Base
<1>1. /\ l.pc = pre /\ l.mem = n.mem /\ l.s = n.s /\ l.x = n.x /\ l.y = n.y
      /\ l.u = n.u /\ l.dp = n.dp /\ l.a = n.a /\ l.b = n.b
  BY DEF Machines
<1>2. o \in {5, 15, 32, 7, 34}
  BY DEF TakesBack
<1>3. /\ AtPlace(R, o) /\ InTerminal(n, o, k)
      /\ n.u = k.u /\ n.dp = k.dp /\ Pair(n, Stack - 2) = Back
  <2>1. ~(\E i \in {0, 2, 4, 6, 8, 9, 11} : R \in DiskOps /\ DiskAt(n, R, i, k))
    <3> SUFFICES ASSUME NEW i \in {0, 2, 4, 6, 8, 9, 11}, R \in DiskOps, DiskAt(n, R, i, k) PROVE FALSE
      OBVIOUS
    <3>1. n.pc = Base + (Starts[R] + i) /\ Starts[R] \in 48 .. 96
      BY DiskStarts DEF DiskAt
    <3>2. o >= 48
      BY <3>1, Numbers DEF Offset
    <3> QED  BY <1>2, <3>2
  <2>2. TerminalAt(n, R, o, k)
    BY <2>1, WithinPlaces
  <2> QED  BY <2>2 DEF TerminalAt
<1>4. \A adr : Read(l, adr) = Read(n, adr)
  BY <1>1 DEF Read
<1>5. Offset(l) = q /\ Code(l) /\ Pair(l, Stack - 2) = Back
  BY <1>1, <1>3, <1>4 DEF Offset, Code, Pair
<1>6. TakesBack(o, q)
  OBVIOUS
<1> HIDE DEF o, q
<1>7. q \in {2, 4, 5, 12, 14, 29, 31, 32} /\ AtPlace(R, q)
  BY <1>3, <1>6 DEF AtPlace, TakesBack
<1>8. n.s = Stack - 3 /\ Read(n, Stack - 3) = k.b
  BY <1>2, <1>3 DEF InTerminal, TerminalFrame
<1>9. KeepsRest(l, k)
  BY <1>3, <1>4 DEF InTerminal, KeepsRest
<1>10. TerminalFrame(l, q, k)
  BY <1>1, <1>4, <1>7, <1>8 DEF TerminalFrame
<1>11. InTerminal(l, q, k)
  BY <1>1, <1>3, <1>7, <1>9, <1>10 DEF InTerminal
<1> QED  BY <1>1, <1>3, <1>5, <1>7, <1>11 DEF Within

LEMMA ComesBack ==
  ASSUME NEW ret, NEW shown, Comes(ret, shown)
  PROVE  /\ phase' = "prompt" \/ (phase' = "run" /\ prepc' = m'.pc)
         /\ \/ brkbuf' = brkbuf
            \/ brkbuf' = WithBrk(command.badrin, Brk(command.badrin) % 4)
  BY DEF Comes, Begin, ToPrompt

LEMMA BreaksCut ==
  ASSUME Framed, NEW a, brkbuf' = WithBrk(a, Brk(a) % 4)
  PROVE  BreaksKept
<1>1. \A adr : Brk(adr) \in Int /\ (Brk(adr) % 4 = 2 => adr \in Traceable)
  BY DEF Framed, Notice
<1>2. ASSUME NEW v \in Int PROVE (v % 4) % 4 = v % 4 /\ v % 4 \in Int
  OBVIOUS
<1>3. (Brk(a) % 4) % 4 = Brk(a) % 4 /\ Brk(a) % 4 \in Int
  BY <1>1, <1>2
<1> DEFINE v == Brk(a) % 4
<1>4. \A adr : Brk(adr)' = IF adr = a THEN v ELSE Brk(adr)
  BY WithBrkGives
<1> HIDE DEF v
<1>5. \A adr : Brk(adr)' \in Int
  BY <1>1, <1>3, <1>4 DEF v
<1>6. ASSUME NEW adr, Brk(adr)' % 4 = 2 PROVE adr \in Traceable
  <2>1. CASE adr = a
    <3>1. v % 4 = 2
      BY <1>4, <1>6, <2>1
    <3>2. Brk(a) % 4 = 2
      BY <1>3, <3>1 DEF v
    <3> QED  BY <1>1, <2>1, <3>2
  <2>2. CASE adr # a
    BY <1>1, <1>4, <1>6, <2>2
  <2> QED  BY <2>1, <2>2
<1> QED  BY <1>5, <1>6 DEF BreaksKept

LEMMA TailFramed == ASSUME Types, Framed, TracesApart, TailEnds PROVE Framed'
<1> DEFINE pc1  == IF Noticed /\ bkeyin # 0 THEN prepc ELSE m.pc
           stop == Noticed /\ (Brk(pc1) # 0 \/ bkeyin = 3)
           o    == Offset(m)
           p    == Offset(m')
<1>1. /\ phase = "tail" /\ m' = [m EXCEPT !.pc = pc1] /\ bkeyin' = IF Noticed THEN 0 ELSE bkeyin
      /\ call' = call /\ stage' = stage /\ saved' = saved
  BY DEF TailEnds, fmsVars
<1>2. \/ \E ret, shown : Comes(ret, shown)
      \/ ~stop /\ ~active /\ GoesOn(Traced)
  BY DEF TailEnds
<1>3. \/ phase' = "prompt"
      \/ phase' = "run" /\ prepc' = m'.pc
      \/ phase' = "loop" /\ prepc' = prepc /\ ~stop /\ ~active
  BY <1>2, ComesBack DEF GoesOn
<1>4. BreaksKept
  BY <1>2, ComesBack, BreaksCut, BreaksStay DEF GoesOn
<1>5. Running' = Running /\ Caller'
  BY <1>1 DEF Running, Framed, Caller, IsDisk
<1>6. m \in Machines /\ m.pc \in Word /\ prepc \in Word /\ m.pc \in Int /\ prepc \in Int
  BY Fields, WordInt DEF Types
<1>7. m'.pc = pc1 /\ m'.a = m.a /\ m'.b = m.b
  <2> HIDE DEF pc1
  <2> QED  BY <1>1, <1>6 DEF Machines
<1>8. m.pc = 62000 + o /\ o \in Int
  BY <1>6, Numbers DEF Offset
<1>9. p = Offset(m)'
  BY DEF Offset
<1>10. Sound(m)
  BY <1>1 DEF Framed, Frame
<1>11. bkeyin # 0 =>
         /\ m.a # 6
         /\ \/ o \in {5, 15, 32} /\ m.b # 6 /\ Before(o)
            \/ o \in {7, 34} /\ m.pc \notin Traceable /\ (Before(o - 2) \/ prepc = m.pc - 2)
  BY <1>1 DEF Framed, Notice
<1>12. Traced => m.pc \in Traceable
  <2> SUFFICES ASSUME Traced PROVE m.pc \in Traceable
    OBVIOUS
  <2>1. Brk(m.pc) = 2 /\ 2 % 4 = 2
    BY DEF Traced
  <2> QED  BY <2>1 DEF Framed, Notice
<1>13. Sound(m)'
  <2>1. CASE Noticed /\ bkeyin # 0
    <3>1. m' = [m EXCEPT !.pc = prepc]
      BY <1>1, <2>1
    <3>2. o \in {5, 15, 32, 7, 34}
      BY <1>11, <2>1
    <3>3. m.pc \notin {Home, Back}
      <4> HIDE DEF o
      <4> QED  BY <1>8, <3>2, Numbers
    <3>4. Code(m) /\ stage # "none" /\ Within(m, Running, saved)
      BY <1>1, <3>3, InDriver
    <3>5. TakesBack(o, prepc - Base)
      <4> HIDE DEF o
      <4> QED  BY <1>6, <1>8, <1>11, <2>1, Numbers DEF TakesBack, Before
    <3>6. Code(m') /\ Within(m', Running, saved)
      BY <1>6, <1>11, <2>1, <3>1, <3>4, <3>5, TakenBack
    <3>7. Code(m)' /\ Within(m, Running, saved)' /\ stage' # "none"
      BY <1>1, <1>5, <3>4, <3>6
    <3> QED  BY <3>7 DEF Sound
  <2>2. CASE ~(Noticed /\ bkeyin # 0)
    <3>1. m' = [m EXCEPT !.pc = m.pc]
      BY <1>1, <2>2
    <3>2. m' = m
      BY <1>6, <3>1 DEF Machines
    <3> QED  BY <1>1, <1>5, <1>10, <3>2 DEF Sound, Idle, Running
  <2> QED  BY <2>1, <2>2
\* The loop goes on without a step back: a trace point is passed.
<1>14. ASSUME phase' = "loop", ~(Noticed /\ bkeyin # 0), bkeyin = 0, active \/ Brk(m.pc) # 0
       PROVE  Traced
  <2>1. pc1 = m.pc /\ Brk(m.pc) # 0 /\ ~stop
    BY <1>3, <1>14
  <2> QED  BY <2>1 DEF Noticed
<1>15. Notice'
  <2>1. CASE Noticed /\ bkeyin # 0
    <3>1. bkeyin' = 0 /\ m'.pc = prepc
      BY <1>1, <1>7, <2>1
    <3>2. phase' \in {"run", "loop"} => prepc' = m'.pc
      BY <1>3, <3>1
    <3> HIDE DEF pc1, stop, o, p
    <3> QED  BY <1>3, <1>4, <3>1, <3>2 DEF Notice, BreaksKept
  <2>2. CASE ~Noticed /\ bkeyin # 0
    <3>1. Traced /\ m'.pc = m.pc /\ bkeyin' = bkeyin
      BY <1>1, <1>7, <2>2 DEF Noticed
    <3>2. o \in {5, 32} /\ m.pc \in Traceable /\ m.b # 6 /\ Before(o)
      <4>1. m.pc \in Traceable
        BY <1>12, <3>1
      <4>2. o # 15
        <5> HIDE DEF o
        <5> QED  BY <1>8, <4>1, Numbers DEF TracesApart
      <4> QED  BY <1>11, <2>2, <4>1, <4>2
    <3>3. Offset(m)' = o
      BY <3>1 DEF Offset
    <3>4. phase' # "prompt" => prepc' = m'.pc \/ prepc' - Base \in {o - 1, o - 3}
      BY <1>3, <3>2 DEF Before
    <3> HIDE DEF pc1, stop, o, p
    <3> QED  BY <1>3, <1>4, <1>7, <1>11, <2>2, <3>1, <3>2, <3>3, <3>4 DEF Notice, BreaksKept, Before
  <2>3. CASE bkeyin = 0
    <3>1. m'.pc = m.pc /\ bkeyin' = 0 /\ Offset(m)' = o
      BY <1>1, <1>7, <2>3 DEF Offset
    <3>2. phase' = "loop" /\ o \in {2, 4, 12, 14, 29, 31} => m.pc \in Traceable
      <4> SUFFICES ASSUME phase' = "loop", o \in {2, 4, 12, 14, 29, 31} PROVE m.pc \in Traceable
        OBVIOUS
      <4>1. active \/ Brk(m.pc) # 0
        BY <1>1, <2>3 DEF Framed, Notice
      <4> QED  BY <1>12, <1>14, <2>3, <4>1
    <3>3. phase' = "loop" /\ o \in {4, 14, 31} => prepc = m.pc - 2
      <4> SUFFICES ASSUME phase' = "loop", o \in {4, 14, 31} PROVE prepc = m.pc - 2
        OBVIOUS
      <4>1. prepc = m.pc - 2 \/ m.pc - 2 \in Traceable
        BY <1>1, <2>3 DEF Framed, Notice
      <4>2. m.pc \in Traceable
        BY <3>2
      <4>3. m.pc - 2 \in {Base + 2, Base + 12, Base + 29} /\ (m.pc - 2) + 2 = m.pc
        <5> HIDE DEF o
        <5> QED  BY <1>6, <1>8, Numbers
      <4> QED  BY <4>1, <4>2, <4>3 DEF TracesApart
    <3> HIDE DEF pc1, stop, o, p
    <3>4. phase' \in {"prompt", "run", "loop"}
      BY <1>3
    <3>5. phase' \in {"run", "loop"} /\ o \in {4, 14, 31} => prepc' = m'.pc \/ prepc' = m'.pc - 2
      BY <1>3, <3>1, <3>3
    <3>6. phase' \in {"run", "loop"} /\ o \in {2, 12, 29} => prepc' = m'.pc \/ m'.pc \in Traceable
      BY <1>3, <3>1, <3>2
    <3> QED  BY <1>4, <3>1, <3>4, <3>5, <3>6 DEF Notice, BreaksKept
  <2> QED  BY <2>1, <2>2, <2>3
<1>16. phase' # "swi"
  BY <1>3
<1> QED  BY <1>4, <1>5, <1>13, <1>15, <1>16 DEF Framed, Frame, BreaksKept

-----------------------------------------------------------------------------
(* The loop goes on, and the user acts.                                    *)

LEMMA SameFrame ==
  ASSUME Framed, m' = m, call' = call, stage' = stage, saved' = saved, bkeyin' = bkeyin,
         phase' = phase \/ "swi" \notin {phase, phase'}
  PROVE  Frame' /\ Caller'
<1>1. Running' = Running /\ Caller'
  BY DEF Running, Framed, Caller, IsDisk
<1>2. CASE phase = "swi"
  <2>1. Host
    BY <1>2 DEF Framed, Frame
  <2>2. Host'
    BY <1>1, <2>1 DEF Host
  <2> QED  BY <1>1, <1>2, <2>2 DEF Frame
<1>3. CASE phase # "swi"
  <2>1. Sound(m)
    BY <1>3 DEF Framed, Frame
  <2>2. Sound(m)'
    BY <1>1, <2>1 DEF Sound, Idle
  <2> QED  BY <1>1, <1>3, <2>2 DEF Frame
<1> QED  BY <1>2, <1>3

LEMMA LoopFramed == ASSUME Framed, LoopAgain PROVE Framed'
<1>1. /\ m' = m /\ call' = call /\ stage' = stage /\ saved' = saved /\ bkeyin' = bkeyin /\ prepc' = prepc
      /\ phase = "loop" /\ phase' = "run" /\ brkbuf' = brkbuf
  BY DEF LoopAgain, fmsVars
<1>2. Frame' /\ Caller'
  BY <1>1, SameFrame
<1>3. BreaksKept
  BY <1>1, BreaksStay
<1>4. Offset(m)' = Offset(m)
  BY <1>1 DEF Offset
<1>5. Notice'
  BY <1>1, <1>3, <1>4 DEF Framed, Notice, BreaksKept, Before
<1> QED  BY <1>2, <1>3, <1>5 DEF Framed, BreaksKept

LEMMA UserFramed == ASSUME Types, Framed, User PROVE Framed'
<1>1. CASE Go \/ Next_n \/ StepOver
  <2>1. /\ m' = m /\ call' = call /\ stage' = stage /\ saved' = saved /\ bkeyin' = bkeyin
        /\ phase = "prompt" /\ phase' = "run" /\ prepc' = m'.pc
    BY <1>1 DEF Go, Next_n, StepOver, AtPrompt, Begin, fmsVars
  <2>2. BreaksKept
    <3>1. CASE Go \/ Next_n
      BY <3>1, BreaksStay DEF Go, Next_n
    <3>2. CASE StepOver
      <4> DEFINE a == W(m.pc + stepcnt)
                 v == (Brk(a) % 4) + 4
      <4>1. brkbuf' = WithBrk(a, v)
        BY <3>2 DEF StepOver
      <4>2. \A adr : Brk(adr) \in Int /\ (Brk(adr) % 4 = 2 => adr \in Traceable)
        BY DEF Framed, Notice
      <4>3. ASSUME NEW i \in Int PROVE ((i % 4) + 4) % 4 = i % 4 /\ (i % 4) + 4 \in Int
        OBVIOUS
      <4>4. v % 4 = Brk(a) % 4 /\ v \in Int
        BY <4>2, <4>3
      <4> HIDE DEF v, a
      <4>5. \A adr : Brk(adr)' = IF adr = a THEN v ELSE Brk(adr)
        BY <4>1, WithBrkGives
      <4>6. \A adr : Brk(adr)' \in Int
        BY <4>2, <4>4, <4>5
      <4>7. ASSUME NEW adr, Brk(adr)' % 4 = 2 PROVE adr \in Traceable
        <5>1. CASE adr = a
          <6>1. v % 4 = 2
            BY <4>5, <4>7, <5>1
          <6> QED  BY <4>2, <4>4, <5>1, <6>1
        <5>2. CASE adr # a
          BY <4>2, <4>5, <4>7, <5>2
        <5> QED  BY <5>1, <5>2
      <4> QED  BY <4>6, <4>7 DEF BreaksKept
    <3> QED  BY <1>1, <3>1, <3>2
  <2>3. Frame' /\ Caller'
    BY <2>1, SameFrame
  <2>4. Offset(m)' = Offset(m)
    BY <2>1 DEF Offset
  <2>5. Notice'
    BY <2>1, <2>2, <2>4 DEF Framed, Notice, BreaksKept
  <2> QED  BY <2>2, <2>3, <2>5 DEF Framed, BreaksKept
<1>2. CASE SetBreak
  <2>1. /\ m' = m /\ call' = call /\ stage' = stage /\ saved' = saved /\ bkeyin' = bkeyin
        /\ phase = "prompt" /\ phase' = "prompt"
    BY <1>2 DEF SetBreak, AtPrompt, fmsVars
  <2>2. BreaksKept
    <3>1. PICK a \in BreakPlaces, kind \in BreakKinds : brkbuf' = WithBrk(a, kind)
      BY <1>2 DEF SetBreak
    <3>2. \A adr : Brk(adr) \in Int /\ (Brk(adr) % 4 = 2 => adr \in Traceable)
      BY DEF Framed, Notice
    <3>3. kind \in 0 .. 3
      BY KindsAssumption
    <3>4. kind \in Int /\ (kind % 4 = 2 => kind = 2)
      BY <3>3
    <3>5. \A adr : Brk(adr)' = IF adr = a THEN kind ELSE Brk(adr)
      BY <3>1, WithBrkGives
    <3>6. kind % 4 = 2 => a \in Traceable
      BY <3>4 DEF Traceable
    <3> QED  BY <3>2, <3>4, <3>5, <3>6 DEF BreaksKept
  <2>3. Frame' /\ Caller'
    BY <2>1, SameFrame
  <2>4. Offset(m)' = Offset(m)
    BY <2>1 DEF Offset
  <2>5. Notice'
    BY <2>1, <2>2, <2>4 DEF Framed, Notice, BreaksKept
  <2> QED  BY <2>2, <2>3, <2>5 DEF Framed, BreaksKept
<1>3. CASE TakenByPrompt \/ Key \/ Signal
  <2>1. /\ m' = m /\ call' = call /\ stage' = stage /\ saved' = saved /\ bkeyin' = bkeyin
        /\ phase' = phase /\ prepc' = prepc /\ brkbuf' = brkbuf /\ (active' \/ active' = active)
    BY <1>3 DEF TakenByPrompt, Key, Signal, loopVars, fmsVars
  <2>2. BreaksKept
    BY <2>1, BreaksStay
  <2>3. Frame' /\ Caller'
    BY <2>1, SameFrame
  <2>4. Offset(m)' = Offset(m) /\ Brk(m.pc)' = Brk(m.pc)
    BY <2>1 DEF Offset, Brk
  <2>5. Notice'
    BY <2>1, <2>2, <2>4, Zenon DEF Framed, Notice, BreaksKept, Before
  <2> QED  BY <2>2, <2>3, <2>5 DEF Framed, BreaksKept
<1> QED  BY <1>1, <1>2, <1>3 DEF User

LEMMA RestFramed == ASSUME Framed, UNCHANGED vars PROVE Framed'
<1>1. /\ m' = m /\ call' = call /\ stage' = stage /\ saved' = saved /\ bkeyin' = bkeyin
      /\ phase' = phase /\ prepc' = prepc /\ brkbuf' = brkbuf /\ active' = active
  BY DEF vars, loopVars, fmsVars
<1>2. BreaksKept
  BY <1>1, BreaksStay
<1>3. Frame' /\ Caller'
  BY <1>1, SameFrame
<1>4. Offset(m)' = Offset(m) /\ Brk(m.pc)' = Brk(m.pc)
  BY <1>1 DEF Offset, Brk
<1>5. Notice'
  BY <1>1, <1>2, <1>4, Zenon DEF Framed, Notice, BreaksKept, Before
<1> QED  BY <1>2, <1>3, <1>5 DEF Framed, BreaksKept

LEMMA InitFramed == ASSUME Init PROVE Framed
<1>1. /\ phase = "prompt" /\ stage = "none" /\ call = None /\ bkeyin = 0 /\ brkbuf = <<>>
      /\ m.pc = Home /\ m.s = Stack /\ m.mem = Memory
  BY DEF Init, PowerOn
<1>2. Code(m) /\ Idle(m)
  BY <1>1, CodeOfMemory DEF Idle
<1>3. \A adr : Brk(adr) = 0
  BY <1>1 DEF Brk
<1>4. Offset(m) \notin Open
  BY <1>1, Numbers DEF Offset, Open
<1>5. 0 % 4 = 0
  OBVIOUS
<1>6. Notice
  BY <1>1, <1>3, <1>5 DEF Notice
<1>7. Caller
  BY <1>1 DEF Caller
<1> QED  BY <1>1, <1>2, <1>3, <1>6, <1>7 DEF Framed, Frame, Sound

LEMMA FramedInvariant == ASSUME TracesApart PROVE Spec => [](Types /\ Framed)
<1>1. Types /\ Framed /\ [Next]_vars => Framed'
  BY TracesApart, CallFramed, TransferFramed, ReturnFramed, InstructionFramed, SwiCallFramed, TailFramed, LoopFramed,
     UserFramed, RestFramed DEF Next, Machine, Rest
<1>2. Init => Framed
  BY InitFramed
<1> QED  BY <1>1, <1>2, TypesInvariant, PTL DEF Spec

LEMMA FramesKept == ASSUME Types, Framed PROVE RegistersKept
<1> SUFFICES ASSUME m.pc = Back, call # None, NEW R \in Kept(call) PROVE m[R] = saved[R]
  BY DEF RegistersKept
<1>1. phase # "swi"
  <2> SUFFICES ASSUME phase = "swi" PROVE FALSE
    OBVIOUS
  <2> DEFINE n == Rti(m)
  <2>1. m.pc = n.pc /\ Asking(n, Running, saved)
    BY DEF Framed, Frame, Host
  <2> HIDE DEF n
  <2>2. Offset(n) < 0 /\ Offset(n) \in Int
    <3>1. n.pc = Back
      BY <2>1
    <3> DEFINE pc == n.pc
    <3>2. pc - Base = 4099 - 62000
      BY <3>1, Numbers
    <3>3. Offset(n) = pc - Base
      BY DEF Offset
    <3> HIDE DEF pc
    <3> QED  BY <3>2, <3>3
  <2>3. CASE AtPlace(Running, Offset(n))
    BY <2>2, <2>3 DEF AtPlace
  <2>4. CASE Running \in DiskOps /\ Offset(n) - Starts[Running] = 9
    <3>1. Starts[Running] \in 48 .. 96
      BY <2>4, DiskStarts
    <3> QED  BY <2>2, <2>4, <3>1
  <2> QED  BY <2>1, <2>3, <2>4 DEF Asking
<1>2. Returned(m, Running, saved) /\ stage # "none" /\ Caller
  <2>1. m \in Machines /\ Sound(m) /\ Caller
    BY <1>1 DEF Types, Framed, Frame
  <2>2. m.pc = 4099 /\ Home = 4096
    BY Numbers
  <2>3. ~Idle(m) /\ ~Within(m, Running, saved)
    BY <2>1, <2>2, WithinAbove DEF Idle
  <2> QED  BY <2>1, <2>3 DEF Sound
<1>3. saved.s = Stack
  BY <1>2 DEF Caller
<1>4. m.s = saved.s /\ m.u = saved.u /\ m.y = saved.y /\ m.dp = saved.dp
  BY <1>2, <1>3 DEF Returned
<1>5. CASE IsDisk(call) \/ call.op \in {"verify", "chkrdy"}
  <2>1. R \in {"s", "u", "y", "dp"}
    BY <1>5 DEF Kept, IsDisk
  <2> QED  BY <1>4, <2>1
<1>6. CASE call.op \in {"outch", "bad"}
  <2>1. R \in {"s", "u", "x", "y", "dp", "a", "b"}
    BY <1>6 DEF Kept, IsDisk
  <2>2. Running = call.op
    BY <1>2, <1>6 DEF Caller, IsDisk, Running
  <2>3. m.x = saved.x /\ m.a = saved.a /\ m.b = saved.b
    BY <1>2, <1>6, <2>2 DEF Returned, DiskOps
  <2> QED  BY <1>4, <2>1, <2>3
<1>7. CASE ~(IsDisk(call) \/ call.op \in {"verify", "chkrdy", "outch", "bad"})
  <2>1. R \in {"s", "u", "x", "y", "dp", "b"}
    BY <1>7 DEF Kept, IsDisk
  <2>2. Running = call.op /\ call.op \notin DiskOps
    <3>1. call \in Services /\ stage # "select"
      BY <1>2, <1>7 DEF Caller
    <3>2. call.op \notin DiskOps
      BY <1>7, <3>1, ServicesAssumption DEF IsDisk, DiskOps
    <3> QED  BY <3>1, <3>2 DEF Running
  <2>3. m.x = saved.x /\ m.b = saved.b
    BY <1>2, <2>2 DEF Returned
  <2> QED  BY <1>4, <2>1, <2>3
<1> QED  BY <1>5, <1>6, <1>7

\* What CONSOLE_SIM.ASM pushes is what it uses, in every driver: when one
\* returns to FMS, the stack and the registers FMS counts on are what they
\* were, for every service, disk and key, and whenever the user stops, steps,
\* sends SIGINT or sets break points - provided no trace point stands where
\* a noticed key would take the program counter back over a stack instruction.
THEOREM RegistersStay == ASSUME TracesApart PROVE Spec => []RegistersKept
<1> QED  BY TracesApart, FramedInvariant, FramesKept, PTL

-----------------------------------------------------------------------------
(* The command n.                                                          *)

\* The instruction before is a software interrupt, or the one that is
\* repeated is.
Behind == (prepc = m.pc /\ Read(m, m.pc) = 63) \/ Read(m, W(m.pc - 1)) = 63

\* Only a software interrupt ends the inner loop with activate_console
\* cleared, and prepc has stayed before it.
Stepping ==
  command.kind = "n" =>
    /\ phase \in {"run", "swi", "tail", "loop"}
    /\ phase = "run" => active /\ step /\ (Behind \/ (done = 0 /\ prepc = m.pc))
    /\ phase = "swi" => step /\ prepc = m.pc - 1
    /\ phase = "tail" => active \/ (step /\ prepc = m.pc - 1 /\ Read(m, m.pc - 1) = 63)
    /\ phase = "loop" => step /\ Behind

LEMMA StepsActive ==
  ASSUME NEW m0, Step(m0), phase = "run", active
  PROVE  /\ command' = command /\ m' = Execute(m0)
         /\ \/ m'.err = "swi" /\ phase' = "swi" /\ prepc' = prepc /\ step' = step
            \/ m'.err # "swi" /\ phase' = "tail" /\ active'
<1>1. command' = command /\ m' = Execute(m0)
  BY DEF Step
<1>2. CASE m'.err = "swi"
  BY <1>1, <1>2 DEF Step
<1>3. CASE m'.err \notin {"none", "swi"}
  BY <1>1, <1>3 DEF Step
<1>4. CASE m'.err = "none"
  BY <1>1, <1>4, Zenon DEF Step
<1> QED  BY <1>1, <1>2, <1>3, <1>4

LEMMA BehindSwi ==
  ASSUME NEW n \in Machines, Code(n), NEW R,
         Offset(n) \in Swis \/ (R \in DiskOps /\ Offset(n) - Starts[R] = 9)
  PROVE  Read(n, n.pc - 1) = 63
<1>1. n.pc \in Int /\ n.pc = 62000 + Offset(n) /\ Offset(n) \in Int
  BY Fields, WordInt, Numbers DEF Offset
<1>2. CASE Offset(n) \in Swis
  <2>1. Offset(n) - 1 \in {4, 14, 19, 31, 44} /\ Base + (Offset(n) - 1) = n.pc - 1
    BY <1>1, <1>2, Numbers DEF Swis
  <2>2. Read(n, Base + (Offset(n) - 1)) = 63
    BY <2>1, TerminalReads DEF TerminalText
  <2> QED  BY <2>1, <2>2
<1>3. CASE R \in DiskOps /\ Offset(n) - Starts[R] = 9
  <2>1. Starts[R] \in 48 .. 96
    BY <1>3, DiskStarts
  <2>2. (Base + Starts[R]) + 8 = n.pc - 1
    BY <1>1, <1>3, <2>1, Numbers
  <2>3. Read(n, (Base + Starts[R]) + 8) = 63
    BY <1>3, DiskReads DEF DiskText
  <2> QED  BY <2>2, <2>3
<1> QED  BY <1>2, <1>3

\* At most the interrupt itself leaves the inner loop for the host.
LEMMA RunStepping ==
  ASSUME Types, Framed, Stepping, Call \/ Transfer \/ Return \/ Instruction PROVE Stepping'
<1> SUFFICES ASSUME command'.kind = "n" PROVE Stepping'
  BY DEF Stepping
<1>1. PICK m0 : Step(m0)
  BY DEF Call, Transfer, Return, Instruction, Select, Single, Enter
<1>2. phase = "run" /\ command' = command
  BY <1>1 DEF Call, Transfer, Return, Instruction, Step
<1>3. active /\ step /\ (Behind \/ (done = 0 /\ prepc = m.pc))
  BY <1>2 DEF Stepping
<1>4. CASE phase' = "tail"
  BY <1>1, <1>2, <1>3, <1>4, StepsActive DEF Stepping
<1>5. CASE phase' = "swi"
  <2>1. m'.err = "swi" /\ prepc' = prepc /\ step' = step
    BY <1>1, <1>2, <1>3, <1>5, StepsActive
  <2>2. Instruction
    <3>1. CASE m.pc = Home \/ m.pc = Back
      <4>1. Call \/ Transfer \/ Return
        BY <3>1 DEF Instruction
      <4>2. CASE Call
        BY <4>2, <1>5, CallFramed
      <4>3. CASE Transfer
        BY <4>3, <1>5, TransferFramed
      <4>4. CASE Return
        BY <4>4, <1>5, ReturnFramed
      <4> QED  BY <4>1, <4>2, <4>3, <4>4
    <3> QED  BY <3>1 DEF Call, Transfer, Return
  <2>3. m \in Machines /\ Code(m) /\ Within(m, Running, saved)
    BY <1>2, <2>2, InDriver DEF Instruction
  <2>4. m' = Execute(m)
    BY <2>2 DEF Instruction, Step
  <2>5. m'.pc = m.pc + 1 /\ Read(m, m.pc - 1) # 63
    BY <2>1, <2>3, <2>4, StepsOn DEF Asks, Moves
  <2>6. m.pc \in Word /\ m.pc \in Int /\ m.pc >= 62000
    BY <2>3, WithinAbove, Fields, WordInt
  <2>7. W(m.pc - 1) = m.pc - 1
    BY <2>6, WordInt, SMT DEF W
  <2>8. prepc = m.pc
    BY <1>3, <2>5, <2>7 DEF Behind
  <2>9. prepc' = m'.pc - 1
    BY <2>1, <2>5, <2>6, <2>8
  <2> QED  BY <1>3, <1>5, <2>1, <2>9 DEF Stepping
<1> QED  BY <1>1, <1>2, <1>3, <1>4, <1>5, StepsActive

LEMMA HostStepping == ASSUME Types, Framed, Stepping, SwiCall PROVE Stepping'
<1> SUFFICES ASSUME command'.kind = "n" PROVE Stepping'
  BY DEF Stepping
<1> DEFINE n == Rti(m)
<1>1. /\ phase = "swi" /\ phase' = "tail" /\ prepc' = prepc /\ step' = step /\ command' = command
  BY DEF SwiCall, Getch, Putch, Kbhit, DriveCtr, Unknown, Answer
<1>2. step /\ prepc = m.pc - 1
  BY <1>1 DEF Stepping
<1>3. m.pc = n.pc /\ Asking(n, Running, saved)
  BY <1>1 DEF Framed, Frame, Host
<1>4. n \in Machines /\ n = Registers
  BY ReturnsTyped DEF Types, Registers
<1>5. Framed' /\ m' \in Machines
  BY SwiCallFramed, SwiCallKeeps DEF Types
<1>6. Code(m')
  BY <1>1, <1>5 DEF Framed, Frame, Sound
<1>7. m'.pc = n.pc
  <2>1. CASE DriveCtr
    BY <2>1, DriveCtrLeaves
  <2> HIDE DEF n
  <2>2. CASE Getch \/ Kbhit
    <3>1. PICK key : m' = [n EXCEPT !.b = key]
      BY <1>4, <2>2 DEF Getch, Kbhit
    <3> QED  BY <1>4, <3>1 DEF Machines
  <2>3. CASE Putch \/ Unknown
    BY <1>4, <2>3 DEF Putch, Unknown
  <2> QED  BY <2>1, <2>2, <2>3 DEF SwiCall
<1> HIDE DEF n
<1>8. Offset(m') = Offset(n)
  BY <1>7 DEF Offset
<1>9. Read(m', m'.pc - 1) = 63
  BY <1>3, <1>5, <1>6, <1>8, BehindSwi DEF Asking
<1> QED  BY <1>1, <1>2, <1>3, <1>7, <1>9 DEF Stepping

LEMMA TailStepping == ASSUME Types, Stepping, TailEnds PROVE Stepping'
<1> DEFINE pc1  == IF Noticed /\ bkeyin # 0 THEN prepc ELSE m.pc
<1>1. phase = "tail" /\ m' = [m EXCEPT !.pc = pc1]
  BY DEF TailEnds
<1>2. \/ \E ret, shown : Comes(ret, shown)
      \/ ~active /\ GoesOn(Traced)
  BY DEF TailEnds
<1>3. CASE \E ret, shown : Comes(ret, shown)
  <2>1. \/ phase' = "prompt" /\ command' = [kind |-> "none"]
        \/ phase' = "run" /\ prepc' = m'.pc /\ done' = 0 /\ active' = TRUE /\ step' = TRUE
    BY <1>3 DEF Comes, Begin, ToPrompt
  <2> QED  BY <2>1 DEF Stepping
<1>4. CASE ~active /\ GoesOn(Traced)
  <2> SUFFICES ASSUME command'.kind = "n" PROVE Stepping'
    BY DEF Stepping
  <2>1. phase' = "loop" /\ prepc' = prepc /\ step' = step /\ command' = command
    BY <1>4 DEF GoesOn
  <2>2. step /\ prepc = m.pc - 1 /\ Read(m, m.pc - 1) = 63
    BY <1>1, <1>4, <2>1 DEF Stepping
  <2>3. m \in Machines /\ prepc \in Word /\ prepc \in Int
    BY WordInt DEF Types
  <2>4. m'.pc = pc1 /\ m'.mem = m.mem
    <3> HIDE DEF pc1
    <3> QED  BY <1>1, <2>3 DEF Machines
  <2>5. Read(m', prepc) = 63 /\ W(m.pc - 1) = prepc
    <3>1. W(prepc) = prepc
      BY <2>3, WordInt, SMT DEF W
    <3> QED  BY <2>2, <2>4, <3>1 DEF Read
  <2>6. Behind'
    BY <2>1, <2>4, <2>5 DEF Behind
  <2> HIDE DEF pc1
  <2> QED  BY <2>1, <2>2, <2>6 DEF Stepping
<1> QED  BY <1>2, <1>3, <1>4

LEMMA OtherStepping == ASSUME Stepping, LoopAgain \/ User \/ UNCHANGED vars PROVE Stepping'
<1>1. CASE LoopAgain
  <2>1. /\ m' = m /\ prepc' = prepc /\ step' = step /\ command' = command /\ active' = step
        /\ phase = "loop" /\ phase' = "run"
    BY <1>1 DEF LoopAgain
  <2>2. Behind => Behind'
    BY <2>1 DEF Behind
  <2> QED  BY <2>1, <2>2, Zenon DEF Stepping
<1>2. CASE Go \/ StepOver
  <2>1. command'.kind # "n"
    <3> DEFINE a == W(m.pc + stepcnt)
    <3>1. command' = [kind |-> "g"] \/ command' = [kind |-> "over", badrin |-> a]
      BY <1>2 DEF Go, StepOver
    <3> HIDE DEF a
    <3> QED  BY <3>1
  <2> QED  BY <2>1 DEF Stepping
<1>3. CASE Next_n
  <2>1. phase' = "run" /\ active' = TRUE /\ step' = TRUE /\ prepc' = m'.pc /\ done' = 0
    BY <1>3 DEF Next_n, Begin
  <2> QED  BY <2>1 DEF Stepping
<1>4. CASE SetBreak \/ TakenByPrompt
  <2>1. phase = "prompt" /\ command' = command
    BY <1>4 DEF SetBreak, TakenByPrompt, AtPrompt, loopVars
  <2> QED  BY <2>1 DEF Stepping
<1>5. CASE Key \/ Signal \/ UNCHANGED vars
  <2>1. /\ m' = m /\ prepc' = prepc /\ step' = step /\ command' = command /\ phase' = phase /\ done' = done
        /\ active' = TRUE \/ active' = active
    BY <1>5 DEF Key, Signal, vars, loopVars, history
  <2>2. Behind => Behind'
    BY <2>1 DEF Behind
  <2>3. CASE active' = TRUE
    BY <2>1, <2>2, <2>3, Zenon DEF Stepping
  <2>4. CASE active' = active
    BY <2>1, <2>2, <2>4, Zenon DEF Stepping
  <2> QED  BY <2>1, <2>3, <2>4
<1> QED  BY <1>1, <1>2, <1>3, <1>4, <1>5 DEF User

LEMMA SteppingInvariant == ASSUME TracesApart PROVE Spec => []Stepping
<1>1. Init => Stepping
  BY DEF Init, Stepping
<1>2. Types /\ Framed /\ Stepping /\ [Next]_vars => Stepping'
  BY RunStepping, HostStepping, TailStepping, OtherStepping DEF Next, Machine, Rest
<1> QED  BY <1>1, <1>2, TracesApart, FramedInvariant, PTL DEF Spec

\* The command n ends with the instruction it executes, unless that one asks
\* the host: then the inner loop has been left with the console inactive, and
\* the outer one goes on behind the interrupt or repeats it - for every
\* program of calls, key, break point and SIGINT, with trace points apart as
\* above.
THEOREM StepsOne == ASSUME TracesApart PROVE Spec => StepIsOne
<1>1. Stepping /\ (Call \/ Transfer \/ Return \/ Instruction) /\ command.kind = "n"
        => done = 0 \/ 63 \in {Read(m, m.pc), Read(m, W(m.pc - 1))}
  BY DEF Stepping, Behind, Call, Transfer, Return, Instruction
<1>2. Stepping => [(Call \/ Transfer \/ Return \/ Instruction) /\ command.kind = "n" =>
                     done = 0 \/ 63 \in {Read(m, m.pc), Read(m, W(m.pc - 1))}]_vars
  BY <1>1
<1> QED  BY <1>2, TracesApart, SteppingInvariant, PTL DEF StepIsOne

-----------------------------------------------------------------------------
(* The disk FMS relies on.                                                 *)

\* Images as FLEX formats them: the services name sectors of the tracks of
\* 36, which exist or are on a drive without an image, and every sector
\* there is has one of the contents.
Geometry == Byte \X Byte \X (1 .. 36)
Formatted ==
  /\ Sectors \subseteq Geometry
  /\ \A s \in Sectors : s \in Existing \/ s[1] > 3 \/ Images[s[1]] = <<>>
  /\ \A s \in Existing : \E v \in Values : Holds(Images[s[1]][Documented(s)], v)

\* The place of a sector in its image is the documented one, and its own.
LEMMA PlacesDiffer ==
  ASSUME NEW s \in Geometry
  PROVE  /\ K!BlockOf(s[2], s[3]) + 1 = Documented(s) /\ Documented(s) \in Nat \ {0}
         /\ \A t \in Geometry : s[1] = t[1] /\ Documented(s) = Documented(t) => s = t
<1>1. s[2] \in Nat /\ s[3] \in 1 .. 36
  BY DEF Byte, Geometry
<1>2. (36 * s[2]) + s[3] - 1 >= 0 /\ (36 * s[2]) + s[3] \in Nat \ {0}
  BY <1>1
<1>3. K!BlockOf(s[2], s[3]) + 1 = Documented(s) /\ Documented(s) \in Nat \ {0}
  BY <1>1, <1>2 DEF K!BlockOf, K!TrackSectors, Documented
<1>4. ASSUME NEW t \in Geometry, s[1] = t[1], Documented(s) = Documented(t)
      PROVE  s = t
  <2>1. t[2] \in Nat /\ t[3] \in 1 .. 36
    BY DEF Byte, Geometry
  <2>2. (36 * s[2]) + s[3] = (36 * t[2]) + t[3]
    BY <1>4 DEF Documented
  <2>3. s[2] = t[2] /\ s[3] = t[3]
    <3> DEFINE a == s[2]
               b == s[3]
               c == t[2]
               d == t[3]
    <3>1. a \in Nat /\ c \in Nat /\ b \in 1 .. 36 /\ d \in 1 .. 36 /\ (36 * a) + b = (36 * c) + d
      BY <1>1, <2>1, <2>2
    <3> HIDE DEF a, b, c, d
    <3>2. a = c /\ b = d
      BY <3>1, SMT
    <3> QED  BY <3>2 DEF a, b, c, d
  <2> QED  BY <1>4, <2>3 DEF Geometry
<1>5. \A t \in Geometry : s[1] = t[1] /\ Documented(s) = Documented(t) => s = t
  BY <1>4
<1> QED  BY <1>3, <1>5

\* A sector filled with a name's contents has that name.
LEMMA ValueFound ==
  ASSUME NEW block, NEW v \in Values, Holds(block, v)
  PROVE  ValueOf(block) = v
<1>1. 0 \in 0 .. SectorBytes - 1
  BY Size
<1>2. \A w \in Values : (Pattern[w] + 0) % 256 = Pattern[w]
  <2> SUFFICES ASSUME NEW w \in Values PROVE (Pattern[w] + 0) % 256 = Pattern[w]
    OBVIOUS
  <2>1. Pattern[w] \in 0 .. 255
    BY PatternAssumption DEF Values, Byte
  <2> QED  BY <2>1
<1>3. ASSUME NEW w \in Values, Holds(block, w) PROVE w = v
  <2>1. block[0] = (Pattern[w] + 0) % 256 /\ block[0] = (Pattern[v] + 0) % 256
    BY <1>1, <1>3 DEF Holds
  <2> QED  BY <1>2, <2>1, ContentsAssumption DEF Values
<1> QED  BY <1>3 DEF ValueOf

LEMMA ValueNamed == ASSUME NEW block PROVE ValueOf(block) \in Values \cup {"mixed"}
  BY DEF ValueOf

-----------------------------------------------------------------------------
(* The image files.                                                        *)

LEMMA ReadFile ==
  ASSUME NEW k \in DiskStates, NEW t \in Byte, NEW s \in Byte, NEW l, l = K!FileRead(k, t, s)
  PROVE  /\ l \in DiskStates /\ l.images = k.images /\ l.seldrv = k.seldrv
         /\ LET b == K!BlockOf(t, s) + 1 IN
            K!Ready(k) /\ b <= Len(k.images[k.seldrv]) => K!Half(l) = k.images[k.seldrv][b]
<1> DEFINE image == k.images[k.seldrv]
           b == K!BlockOf(t, s) + 1
           k1 == [k EXCEPT !.fdc.dmax = SectorBytes]
           buf == IF b <= Len(image) THEN K!Filled(k, image[b]) ELSE k.buf
<1>1. l \in DiskStates
  BY FileReadTyped
<1>2. CASE ~K!Ready(k)
  BY <1>1, <1>2 DEF K!FileRead
<1>3. CASE K!Ready(k)
  <2>1. l = [k1 EXCEPT !.buf = buf]
    BY <1>3 DEF K!FileRead
  <2>2. k1.images = k.images /\ k1.seldrv = k.seldrv /\ DOMAIN k1 = {"images", "seldrv", "buf", "fdc"}
    BY DEF DiskStates
  <2> HIDE DEF k1
  <2>3. l.images = k.images /\ l.seldrv = k.seldrv /\ l.buf = buf
    <3> HIDE DEF buf
    <3> QED  BY <2>1, <2>2
  <2>4. ASSUME b <= Len(image) PROVE K!Half(l) = image[b]
    <3>1. b \in Nat \ {0}
      BY BlockOfNat
    <3>2. image \in Seq(Blocks)
      BY <1>3 DEF K!Ready, DiskStates
    <3> HIDE DEF b, image
    <3>3. image[b] \in Blocks
      BY <2>4, <3>1, <3>2
    <3>4. l.buf = K!Filled(k, image[b])
      BY <2>3, <2>4
    <3>5. k.buf \in [0 .. (2 * SectorBytes) - 1 -> Byte]
      BY DEF DiskStates, Buffers
    <3>6. \A i \in 0 .. SectorBytes - 1 : i \in DOMAIN k.buf /\ i < SectorBytes
      BY <3>5, Size
    <3>7. \A i \in 0 .. SectorBytes - 1 : l.buf[i] = image[b][i]
      BY <3>4, <3>6 DEF K!Filled
    <3> QED  BY <3>3, <3>7 DEF K!Half, Blocks
  <2> QED  BY <1>1, <2>3, <2>4
<1> QED  BY <1>2, <1>3

\* k has become l, whose sector holds the bytes of the buffer.
FileWritten(k, l, t, s) ==
  /\ l \in DiskStates /\ l.seldrv = k.seldrv
  /\ ~K!Ready(k) => l.images = k.images
  /\ LET b == K!BlockOf(t, s) + 1 IN
     K!Ready(k) /\ b <= Len(k.images[k.seldrv]) =>
       /\ \A d : d # k.seldrv => l.images[d] = k.images[d]
       /\ Len(l.images[k.seldrv]) = Len(k.images[k.seldrv])
       /\ \A i \in 1 .. Len(k.images[k.seldrv]) :
            l.images[k.seldrv][i] = IF i = b THEN K!Half(k) ELSE k.images[k.seldrv][i]

LEMMA WriteFile ==
  ASSUME NEW k \in DiskStates, NEW t \in Byte, NEW s \in Byte, NEW l, l = K!FileWrite(k, t, s)
  PROVE  FileWritten(k, l, t, s)
<1> DEFINE image == k.images[k.seldrv]
           b == K!BlockOf(t, s) + 1
           n == IF b > Len(image) THEN b ELSE Len(image)
           longer == [i \in 1 .. n |-> IF i = b THEN K!Half(k)
                                       ELSE IF i <= Len(image) THEN image[i] ELSE K!Zeros]
<1>1. l \in DiskStates
  BY FileWriteTyped
<1>2. CASE ~K!Ready(k)
  BY <1>1, <1>2 DEF K!FileWrite, FileWritten
<1>3. CASE K!Ready(k)
  <2>1. l = [k EXCEPT !.images[k.seldrv] = longer]
    BY <1>3 DEF K!FileWrite
  <2>2. k.seldrv \in DOMAIN k.images /\ image \in Seq(Blocks)
    BY <1>3 DEF K!Ready, DiskStates
  <2>3. /\ l.seldrv = k.seldrv /\ l.images[k.seldrv] = longer
        /\ \A d : d # k.seldrv => l.images[d] = k.images[d]
    <3> HIDE DEF longer
    <3>1. l.seldrv = k.seldrv /\ l.images = [k.images EXCEPT ![k.seldrv] = longer]
      BY <2>1 DEF DiskStates
    <3>2. DOMAIN l.images = DOMAIN k.images
      BY <3>1
    <3> QED  BY <2>2, <3>1
  <2>4. ASSUME b <= Len(image)
        PROVE  /\ Len(longer) = Len(image)
               /\ \A i \in 1 .. Len(image) : longer[i] = IF i = b THEN K!Half(k) ELSE image[i]
    <3>1. b \in Nat \ {0}
      BY BlockOfNat
    <3> HIDE DEF b, image
    <3>2. n = Len(image) /\ Len(image) \in Nat
      BY <2>2, <2>4, <3>1
    <3>3. \A i \in 1 .. Len(image) : i <= Len(image) /\ image[i] \in Blocks
      BY <2>2
    <3>4. longer = [i \in 1 .. Len(image) |-> IF i = b THEN K!Half(k)
                                              ELSE IF i <= Len(image) THEN image[i] ELSE K!Zeros]
      BY <3>2
    <3>5. \A i \in 1 .. Len(image) : longer[i] = IF i = b THEN K!Half(k) ELSE image[i]
      BY <3>3, <3>4
    <3>6. longer \in Seq(Blocks)
      <4>1. \A i \in 1 .. Len(image) : longer[i] \in Blocks
        BY <3>3, <3>5, HalfTyped
      <4>2. DOMAIN longer = 1 .. Len(image) /\ longer = [i \in 1 .. Len(image) |-> longer[i]]
        BY <3>4
      <4> HIDE DEF longer
      <4>3. longer \in [1 .. Len(image) -> Blocks]
        BY <4>1, <4>2
      <4> QED  BY <3>2, <4>3
    <3>7. DOMAIN longer = 1 .. Len(image)
      BY <3>4
    <3> HIDE DEF longer
    <3>8. Len(longer) = Len(image)
      BY <3>2, <3>6, <3>7
    <3> QED  BY <3>5, <3>8
  <2> QED  BY <1>1, <1>3, <2>3, <2>4 DEF FileWritten
<1> QED  BY <1>2, <1>3

-----------------------------------------------------------------------------
(* What a driver for the disk has done so far.                             *)

Serving == stage # "none" /\ IsDisk(call)

\* The host has answered: n is behind the interrupt or has returned.
Past(n) == n.pc \in {Home, Back} \/ Offset(n) - Starts[Running] \in {9, 11}

\* A sector that is to be written is in the buffer.
Loaded(n) ==
  call.op = "write" => \A i \in 0 .. SectorBytes - 1 : Read(n, Buffer + i) = (Pattern[call.value] + i) % 256

Chosen == disks.seldrv = call.sector[1]

\* The drive is being selected.
Chooses ==
  /\ saved.x = Fcb /\ Read(saved, Fcb + 3) = call.sector[1]
  /\ phase # "swi" /\ Past(m) => Chosen
  /\ m.pc = Home => Loaded(m)

\* What the driver hands over, flag and sector.
Delivered ==
  /\ m.cc.z # 0 <=> call.sector \in Existing
  /\ call.op = "read" /\ call.sector \in Existing =>
       \A i \in 0 .. SectorBytes - 1 : Read(m, Buffer + i) = Image(call.sector)[Documented(call.sector)][i]

\* The sector is being transferred.
Transfers ==
  /\ Chosen /\ D(saved) = 256 * call.sector[2] + call.sector[3]
  /\ answered <=> phase = "swi" \/ Past(m)
  /\ phase # "swi" /\ Past(m) => Delivered

\* Images never change their sizes.
SameSizes == \A d \in K!Drives : Len(disks.images[d]) = Len(Images[d])

Served ==
  /\ SameSizes
  /\ answered => stage = "transfer"
  /\ Serving => Loaded(saved) /\ (stage = "select" => Chooses) /\ (stage = "transfer" => Transfers)

LEMMA ServingRuns ==
  ASSUME Framed, Serving
  PROVE  /\ call \in Services /\ stage \in {"select", "transfer"} /\ Running \in DiskOps
         /\ stage = "select" => Running = "drive"
         /\ stage = "transfer" => Running = call.op /\ call.op \in {"read", "write"} /\ saved.x = Buffer
<1>1. /\ stage \in {"none", "select", "transfer"} /\ stage # "none" /\ IsDisk(call) /\ call \in Services
      /\ stage = "transfer" => saved.x = Buffer
  BY DEF Framed, Caller, Serving
<1>2. call.op \in {"read", "write"}
  BY <1>1 DEF IsDisk
<1> QED  BY <1>1, <1>2 DEF Running, DiskOps

LEMMA DiskPlaces ==
  ASSUME NEW n \in Machines, NEW k, Running \in DiskOps, Within(n, Running, k)
  PROVE  \E i \in {0, 2, 4, 6, 8, 9, 11} : DiskAt(n, Running, i, k)
<1>1. ~AtPlace(Running, Offset(n))
  BY DEF AtPlace, DiskOps
<1>2. ~TerminalAt(n, Running, Offset(n), k)
  BY <1>1 DEF TerminalAt
<1> QED  BY <1>2, WithinPlaces

LEMMA PastPlace ==
  ASSUME NEW n, NEW k, NEW i \in 0 .. 11, Running \in DiskOps, DiskAt(n, Running, i, k)
  PROVE  /\ Past(n) <=> i \in {9, 11}
         /\ n.pc \notin {Home, Back} /\ n.pc >= 62048
<1>1. n.pc = 62000 + (Starts[Running] + i) /\ Starts[Running] \in 48 .. 96
  BY DiskStarts, Numbers DEF DiskAt
<1>2. n.pc \notin {Home, Back} /\ n.pc >= 62048
  BY <1>1, Numbers
<1>3. Offset(n) - Starts[Running] = i
  BY <1>1, Numbers DEF Offset
<1> QED  BY <1>2, <1>3 DEF Past

\* The key that is noticed is never a disk driver's.
LEMMA NoKey ==
  ASSUME Types, Framed, Serving, phase # "swi"
  PROVE  bkeyin = 0
<1>1. m \in Machines /\ Sound(m) /\ Running \in DiskOps
  BY ServingRuns DEF Types, Framed, Frame
<1>2. CASE m.pc \in {Home, Back}
  <2>1. Offset(m) \notin {5, 7, 15, 32, 34}
    BY <1>2, Numbers DEF Offset
  <2> QED  BY <2>1 DEF Framed, Notice
<1>3. CASE m.pc \notin {Home, Back}
  <2>1. Within(m, Running, saved)
    BY <1>3, InDriver
  <2>2. PICK i \in {0, 2, 4, 6, 8, 9, 11} : DiskAt(m, Running, i, saved)
    BY <1>1, <2>1, DiskPlaces
  <2>3. i \in 0 .. 11
    OBVIOUS
  <2>4. m.pc >= 62048 /\ m.pc \in Int
    BY <1>1, <2>2, <2>3, PastPlace, Fields, WordInt
  <2>5. Offset(m) \notin {5, 7, 15, 32, 34}
    BY <2>4, Numbers DEF Offset
  <2> QED  BY <2>5 DEF Framed, Notice
<1> QED  BY <1>2, <1>3

LEMMA SectorPlaces ==
  ASSUME NEW i \in 0 .. SectorBytes - 1, NEW adr, adr = Buffer + i
  PROVE  adr \in Word /\ adr \in Sector /\ adr \notin Scratch /\ W(adr) = adr /\ adr # Fcb + 3
<1>1. i \in Int /\ 0 <= i /\ i < 256 /\ Buffer = 1280
  BY Size, Numbers
<1>2. adr \in Int /\ 1280 <= adr /\ adr < 1536
  BY <1>1
<1>3. adr \in Word /\ W(adr) = adr
  BY <1>2, SMT DEF Word, W
<1>4. adr \notin Scratch
  BY <1>2, <1>3, ScratchPlaces
<1>5. adr \in Sector
  BY <1>1, Size DEF Sector
<1> QED  BY <1>2, <1>3, <1>4, <1>5, Numbers

\* What the driver knows of the buffer it was given.
LEMMA LoadedStays ==
  ASSUME NEW n, NEW k, Loaded(k), \A adr \in Word : adr \notin Scratch => Read(n, adr) = Read(k, adr)
  PROVE  Loaded(n)
<1> SUFFICES ASSUME call.op = "write", NEW i \in 0 .. SectorBytes - 1
             PROVE  Read(n, Buffer + i) = (Pattern[call.value] + i) % 256
  BY DEF Loaded
<1> DEFINE adr == Buffer + i
<1>1. adr \in Word /\ adr \notin Scratch
  BY SectorPlaces
<1>2. Read(k, adr) = (Pattern[call.value] + i) % 256
  BY DEF Loaded
<1> HIDE DEF adr
<1>3. Read(n, adr) = (Pattern[call.value] + i) % 256
  BY <1>1, <1>2
<1> QED  BY <1>3 DEF adr

-----------------------------------------------------------------------------
(* The result FMS will get, or has got.                                    *)

Inv == Types /\ Framed /\ Served

Outcome ==
  IF call.sector \notin Existing THEN "refused" ELSE IF call.op = "write" THEN "ok" ELSE absDisk[call.sector]

Resulted == absResult = IF Asked THEN Outcome ELSE None

LEMMA SectorThere ==
  ASSUME Formatted, Types, SameSizes, NEW s \in Existing
  PROVE  /\ s \in Sectors /\ s \in Geometry /\ s[1] \in K!Drives
         /\ Image(s) \in Seq(Blocks) /\ Image(s) # <<>>
         /\ Documented(s) \in 1 .. Len(Image(s)) /\ Image(s)[Documented(s)] \in Blocks
<1>1. s \in Sectors /\ s \in Geometry /\ s[1] < 4 /\ Documented(s) <= Len(Images[s[1]])
  BY DEF Existing, Formatted
<1>2. s[1] \in K!Drives
  <2> DEFINE d == s[1]
  <2>1. d \in 0 .. 255 /\ d < 4
    BY <1>1 DEF Geometry, Byte
  <2> HIDE DEF d
  <2>2. d \in K!Drives
    BY <2>1 DEF K!Drives
  <2> QED  BY <2>2 DEF d
<1>3. Image(s) \in Seq(Blocks) /\ Len(Image(s)) = Len(Images[s[1]])
  BY <1>2 DEF Types, DiskStates, SameSizes, Image
<1>4. Documented(s) \in Nat \ {0}
  BY <1>1, PlacesDiffer
<1>5. Documented(s) \in 1 .. Len(Image(s))
  BY <1>1, <1>3, <1>4
<1>6. Image(s) # <<>> /\ Image(s)[Documented(s)] \in Blocks
  BY <1>3, <1>5
<1> QED  BY <1>1, <1>2, <1>3, <1>5, <1>6

LEMMA AskedTransfers ==
  ASSUME Framed, Served, Asked
  PROVE  Serving /\ stage = "transfer" /\ Transfers /\ call \in Services /\ call.op \in {"read", "write"}
<1>1. call # None /\ IsDisk(call) /\ answered /\ stage = "transfer"
  BY DEF Asked, Served
<1> QED  BY <1>1 DEF Serving, Served, Framed, Caller, IsDisk

LEMMA AskingPlace ==
  ASSUME Types, Framed, phase = "swi"
  PROVE  m.pc \notin {Home, Back}
<1> DEFINE n == Rti(m)
<1>1. m.pc = n.pc /\ Asking(n, Running, saved) /\ n \in Machines
  BY ReturnsTyped DEF Framed, Frame, Host, Types
<1> HIDE DEF n
<1>2. Offset(n) \in Swis \/ (Running \in DiskOps /\ Offset(n) - Starts[Running] = 9)
  BY <1>1 DEF Asking
<1>3. Running \in DiskOps => Starts[Running] \in 48 .. 96
  BY DiskStarts
<1>4. n.pc \in Int
  BY <1>1, Fields, WordInt
<1>5. n.pc > 60000
  BY <1>2, <1>3, <1>4, Numbers DEF Swis, Offset
<1> QED  BY <1>1, <1>5, Numbers

LEMMA ResultIs == ASSUME Formatted PROVE Inv => Resulted
<1> SUFFICES ASSUME Inv PROVE absResult = IF Asked THEN Outcome ELSE None
  BY DEF Resulted
<1>1. CASE ~Asked
  BY <1>1 DEF absResult
<1>2. CASE Asked /\ ~Arrived
  BY <1>2 DEF absResult, Outcome
<1>3. CASE Asked /\ Arrived
  <2>1. absResult = Seen
    BY <1>3 DEF absResult
  <2>2. Transfers /\ call.op \in {"read", "write"}
    BY <1>3, AskedTransfers DEF Inv
  <2>3. phase # "swi" /\ Past(m)
    BY <1>3, AskingPlace DEF Inv, Arrived, Past
  <2>4. Delivered
    BY <2>2, <2>3 DEF Transfers
  <2>5. CASE call.sector \notin Existing
    BY <2>1, <2>4, <2>5, <1>3 DEF Delivered, Seen, Outcome
  <2>6. CASE call.sector \in Existing /\ call.op = "write"
    BY <2>1, <2>4, <2>6, <1>3 DEF Delivered, Seen, Outcome
  <2>7. CASE call.sector \in Existing /\ call.op = "read"
    <3> DEFINE block == Image(call.sector)[Documented(call.sector)]
               seen  == [i \in 0 .. SectorBytes - 1 |-> Read(m, Buffer + i)]
    <3>1. block \in Blocks
      BY <2>7, SectorThere DEF Inv, Served
    <3>2. \A i \in 0 .. SectorBytes - 1 : Read(m, Buffer + i) = block[i]
      BY <2>4, <2>7 DEF Delivered
    <3>3. seen = block
      <4> HIDE DEF block
      <4> QED  BY <3>1, <3>2 DEF Blocks
    <3>4. Seen = ValueOf(seen)
      BY <2>4, <2>7 DEF Delivered, Seen
    <3>5. absDisk[call.sector] = ValueOf(block)
      BY <2>7 DEF absDisk
    <3> QED  BY <1>3, <2>1, <2>7, <3>3, <3>4, <3>5 DEF Outcome
  <2> QED  BY <2>2, <2>5, <2>6, <2>7
<1> QED  BY <1>1, <1>2, <1>3

LEMMA ResultIsNext == ASSUME Formatted PROVE Inv' => Resulted'
<1>1. Inv => Resulted
  BY ResultIs
<1> QED  BY <1>1, PTL

-----------------------------------------------------------------------------
(* The disks while no host's part of a call runs.                          *)

LEMMA InitServed == ASSUME Init PROVE Served
<1>1. stage = "none" /\ answered = FALSE /\ disks.images = Images
  BY DEF Init, K!Disks
<1> QED  BY <1>1 DEF Served, SameSizes, Serving

\* Nothing a driver for the disk relies on has changed.
LEMMA Calm ==
  ASSUME Served, disks' = disks, UNCHANGED fmsVars,
         Serving => m'.pc = m.pc /\ m'.mem = m.mem /\ m'.cc = m.cc /\ (phase' = "swi" <=> phase = "swi")
  PROVE  Served'
<1>1. disks' = disks /\ call' = call /\ stage' = stage /\ saved' = saved /\ answered' = answered
  BY DEF fmsVars
<1>2. SameSizes' /\ (answered' => stage' = "transfer") /\ (Serving' <=> Serving)
  BY <1>1 DEF Served, SameSizes, Serving, IsDisk
<1>3. ASSUME Serving
      PROVE  Loaded(saved)' /\ (stage' = "select" => Chooses') /\ (stage' = "transfer" => Transfers')
  <2>1. /\ m'.pc = m.pc /\ m'.cc = m.cc /\ (phase' = "swi" <=> phase = "swi")
        /\ \A adr : Read(m', adr) = Read(m, adr)
    BY <1>3 DEF Read
  <2>2. Loaded(saved)' /\ Chosen' = Chosen
    BY <1>1, <1>3 DEF Served, Loaded, Chosen
  <2>3. (Past(m)' <=> Past(m)) /\ (Loaded(m)' <=> Loaded(m))
    BY <1>1, <2>1 DEF Past, Offset, Running, Loaded
  <2>4. Delivered' <=> Delivered
    BY <1>1, <2>1 DEF Delivered, Image
  <2>5. stage = "select" => Chooses'
    BY <1>1, <1>3, <2>1, <2>2, <2>3 DEF Served, Chooses
  <2>6. stage = "transfer" => Transfers'
    BY <1>1, <1>3, <2>1, <2>2, <2>3, <2>4 DEF Served, Transfers
  <2> QED  BY <1>1, <2>2, <2>5, <2>6
<1> QED  BY <1>2, <1>3 DEF Served

LEMMA LoopServed == ASSUME Served, LoopAgain PROVE Served'
<1>1. m' = m /\ disks' = disks /\ UNCHANGED fmsVars /\ phase = "loop" /\ phase' = "run"
  BY DEF LoopAgain, devices
<1> QED  BY <1>1, Calm

LEMMA RestServed == ASSUME Served, UNCHANGED vars PROVE Served'
<1>1. m' = m /\ disks' = disks /\ UNCHANGED fmsVars /\ phase' = phase
  BY DEF vars, devices, loopVars
<1> QED  BY <1>1, Calm

LEMMA UserServed == ASSUME Served, User PROVE Served'
<1>1. m' = m /\ disks' = disks /\ UNCHANGED fmsVars
  BY DEF User, Go, Next_n, StepOver, SetBreak, AtPrompt, TakenByPrompt, Key, Signal, devices
<1>2. phase' = phase \/ (phase = "prompt" /\ phase' = "run")
  BY DEF User, Go, Next_n, StepOver, SetBreak, AtPrompt, TakenByPrompt, Key, Signal, Begin, loopVars
<1> QED  BY <1>1, <1>2, Calm

LEMMA TailServed == ASSUME Types, Framed, Served, TailEnds PROVE Served'
<1> DEFINE pc1 == IF Noticed /\ bkeyin # 0 THEN prepc ELSE m.pc
<1>1. phase = "tail" /\ m' = [m EXCEPT !.pc = pc1] /\ disks' = disks /\ UNCHANGED fmsVars
  BY DEF TailEnds, devices
<1>2. phase' # "swi"
  BY ComesBack DEF TailEnds, GoesOn
<1>3. Serving => m'.pc = m.pc /\ m'.mem = m.mem /\ m'.cc = m.cc
  <2> SUFFICES ASSUME Serving PROVE m'.pc = m.pc /\ m'.mem = m.mem /\ m'.cc = m.cc
    OBVIOUS
  <2>1. pc1 = m.pc
    BY <1>1, NoKey
  <2> HIDE DEF pc1
  <2> QED  BY <1>1, <2>1 DEF Types, Machines
<1> QED  BY <1>1, <1>2, <1>3, Calm

-----------------------------------------------------------------------------
(* FMS asks for a sector.                                                  *)

\* The bytes of a sector that was copied into FMS' buffer.
LEMMA CopiedSector ==
  ASSUME NEW m0 \in Machines, NEW block, NEW n, n = Copied(m0, Buffer, block), NEW i \in 0 .. SectorBytes - 1
  PROVE  Read(n, Buffer + i) = block[i]
<1> DEFINE S0 == {W(Buffer + j) : j \in 0 .. SectorBytes - 1}
           f == [a \in S0 |-> block[W(a - Buffer)]]
           g == Over(f, m0.mem)
           adr == Buffer + i
<1>1. W(adr) = adr
  BY SectorPlaces
<1>2. adr \in S0
  BY <1>1
<1>3. W(adr - Buffer) = i
  <2>1. i \in Int /\ 0 <= i /\ i < 256 /\ Buffer \in Int
    BY Size, Numbers
  <2>2. adr - Buffer = i
    BY <2>1
  <2> HIDE DEF adr
  <2> QED  BY <2>1, <2>2 DEF W
<1>4. n = [m0 EXCEPT !.mem = g]
  BY DEF Copied
<1>5. n.mem = g
  <2> HIDE DEF g
  <2> QED  BY <1>4 DEF Machines
<1> HIDE DEF adr, S0
<1>6. f[adr] = block[i] /\ adr \in DOMAIN f
  BY <1>2, <1>3
<1>7. adr \in DOMAIN g /\ g[adr] = f[adr]
  <2> HIDE DEF f
  <2> QED  BY <1>6 DEF Over
<1> HIDE DEF f, g
<1>8. Read(n, adr) = block[i]
  BY <1>5, <1>6, <1>7 DEF Read
<1> QED  BY <1>8 DEF adr

\* A driver for the disk has only been entered.
LEMMA DiskEntered ==
  ASSUME Types, Framed, phase = "run", m.pc = Home, NEW R \in DiskOps, NEW m1 \in Machines,
         Code(m1), m1.pc = Home, m1.s = Stack, Enter(R, m1), Running' = R
  PROVE  m'.pc # Home /\ ~Past(m)' /\ phase' # "swi" /\ disks' = disks /\ saved' = m1
<1>1. Step(WriteW(m1, Home + 1, Entry[R])) /\ saved' = m1
  BY DEF Enter
<1>2. R \in Routine
  BY DEF DiskOps, Routine
<1>3. m' = Execute(WriteW(m1, Home + 1, Entry[R])) /\ disks' = disks
  BY <1>1 DEF Step, devices
<1>4. Entered(m', R, m1)
  BY <1>2, <1>3, Enters
<1>5. phase' # "swi"
  BY <1>1, <1>4, StepGives DEF Entered
<1>6. Offset(m') = Starts[R] /\ Starts[R] \in 48 .. 96
  BY <1>4, DiskStarts DEF Entered
<1>7. m'.pc \in Int
  <2>1. WriteW(m1, Home + 1, Entry[R]) \in Machines
    BY <1>2, EnterTyped
  <2> QED  BY <1>3, <2>1, ExecuteTyped, Fields, WordInt
<1>8. m'.pc \notin {Home, Back} /\ Offset(m') - Starts[R] \notin {9, 11}
  <2>1. m'.pc = 62000 + Starts[R]
    BY <1>6, <1>7, Numbers DEF Offset
  <2> QED  BY <1>6, <2>1, Numbers
<1>9. ~Past(m)'
  BY <1>8 DEF Past, Offset
<1> QED  BY <1>1, <1>3, <1>5, <1>8, <1>9

LEMMA CallServed == ASSUME Types, Framed, Served, Call PROVE Served'
<1>1. PICK q \in Services : (Select(q) \/ Single(q)) /\ call' = q
  BY DEF Call
<1>2. phase = "run" /\ m.pc = Home /\ stage = "none" /\ answered' = answered
  BY DEF Call
<1>3. Code(m) /\ m.s = Stack /\ m \in Machines
  BY <1>2, AtHome DEF Idle, Types
<1>4. ~answered'
  BY <1>2 DEF Served
<1>5. CASE Single(q)
  <2>1. disks' = disks
    BY <1>5 DEF Single, Enter, Step, devices
  <2>2. SameSizes'
    BY <2>1 DEF Served, SameSizes
  <2>3. ~Serving'
    BY <1>1, <1>5 DEF Single, Serving, IsDisk
  <2> QED  BY <1>4, <2>2, <2>3 DEF Served
<1>6. CASE Select(q)
  <2> DEFINE m0 == [m EXCEPT !.x = Fcb]
             m1 == Write(m0, Fcb + 3, q.sector[1])
             block == [i \in 0 .. SectorBytes - 1 |-> (Pattern[q.value] + i) % 256]
             m2 == IF q.op = "read" THEN m1 ELSE Copied(m1, Buffer, block)
  <2>1. IsDisk(q) /\ Enter("drive", m2) /\ stage' = "select"
    BY <1>6 DEF Select
  <2>2. q.sector[1] \in Byte
    BY <2>1, ServiceTyped
  <2>3. m1 \in Machines /\ Code(m1) /\ m1.pc = Home /\ m1.s = Stack
    <3>1. m1 \in Machines
      BY <2>2, FcbWritten
    <3> QED  BY <1>2, <1>3, <3>1, FcbCode
  <2>4. q.op # "read" => block \in Blocks
    <3> SUFFICES ASSUME q.op # "read" PROVE block \in Blocks
      OBVIOUS
    <3>1. q.op = "write"
      BY <2>1 DEF IsDisk
    <3>2. Pattern[q.value] \in Int
      BY <3>1, ServiceTyped, ByteInt
    <3>3. \A i \in 0 .. SectorBytes - 1 : (Pattern[q.value] + i) % 256 \in Byte
      BY <3>2, ModByte
    <3> QED  BY <3>3 DEF Blocks
  <2>5. m2 \in Machines
    <3>1. Buffer \in Word
      BY SMT DEF Buffer, Word
    <3> HIDE DEF m1, block
    <3> QED  BY <2>3, <2>4, <3>1, CopiedTyped
  <2>6. Code(m2) /\ m2.pc = Home /\ m2.s = Stack
    <3> HIDE DEF m1, block
    <3> QED  BY <2>3, BufferCode
  <2>7. m0 \in Machines /\ m0.x = Fcb
    <3>1. Fcb \in Word
      BY SMT DEF Fcb, Word
    <3> QED  BY <1>3, <3>1, OtherSet DEF Machines
  <2>8. m1.x = Fcb /\ Read(m1, Fcb + 3) = q.sector[1]
    <3> HIDE DEF m0
    <3> QED  BY <2>7, WriteReads DEF AsIn, Regs
  <2>9. m2.x = Fcb /\ Read(m2, Fcb + 3) = q.sector[1]
    <3> HIDE DEF m1, block
    <3>1. CASE q.op = "read"
      BY <2>8, <3>1
    <3>2. CASE q.op # "read"
      <4>1. Fcb + 3 \in Word /\ Fcb + 3 \notin Sector
        <5>1. Fcb + 3 \in Word
          BY SMT DEF Fcb, Word
        <5> QED  BY <5>1, Numbers, ScratchPlaces
      <4> QED  BY <2>3, <2>8, <3>2, <4>1, SectorCopied DEF AsIn, Regs
    <3> QED  BY <3>1, <3>2
  <2>10. q.op = "write" => \A i \in 0 .. SectorBytes - 1 : Read(m2, Buffer + i) = (Pattern[q.value] + i) % 256
    <3> SUFFICES ASSUME q.op = "write", NEW i \in 0 .. SectorBytes - 1
                 PROVE  Read(m2, Buffer + i) = (Pattern[q.value] + i) % 256
      OBVIOUS
    <3>1. block[i] = (Pattern[q.value] + i) % 256
      OBVIOUS
    <3> HIDE DEF m1, block
    <3>2. m2 = Copied(m1, Buffer, block)
      OBVIOUS
    <3> QED  BY <2>3, <3>1, <3>2, CopiedSector
  <2> HIDE DEF m0, m1, block, m2
  <2>11. "drive" \in DiskOps /\ Running' = "drive"
    BY <2>1 DEF DiskOps, Running
  <2>12. m'.pc # Home /\ ~Past(m)' /\ phase' # "swi" /\ disks' = disks /\ saved' = m2
    BY <1>2, <2>1, <2>5, <2>6, <2>11, DiskEntered
  <2>13. SameSizes'
    BY <2>12 DEF Served, SameSizes
  <2>14. Loaded(saved)'
    BY <1>1, <2>10, <2>12 DEF Loaded
  <2>15. Chooses'
    BY <1>1, <2>9, <2>12 DEF Chooses
  <2> QED  BY <1>4, <2>1, <2>13, <2>14, <2>15 DEF Served
<1> QED  BY <1>1, <1>5, <1>6

LEMMA TransferServed == ASSUME Types, Framed, Served, Transfer PROVE Served'
<1> DEFINE m1 == [m EXCEPT !.x = Buffer]
           m2 == [m1 EXCEPT !.a = call.sector[2]]
           m3 == [m2 EXCEPT !.b = call.sector[3]]
<1>1. /\ phase = "run" /\ m.pc = Home /\ stage = "select" /\ stage' = "transfer" /\ call' = call
      /\ call \in Services /\ IsDisk(call) /\ answered' = answered
  BY DEF Transfer, Types
<1>2. call.op \in DiskOps /\ call.sector[2] \in Byte /\ call.sector[3] \in Byte
  BY <1>1, ServiceTyped DEF IsDisk, DiskOps
<1>3. Code(m) /\ m.s = Stack /\ m \in Machines
  BY <1>1, AtHome DEF Idle, Types
<1>4. m1 \in Machines /\ m1.mem = m.mem /\ m1.pc = m.pc /\ m1.s = m.s
  <2>1. Buffer \in Word
    BY SMT DEF Buffer, Word
  <2> QED  BY <1>3, <2>1, OtherSet DEF Machines
<1>5. m2 \in Machines /\ m2.mem = m.mem /\ m2.pc = m.pc /\ m2.s = m.s /\ m2.a = call.sector[2]
  <2> HIDE DEF m1
  <2> QED  BY <1>2, <1>4, OtherSet DEF Machines
<1>6. /\ m3 \in Machines /\ m3.mem = m.mem /\ m3.pc = m.pc /\ m3.s = m.s /\ m3.a = call.sector[2]
      /\ m3.b = call.sector[3]
  <2> HIDE DEF m2
  <2> QED  BY <1>2, <1>5, OtherSet DEF Machines
<1>7. Enter(call.op, m3)
  <2>1. [m EXCEPT !.x = Buffer, !.a = call.sector[2], !.b = call.sector[3]] = m3
    BY SMT
  <2> HIDE DEF m3
  <2> QED  BY <2>1 DEF Transfer
<1> HIDE DEF m3
<1>8. Code(m3)
  BY <1>3, <1>6 DEF Code, Read
<1>9. Running' = call.op
  BY <1>1 DEF Running
<1>10. m'.pc # Home /\ ~Past(m)' /\ phase' # "swi" /\ disks' = disks /\ saved' = m3
  BY <1>1, <1>2, <1>3, <1>6, <1>7, <1>8, <1>9, DiskEntered
<1>11. SameSizes'
  BY <1>10 DEF Served, SameSizes
<1>12. Chooses /\ ~answered
  BY <1>1 DEF Served, Serving
<1>13. Chosen /\ Loaded(m)
  BY <1>1, <1>12 DEF Chooses, Past
<1>14. Chosen'
  BY <1>1, <1>10, <1>13 DEF Chosen
<1>15. Loaded(saved)'
  BY <1>1, <1>6, <1>10, <1>13 DEF Loaded, Read
<1>16. Transfers'
  BY <1>1, <1>6, <1>10, <1>12, <1>14 DEF Transfers, D
<1> QED  BY <1>1, <1>11, <1>12, <1>15, <1>16 DEF Served

LEMMA ReturnServed == ASSUME Types, Framed, Served, Return PROVE Served'
<1>1. phase = "run" /\ m.pc = Back /\ disks' = disks
  BY DEF Return, Step, devices
<1>2. SameSizes'
  BY <1>1 DEF Served, SameSizes
<1>3. CASE stage # "select"
  <2>1. stage' = "none" /\ answered' = FALSE
    BY <1>3 DEF Return
  <2> QED  BY <1>2, <2>1 DEF Served, Serving
<1>4. CASE stage = "select"
  <2>1. m' = Execute(m) /\ Step(m) /\ call' = call /\ stage' = stage /\ saved' = saved /\ answered' = answered
    BY <1>4 DEF Return, Step
  <2>2. m \in Machines /\ Code(m) /\ Returned(m, Running, saved)
    BY <1>1, AtBack DEF Types
  <2>3. m'.err = "none" /\ m'.pc = Home /\ SameMemory(m', m)
    BY <1>1, <2>1, <2>2, Branches
  <2>4. phase' # "swi"
    BY <1>1, <2>1, <2>3, StepGives
  <2>5. Serving /\ Loaded(saved) /\ Chooses /\ ~answered
    BY <1>4 DEF Served, Serving, Framed, Caller
  <2>6. Chosen
    BY <1>1, <2>5 DEF Chooses, Past
  <2>7. \A adr \in Word : adr \notin Scratch => Read(m', adr) = Read(saved, adr)
    <3>1. KeepsSector(m, saved, "drive")
      BY <1>4, <2>2 DEF Returned, Running
    <3> QED  BY <2>3, <3>1 DEF KeepsSector, SameMemory
  <2>8. Loaded(m')
    BY <2>5, <2>7, LoadedStays
  <2>9. Loaded(m)' /\ Loaded(saved)' /\ Chosen'
    BY <1>1, <2>1, <2>5, <2>6, <2>8 DEF Loaded, Chosen
  <2>10. Chooses'
    BY <2>1, <2>5, <2>9 DEF Chooses
  <2> QED  BY <1>2, <1>4, <2>1, <2>5, <2>9, <2>10 DEF Served
<1> QED  BY <1>3, <1>4

\* One instruction of a driver for the disk.
LEMMA DiskInstruction ==
  ASSUME Types, Framed, Instruction, Serving
  PROVE  \E i \in {0, 2, 4, 6, 8, 9, 11} :
           /\ DiskAt(m, Running, i, saved) /\ Running' = Running
           /\ i \in {0, 2, 4, 6} => phase' # "swi" /\ DiskAt(m', Running, i + 2, saved)
           /\ i = 8 => phase' = "swi" /\ m'.pc = Base + (Starts[Running] + 9)
           /\ i = 9 => DiskAt(m', Running, 11, saved)
           /\ i = 11 => m'.pc = Back
           /\ i \in {9, 11} => phase' # "swi" /\ SameMemory(m', m) /\ m'.cc = m.cc
<1>1. phase = "run" /\ Step(m) /\ m' = Execute(m) /\ stage' = stage /\ call' = call /\ saved' = saved
  BY DEF Instruction, Step
<1>2. m \in Machines /\ Code(m) /\ Within(m, Running, saved)
  BY <1>1, InDriver DEF Instruction
<1>3. Running \in DiskOps /\ Running' = Running
  BY <1>1, ServingRuns DEF Framed, Running
<1>4. PICK i \in {0, 2, 4, 6, 8, 9, 11} : DiskAt(m, Running, i, saved)
  BY <1>2, <1>3, DiskPlaces
<1> DEFINE R == Running
<1>5. m'.err # "swi" <=> phase' # "swi"
  BY <1>1, StepGives
<1>6. CASE i = 0
  <2>1. m'.err = "none" /\ DiskAt(m', R, 2, saved)
    BY <1>1, <1>2, <1>3, <1>4, <1>6, StepPushY
  <2> QED  BY <1>3, <1>4, <1>5, <1>6, <2>1
<1>7. CASE i = 2
  <2>1. m'.err = "none" /\ DiskAt(m', R, 4, saved)
    BY <1>1, <1>2, <1>3, <1>4, <1>7, StepTfrDY
  <2> QED  BY <1>3, <1>4, <1>5, <1>7, <2>1
<1>8. CASE i = 4
  <2>1. m'.err = "none" /\ DiskAt(m', R, 6, saved)
    BY <1>1, <1>2, <1>3, <1>4, <1>8, StepLdB
  <2> QED  BY <1>3, <1>4, <1>5, <1>8, <2>1
<1>9. CASE i = 6
  <2>1. m'.err = "none" /\ DiskAt(m', R, 8, saved)
    BY <1>1, <1>2, <1>3, <1>4, <1>9, StepLdA6
  <2> QED  BY <1>3, <1>4, <1>5, <1>9, <2>1
<1>10. CASE i = 8
  <2>1. m'.err = "swi" /\ m'.pc = Base + (Starts[R] + 9)
    BY <1>1, <1>2, <1>3, <1>4, <1>10, StepAsk
  <2> QED  BY <1>3, <1>4, <1>5, <1>10, <2>1
<1>11. CASE i = 9
  <2>1. m'.err = "none" /\ DiskAt(m', R, 11, saved) /\ SameMemory(m', m) /\ m'.cc = m.cc
    BY <1>1, <1>2, <1>3, <1>4, <1>11, StepPullY
  <2> QED  BY <1>3, <1>4, <1>5, <1>11, <2>1
<1>12. CASE i = 11
  <2>1. m'.err = "none" /\ Returned(m', R, saved) /\ SameMemory(m', m) /\ m'.cc = m.cc
    BY <1>1, <1>2, <1>3, <1>4, <1>12, StepBack
  <2> QED  BY <1>3, <1>4, <1>5, <1>12, <2>1 DEF Returned
<1> QED  BY <1>4, <1>6, <1>7, <1>8, <1>9, <1>10, <1>11, <1>12

LEMMA InstructionServed == ASSUME Types, Framed, Served, Instruction PROVE Served'
<1>1. /\ phase = "run" /\ stage' = stage /\ call' = call /\ saved' = saved /\ disks' = disks
      /\ answered' = (answered \/ (stage = "transfer" /\ phase' = "swi"))
      /\ m.pc # Home
  BY DEF Instruction, Step, devices
<1>2. SameSizes' /\ (answered' => stage' = "transfer") /\ (Serving' <=> Serving)
  BY <1>1 DEF Served, SameSizes, Serving, IsDisk
<1>3. ASSUME Serving
      PROVE  Loaded(saved)' /\ (stage' = "select" => Chooses') /\ (stage' = "transfer" => Transfers')
  <2>1. PICK i \in {0, 2, 4, 6, 8, 9, 11} :
           /\ DiskAt(m, Running, i, saved) /\ Running' = Running
           /\ i \in {0, 2, 4, 6} => phase' # "swi" /\ DiskAt(m', Running, i + 2, saved)
           /\ i = 8 => phase' = "swi" /\ m'.pc = Base + (Starts[Running] + 9)
           /\ i = 9 => DiskAt(m', Running, 11, saved)
           /\ i = 11 => m'.pc = Back
           /\ i \in {9, 11} => phase' # "swi" /\ SameMemory(m', m) /\ m'.cc = m.cc
    BY <1>3, DiskInstruction
  <2>2. Running \in DiskOps
    BY <1>3, ServingRuns DEF Framed
  <2>3. i \in 0 .. 11 /\ (i \in {0, 2, 4, 6} => i + 2 \in 0 .. 11 /\ i + 2 \notin {9, 11})
    OBVIOUS
  <2>4. Past(m) <=> i \in {9, 11}
    BY <2>1, <2>2, <2>3, PastPlace
  <2>5. Past(m)' <=> Past(m')
    BY <2>1 DEF Past, Offset
  <2>6. i \in {0, 2, 4, 6} => ~Past(m') /\ m'.pc # Home
    BY <2>1, <2>2, <2>3, PastPlace
  <2>7. i = 8 => Past(m') /\ m'.pc # Home
    <3> SUFFICES ASSUME i = 8 PROVE Past(m') /\ m'.pc # Home
      OBVIOUS
    <3>1. m'.pc = 62000 + (Starts[Running] + 9) /\ Starts[Running] \in 48 .. 96
      BY <2>1, <2>2, DiskStarts, Numbers
    <3>2. Offset(m') - Starts[Running] = 9 /\ m'.pc # Home
      BY <3>1, Numbers DEF Offset
    <3> QED  BY <3>2 DEF Past
  <2>8. i = 9 => Past(m') /\ m'.pc # Home
    <3>1. 11 \in 0 .. 11
      OBVIOUS
    <3> QED  BY <2>1, <2>2, <3>1, PastPlace
  <2>9. i = 11 => Past(m') /\ m'.pc # Home
    BY <2>1, Numbers DEF Past
  <2>10. (Past(m') <=> i \in {8, 9, 11}) /\ m'.pc # Home
    BY <2>6, <2>7, <2>8, <2>9
  <2>11. Loaded(saved)' /\ Chosen' = Chosen
    BY <1>1, <1>3 DEF Served, Loaded, Chosen
  <2>12. stage = "select" => Chooses'
    <3> SUFFICES ASSUME stage = "select" PROVE Chooses'
      OBVIOUS
    <3>1. Chooses
      BY <1>3 DEF Served
    <3>2. phase' # "swi" /\ Past(m') => Past(m)
      BY <2>1, <2>4, <2>10
    <3>3. phase' # "swi" /\ Past(m)' => Chosen'
      BY <1>1, <2>5, <2>11, <3>1, <3>2 DEF Chooses
    <3> QED  BY <1>1, <2>10, <3>1, <3>3 DEF Chooses
  <2>13. stage = "transfer" => Transfers'
    <3> SUFFICES ASSUME stage = "transfer" PROVE Transfers'
      OBVIOUS
    <3>1. Transfers
      BY <1>3 DEF Served
    <3>2. answered <=> i \in {9, 11}
      BY <1>1, <2>4, <3>1 DEF Transfers
    <3>3. answered' <=> phase' = "swi" \/ Past(m)'
      <4>1. phase' = "swi" <=> i = 8
        BY <2>1
      <4> QED  BY <1>1, <2>5, <2>10, <3>2, <4>1
    <3>4. phase' # "swi" /\ Past(m)' => Delivered'
      <4> SUFFICES ASSUME phase' # "swi", Past(m)' PROVE Delivered'
        OBVIOUS
      <4>1. i \in {9, 11}
        BY <2>1, <2>5, <2>10
      <4>2. Delivered
        BY <1>1, <2>4, <3>1, <4>1 DEF Transfers
      <4>3. m'.cc = m.cc /\ SameMemory(m', m)
        BY <2>1, <4>1
      <4> QED  BY <1>1, <4>2, <4>3 DEF Delivered, Image, SameMemory
    <3> QED  BY <1>1, <2>11, <3>1, <3>3, <3>4 DEF Transfers
  <2> QED  BY <1>1, <2>11, <2>12, <2>13
<1> QED  BY <1>2, <1>3 DEF Served

-----------------------------------------------------------------------------
(* The host transfers a sector.                                            *)

LEMMA Answers ==
  ASSUME NEW l \in Machines, NEW ok
  PROVE  SameMemory(Ans(l, ok), l) /\ (Ans(l, ok).cc.z # 0 <=> ok)
<1> DEFINE f == Setcc(IF ok THEN 4 ELSE 0)
           q == [l EXCEPT !.cc = f]
<1>1. f.z # 0 <=> ok
  <2>1. Btst(4, 4) = 1 /\ Btst(0, 4) = 0
    BY SMT DEF Btst
  <2> QED  BY <2>1 DEF Setcc
<1> HIDE DEF f
<1>2. q.mem = l.mem /\ q.cc = f
  BY DEF Machines
<1>3. Ans(l, ok) = q
  BY DEF Ans, f
<1> QED  BY <1>1, <1>2, <1>3 DEF SameMemory, Read

\* Y holds the track and the sector.
LEMMA YParts ==
  ASSUME NEW n \in Machines, NEW t \in Byte, NEW s \in Byte, n.y = 256 * t + s, NEW l, l = TrackSector(n)
  PROVE  l \in Machines /\ l.a = t /\ l.b = s /\ l.x = n.x /\ SameMemory(l, n)
<1> DEFINE n1 == [n EXCEPT !.a = t]
           n2 == [n1 EXCEPT !.b = s]
           h  == n.y \div 256
           lo == n.y % 256
           l1 == [n EXCEPT !.a = h]
           l2 == [l1 EXCEPT !.b = lo]
<1>1. n.y \div 256 = t /\ n.y % 256 = s
  <2>1. t \in Int /\ s \in Int /\ 0 <= s /\ s < 256
    BY ByteInt
  <2> QED  BY <2>1, SMT
<1>2. n1 \in Machines /\ n1.mem = n.mem /\ n1.x = n.x /\ n1.a = t
  BY OtherSet DEF Machines
<1>3. n2 \in Machines /\ n2.mem = n.mem /\ n2.x = n.x /\ n2.a = t /\ n2.b = s
  <2> HIDE DEF n1
  <2> QED  BY <1>2, OtherSet DEF Machines
<1>4. l = n2
  <2>1. l = l2
    BY SMT DEF TrackSector
  <2>2. h = t /\ lo = s
    BY <1>1
  <2> HIDE DEF h, lo
  <2> QED  BY <2>1, <2>2
<1> HIDE DEF n2
<1> QED  BY <1>3, <1>4 DEF SameMemory, Read

\* drive_ctr has written FMS' bytes.
Wrote(n, t, s) ==
  \E block : /\ \A i \in 0 .. SectorBytes - 1 : block[i] = Read(n, W(n.x + i))
             /\ block \in Blocks
             /\ disks' = K!FileWrite([disks EXCEPT !.buf = K!Filled(disks, block)], t, s)

\* drive_ctr with the buffer of FMS.
LEMMA DriveCtrGives ==
  ASSUME Types, DriveCtr, NEW n, n = Rti(m), NEW t \in Byte, NEW s \in Byte, n.y = 256 * t + s
  PROVE  /\ n.b = 0 /\ n.x = Buffer =>
              /\ disks' = K!FileRead(disks, t, s) /\ (m'.cc.z # 0 <=> K!Ready(disks))
              /\ \A i \in 0 .. SectorBytes - 1 : Read(m', Buffer + i) = K!Half(disks')[i]
         /\ n.b = 1 => (m'.cc.z # 0 <=> K!Ready(disks)) /\ Wrote(n, t, s)
         /\ n.b = 4 => disks' = [disks EXCEPT !.seldrv = Read(n, W(n.x + 3))]
         /\ n.b \notin {0, 1, 4} => disks' = disks
<1> DEFINE dcmd == n.b
           m1   == TrackSector(n)
           drv  == Read(m1, W(m1.x + 3))
           past == [m1 EXCEPT !.x = W(m1.x + SectorBytes)]
           k0   == K!FileRead(disks, m1.a, m1.b)
           read == Copied(past, m1.x, K!Half(k0))
           block == Fetched(m1)
           k1   == K!FileWrite([disks EXCEPT !.buf = K!Filled(disks, block)], m1.a, m1.b)
<1>1. n \in Machines /\ disks \in DiskStates
  BY ReturnsTyped DEF Types
<1>2. m1 \in Machines /\ m1.a = t /\ m1.b = s /\ m1.x = n.x /\ SameMemory(m1, n)
  BY <1>1, YParts
<1>3. /\ CASE dcmd = 0 -> disks' = k0 /\ m' = Ans(read, K!Ready(disks))
           [] dcmd = 1 -> disks' = k1 /\ m' = Ans(past, K!Ready(disks))
           [] dcmd = 4 -> disks' = [disks EXCEPT !.seldrv = drv] /\ m' = Ans(m1, drv < 4)
           [] dcmd \in {5, 6} -> m' = Ans(m1, drv < 4) /\ UNCHANGED disks
           [] OTHER    -> m' = Ans(m1, TRUE) /\ UNCHANGED disks
  BY DEF DriveCtr, Registers
<1> HIDE DEF m1
<1>4. past \in Machines
  <2>1. W(m1.x + SectorBytes) \in Word
    BY <1>2, Size, NearWord, Fields
  <2> QED  BY <1>2, <2>1, OtherSet
<1>5. dcmd = 0 /\ n.x = Buffer =>
        /\ disks' = K!FileRead(disks, t, s) /\ (m'.cc.z # 0 <=> K!Ready(disks))
        /\ \A i \in 0 .. SectorBytes - 1 : Read(m', Buffer + i) = K!Half(disks')[i]
  <2> SUFFICES ASSUME dcmd = 0, n.x = Buffer
               PROVE  /\ disks' = K!FileRead(disks, t, s) /\ (m'.cc.z # 0 <=> K!Ready(disks))
                      /\ \A i \in 0 .. SectorBytes - 1 : Read(m', Buffer + i) = K!Half(disks')[i]
    OBVIOUS
  <2>1. disks' = k0 /\ m' = Ans(read, K!Ready(disks)) /\ k0 = K!FileRead(disks, t, s)
    <3> HIDE DEF k0, read
    <3>1. disks' = k0 /\ m' = Ans(read, K!Ready(disks))
      BY <1>3
    <3>2. k0 = K!FileRead(disks, t, s)
      BY <1>2 DEF k0
    <3> QED  BY <3>1, <3>2
  <2>2. k0 \in DiskStates
    BY <1>1, <2>1, FileReadTyped
  <2> HIDE DEF k0, past
  <2>3. read = Copied(past, Buffer, K!Half(k0))
    BY <1>2
  <2>4. read \in Machines
    <3>1. Buffer \in Word
      BY SMT DEF Buffer, Word
    <3> HIDE DEF read
    <3> QED  BY <1>4, <2>2, <2>3, <3>1, HalfTyped, CopiedTyped
  <2> HIDE DEF read
  <2>5. \A i \in 0 .. SectorBytes - 1 : Read(read, Buffer + i) = K!Half(k0)[i]
    BY <1>4, <2>3, CopiedSector
  <2>6. SameMemory(m', read) /\ (m'.cc.z # 0 <=> K!Ready(disks))
    BY <2>1, <2>4, Answers
  <2> QED  BY <2>1, <2>5, <2>6 DEF SameMemory
<1>6. dcmd = 1 =>
        /\ m'.cc.z # 0 <=> K!Ready(disks)
        /\ \A i \in 0 .. SectorBytes - 1 : block[i] = Read(n, W(n.x + i))
        /\ block \in Blocks
        /\ disks' = K!FileWrite([disks EXCEPT !.buf = K!Filled(disks, block)], t, s)
  <2> SUFFICES ASSUME dcmd = 1
               PROVE  /\ m'.cc.z # 0 <=> K!Ready(disks)
                      /\ \A i \in 0 .. SectorBytes - 1 : block[i] = Read(n, W(n.x + i))
                      /\ block \in Blocks
                      /\ disks' = K!FileWrite([disks EXCEPT !.buf = K!Filled(disks, block)], t, s)
    OBVIOUS
  <2>1. block \in Blocks /\ \A i \in 0 .. SectorBytes - 1 : block[i] = Read(n, W(n.x + i))
    BY <1>2, ReadTyped DEF Fetched, Blocks, SameMemory
  <2> HIDE DEF block
  <2>2. disks' = k1 /\ m' = Ans(past, K!Ready(disks))
    <3> HIDE DEF k1, past
    <3> QED  BY <1>3
  <2>3. k1 = K!FileWrite([disks EXCEPT !.buf = K!Filled(disks, block)], t, s)
    BY <1>2
  <2> HIDE DEF k1, past
  <2>4. m'.cc.z # 0 <=> K!Ready(disks)
    BY <1>4, <2>2, Answers
  <2> QED  BY <2>1, <2>2, <2>3, <2>4
<1>7. dcmd = 4 => disks' = [disks EXCEPT !.seldrv = Read(n, W(n.x + 3))]
  <2> HIDE DEF k0, k1, read, past
  <2>1. drv = Read(n, W(n.x + 3))
    BY <1>2 DEF SameMemory
  <2> HIDE DEF drv
  <2> QED  BY <1>3, <2>1
<1>8. dcmd \notin {0, 1, 4} => disks' = disks
  <2> HIDE DEF k0, k1, read, past, drv
  <2>1. CASE dcmd \in {5, 6}
    BY <1>3, <2>1
  <2>2. CASE dcmd \notin {0, 1, 4, 5, 6}
    BY <1>3, <2>2
  <2> QED  BY <2>1, <2>2
<1>9. dcmd = 1 => Wrote(n, t, s)
  <2> HIDE DEF block
  <2> QED  BY <1>6 DEF Wrote
<1> QED  BY <1>5, <1>6, <1>7, <1>8, <1>9

\* The host's part of the call of a driver for the disk.
LEMMA SwiServing ==
  ASSUME Types, Framed, Served, SwiCall, Serving, NEW n, n = Rti(m)
  PROVE  /\ DriveCtr /\ Running \in DiskOps /\ n.b = Number[Running]
         /\ n.x = saved.x /\ n.y = D(saved) /\ KeepsRest(n, saved)
         /\ m'.pc = Base + (Starts[Running] + 9)
         /\ phase = "swi" /\ phase' = "tail" /\ UNCHANGED fmsVars
<1>1. phase = "swi" /\ phase' = "tail" /\ UNCHANGED fmsVars
  BY DEF SwiCall, Getch, Putch, Kbhit, DriveCtr, Unknown, Answer
<1>2. /\ m.pc = n.pc /\ m.a = n.a /\ Asking(n, Running, saved)
  BY <1>1 DEF Framed, Frame, Host
<1>3. n \in Machines
  BY ReturnsTyped DEF Types
<1>4. Running \in DiskOps
  BY ServingRuns DEF Framed
<1>5. ~AtPlace(Running, Offset(n))
  BY <1>4 DEF AtPlace, DiskOps
<1>6. Offset(n) - Starts[Running] = 9 /\ n.x = saved.x /\ KeepsRest(n, saved) /\ DiskFrame(n, Running, 8, saved)
  BY <1>2, <1>5 DEF Asking
<1>7. n.y = D(saved) /\ n.b = Number[Running] /\ n.a = 6
  BY <1>6 DEF DiskFrame
<1>8. DriveCtr
  BY <1>2, <1>7 DEF SwiCall, Getch, Putch, Kbhit, Unknown
<1>9. m'.pc = n.pc
  BY <1>8, DriveCtrLeaves
<1>10. n.pc = Base + (Starts[Running] + 9)
  <2>1. n.pc \in Int /\ Starts[Running] \in Int
    BY <1>3, <1>4, DiskStarts, Fields, WordInt
  <2> QED  BY <1>6, <2>1, Numbers DEF Offset
<1> QED  BY <1>1, <1>4, <1>6, <1>7, <1>8, <1>9, <1>10

\* The drive of a sector has an image exactly when the sector exists.
LEMMA ReadyExisting ==
  ASSUME Formatted, Types, SameSizes, Chosen, call \in Services, IsDisk(call)
  PROVE  /\ call.sector \in Geometry
         /\ K!Ready(disks) <=> call.sector \in Existing
<1>1. call.sector \in Sectors /\ call.sector \in Geometry
  BY DEF Sectors, Formatted
<1> DEFINE s == call.sector
<1>2. ASSUME s \in Existing PROVE K!Ready(disks)
  <2>1. s[1] \in K!Drives /\ Image(s) # <<>>
    BY <1>2, SectorThere
  <2> QED  BY <2>1 DEF K!Ready, Chosen, Image
<1>3. ASSUME K!Ready(disks) PROVE s \in Existing
  <2>1. s[1] \in K!Drives /\ disks.images[s[1]] # <<>>
    BY <1>3 DEF K!Ready, Chosen
  <2>2. Len(disks.images[s[1]]) = Len(Images[s[1]])
    BY <2>1 DEF SameSizes
  <2>3. disks.images[s[1]] \in Seq(Blocks) /\ Images[s[1]] \in Seq(Blocks)
    BY <2>1, ImagesAssumption DEF Types, DiskStates
  <2>4. Images[s[1]] # <<>>
    <3> DEFINE f == disks.images[s[1]]
               g == Images[s[1]]
    <3> HIDE DEF f, g
    <3>1. f \in Seq(Blocks) /\ f # <<>> /\ g \in Seq(Blocks) /\ Len(f) = Len(g)
      BY <2>1, <2>2, <2>3 DEF f, g
    <3>2. g # <<>>
      BY <3>1
    <3> QED  BY <3>2 DEF g
  <2>5. ~(s[1] > 3)
    <3> DEFINE d == s[1]
    <3>1. d \in 0 .. 3
      BY <2>1 DEF K!Drives
    <3> HIDE DEF d
    <3>2. ~(d > 3)
      BY <3>1
    <3> QED  BY <3>2 DEF d
  <2> QED  BY <1>1, <2>4, <2>5 DEF Formatted
<1> QED  BY <1>1, <1>2, <1>3

\* What becomes of the images and of FMS' buffer when a sector is transferred.
Kept1(images) == images = disks.images
Put1(images) ==
  LET s == call.sector IN
  /\ \A d : d # s[1] => images[d] = disks.images[d]
  /\ Len(images[s[1]]) = Len(Image(s))
  /\ \A j \in 1 .. Len(Image(s)) : j # Documented(s) => images[s[1]][j] = Image(s)[j]
  /\ Holds(images[s[1]][Documented(s)], call.value)

LEMMA HostTransfers ==
  ASSUME Formatted, Types, Framed, Served, SwiCall, Serving, stage = "transfer"
  PROVE  /\ disks'.seldrv = disks.seldrv
         /\ m'.cc.z # 0 <=> call.sector \in Existing
         /\ IF call.op = "write" /\ call.sector \in Existing THEN Put1(disks'.images) ELSE Kept1(disks'.images)
         /\ call.op = "read" /\ call.sector \in Existing =>
              \A i \in 0 .. SectorBytes - 1 : Read(m', Buffer + i) = Image(call.sector)[Documented(call.sector)][i]
<1> DEFINE n == Rti(m)
           s == call.sector
           b == K!BlockOf(s[2], s[3]) + 1
           t0 == s[2]
           u0 == s[3]
<1>1. /\ DriveCtr /\ n.b = Number[Running]
      /\ n.x = saved.x /\ n.y = D(saved) /\ KeepsRest(n, saved)
  BY SwiServing
<1>2. call \in Services /\ Running = call.op /\ call.op \in {"read", "write"} /\ saved.x = Buffer /\ IsDisk(call)
  BY ServingRuns DEF Framed, IsDisk
<1>3. Transfers /\ SameSizes /\ Loaded(saved)
  BY DEF Served
<1>4. s[2] \in Byte /\ s[3] \in Byte
  BY <1>2, ServiceTyped
<1>5. n.y = 256 * s[2] + s[3] /\ n.x = Buffer /\ Chosen
  BY <1>1, <1>2, <1>3 DEF Transfers
<1>6. s \in Geometry /\ (K!Ready(disks) <=> s \in Existing)
  BY <1>2, <1>3, <1>5, ReadyExisting
<1>7. b = Documented(s)
  BY <1>6, PlacesDiffer
<1>8. disks.seldrv = s[1] /\ disks.images[disks.seldrv] = Image(s) /\ disks \in DiskStates
  BY <1>5 DEF Chosen, Image, Types
<1>9. s \in Existing => Documented(s) \in 1 .. Len(Image(s)) /\ Documented(s) <= Len(Image(s))
  BY <1>3, SectorThere
<1>12. n = Rti(m) /\ t0 \in Byte /\ u0 \in Byte /\ n.y = 256 * t0 + u0 /\ b = K!BlockOf(t0, u0) + 1
  BY <1>4, <1>5
<1> HIDE DEF n, t0, u0
<1>10. CASE call.op = "read"
  <2>1. n.b = 0
    BY <1>1, <1>2, <1>10 DEF Number
  <2>2. /\ disks' = K!FileRead(disks, t0, u0) /\ (m'.cc.z # 0 <=> K!Ready(disks))
        /\ \A i \in 0 .. SectorBytes - 1 : Read(m', Buffer + i) = K!Half(disks')[i]
    BY <1>1, <1>5, <1>12, <2>1, DriveCtrGives
  <2>3. /\ disks'.images = disks.images /\ disks'.seldrv = disks.seldrv
        /\ K!Ready(disks) /\ b <= Len(disks.images[disks.seldrv]) => K!Half(disks') = disks.images[disks.seldrv][b]
    BY <1>8, <1>12, <2>2, ReadFile
  <2>4. s \in Existing => K!Half(disks') = Image(s)[Documented(s)]
    <3> HIDE DEF b
    <3> QED  BY <1>6, <1>7, <1>8, <1>9, <2>3
  <2>5. s \in Existing =>
          \A i \in 0 .. SectorBytes - 1 : Read(m', Buffer + i) = Image(s)[Documented(s)][i]
    BY <2>2, <2>4
  <2> QED  BY <1>6, <1>10, <2>2, <2>3, <2>5 DEF Kept1
<1>11. CASE call.op = "write"
  <2>1. n.b = 1
    BY <1>1, <1>2, <1>11 DEF Number
  <2>2. (m'.cc.z # 0 <=> K!Ready(disks)) /\ Wrote(n, t0, u0)
    BY <1>1, <1>12, <2>1, DriveCtrGives
  <2>3. PICK block : /\ \A i \in 0 .. SectorBytes - 1 : block[i] = Read(n, W(n.x + i))
                     /\ block \in Blocks
                     /\ disks' = K!FileWrite([disks EXCEPT !.buf = K!Filled(disks, block)], t0, u0)
    BY <2>2 DEF Wrote
  <2> DEFINE buf == K!Filled(disks, block)
             k   == [disks EXCEPT !.buf = buf]
  <2>4. \A i \in 0 .. SectorBytes - 1 : block[i] = (Pattern[call.value] + i) % 256
    <3> SUFFICES ASSUME NEW i \in 0 .. SectorBytes - 1 PROVE block[i] = (Pattern[call.value] + i) % 256
      OBVIOUS
    <3> DEFINE adr == Buffer + i
    <3>1. adr \in Word /\ adr \notin Scratch /\ W(adr) = adr
      BY SectorPlaces
    <3>2. Read(saved, adr) = (Pattern[call.value] + i) % 256
      BY <1>3, <1>11 DEF Loaded
    <3>3. block[i] = Read(n, W(adr))
      BY <1>5, <2>3
    <3> HIDE DEF adr
    <3> QED  BY <1>1, <3>1, <3>2, <3>3 DEF KeepsRest
  <2>5. buf \in Buffers
    BY <1>8, <2>3, FilledTyped
  <2>6. k \in DiskStates /\ k.images = disks.images /\ k.seldrv = disks.seldrv /\ k.buf = buf
    <3> HIDE DEF buf
    <3> QED  BY <1>8, <2>5, BufSet DEF DiskStates
  <2>7. Holds(K!Half(k), call.value)
    <3>1. disks.buf \in [0 .. (2 * SectorBytes) - 1 -> Byte]
      BY <1>8 DEF DiskStates, Buffers
    <3>2. \A i \in 0 .. SectorBytes - 1 : i \in DOMAIN disks.buf /\ i < SectorBytes
      BY <3>1, Size
    <3>3. \A i \in 0 .. SectorBytes - 1 : buf[i] = block[i]
      BY <3>2 DEF K!Filled
    <3> HIDE DEF buf, k
    <3> QED  BY <2>4, <2>6, <3>3 DEF K!Half, Holds
  <2>8. K!Ready(k) <=> K!Ready(disks)
    <3> HIDE DEF k
    <3> QED  BY <2>6 DEF K!Ready
  <2>9. disks' = K!FileWrite(k, t0, u0)
    BY <2>3
  <2> DEFINE l == disks'
  <2> HIDE DEF buf, k, b
  <2>10. /\ disks'.seldrv = k.seldrv
         /\ ~K!Ready(k) => disks'.images = k.images
         /\ K!Ready(k) /\ b <= Len(k.images[k.seldrv]) =>
              /\ \A d : d # k.seldrv => disks'.images[d] = k.images[d]
              /\ Len(disks'.images[k.seldrv]) = Len(k.images[k.seldrv])
              /\ \A j \in 1 .. Len(k.images[k.seldrv]) :
                   disks'.images[k.seldrv][j] = IF j = b THEN K!Half(k) ELSE k.images[k.seldrv][j]
    <3>1. l = K!FileWrite(k, t0, u0)
      BY <2>9
    <3> HIDE DEF l
    <3>2. FileWritten(k, l, t0, u0)
      BY <1>12, <2>6, <3>1, WriteFile
    <3> USE DEF l
    <3> QED  BY <1>12, <3>2 DEF FileWritten
  <2>11. s \in Existing => Put1(disks'.images)
    <3> SUFFICES ASSUME s \in Existing PROVE Put1(disks'.images)
      OBVIOUS
    <3>1. k.images[k.seldrv] = Image(s) /\ k.seldrv = s[1] /\ k.images = disks.images
      BY <1>8, <2>6
    <3>2. K!Ready(k) /\ b <= Len(k.images[k.seldrv]) /\ Documented(s) \in 1 .. Len(Image(s))
      BY <1>6, <1>7, <1>9, <2>8, <3>1
    <3> HIDE DEF b
    <3> QED  BY <1>7, <2>7, <2>10, <3>1, <3>2 DEF Put1
  <2> QED  BY <1>6, <1>8, <1>11, <2>2, <2>6, <2>8, <2>10, <2>11 DEF Kept1
<1> QED  BY <1>2, <1>10, <1>11


\* Other drivers leave the disks alone.
LEMMA OthersKeep ==
  ASSUME Types, Framed, SwiCall, ~Serving
  PROVE  disks' = disks
<1>1. CASE ~DriveCtr
  BY <1>1 DEF SwiCall, Getch, Putch, Kbhit, Unknown, devices
<1>2. CASE DriveCtr
  <2> DEFINE n == Rti(m)
             t == n.y \div 256
             s == n.y % 256
  <2>1. phase = "swi" /\ m.a = 6
    BY <1>2 DEF SwiCall, DriveCtr
  <2>2. m.a = n.a /\ stage # "none" /\ Asking(n, Running, saved) /\ Caller
    BY <2>1 DEF Framed, Frame, Host
  <2>3. n \in Machines
    BY ReturnsTyped DEF Types
  <2>4. n.y \in Word
    BY <2>3, Fields
  <2>5. t \in Byte /\ s \in Byte /\ n.y = 256 * t + s
    <3> DEFINE v == n.y
    <3>1. v \in Word
      BY <2>4
    <3> HIDE DEF v, n
    <3>2. v \div 256 \in Byte /\ v % 256 \in Byte
      BY <3>1, HalvesOfWord
    <3>3. v = 256 * (v \div 256) + (v % 256)
      <4>1. v \in Int
        BY <3>1, WordInt
      <4> QED  BY <4>1, SMT
    <3> QED  BY <3>2, <3>3 DEF v
  <2> HIDE DEF n, t, s
  <2>6. Running \in DiskOps /\ n.b = Number[Running]
    BY <2>1, <2>2 DEF Asking, DiskFrame
  <2>7. Running = call.op /\ call.op \in {"verify", "chkrdy"}
    <3>1. call \in Services /\ ~IsDisk(call) /\ stage # "select"
      BY <2>2 DEF Caller, Serving
    <3>2. Running = call.op
      BY <3>1 DEF Running
    <3>3. call.op # "drive"
      BY <3>1, ServicesAssumption
    <3> QED  BY <2>6, <3>1, <3>2, <3>3 DEF IsDisk, DiskOps
  <2>8. n.b \in {2, 5}
    BY <2>6, <2>7 DEF Number
  <2>9. n.b \notin {0, 1, 4}
    BY <2>8
  <2>10. n = Rti(m)
    BY DEF n
  <2> QED  BY <1>2, <2>5, <2>9, <2>10, DriveCtrGives
<1> QED  BY <1>1, <1>2

\* The selected drive.
LEMMA HostSelects ==
  ASSUME Types, Framed, Served, SwiCall, Serving, stage = "select"
  PROVE  disks'.images = disks.images /\ Chosen'
<1> DEFINE n == Rti(m)
           t == call.sector[2]
           y == n.y
           drv == Read(n, W(n.x + 3))
<1>1. DriveCtr /\ n.b = Number[Running] /\ n.x = saved.x /\ KeepsRest(n, saved) /\ UNCHANGED fmsVars
  BY SwiServing
<1>2. Running = "drive" /\ Chooses
  BY ServingRuns DEF Framed, Served
<1>3. n \in Machines
  BY ReturnsTyped DEF Types
<1>4. y \in Word
  BY <1>3, Fields
<1>5. n.b = 4
  BY <1>1, <1>2 DEF Number
<1>6. n = Rti(m)
  OBVIOUS
<1>7. drv = call.sector[1]
  <2>1. n.x = Fcb
    BY <1>1, <1>2 DEF Chooses
  <2>2. W(n.x + 3) = Fcb + 3 /\ Fcb + 3 \in Word /\ Fcb + 3 \notin Scratch
    <3>1. Fcb = 1024
      BY Numbers
    <3>2. W(Fcb + 3) = Fcb + 3 /\ Fcb + 3 \in Word
      BY SMT DEF Fcb, W, Word
    <3>3. Fcb + 3 \notin Scratch
      BY <3>1, <3>2, ScratchPlaces
    <3> QED  BY <2>1, <3>2, <3>3
  <2>3. Read(saved, Fcb + 3) = call.sector[1]
    BY <1>2 DEF Chooses
  <2> HIDE DEF n
  <2> QED  BY <1>1, <2>2, <2>3 DEF KeepsRest
<1>8. disks' = [disks EXCEPT !.seldrv = drv]
  <2> DEFINE h == y \div 256
             l == y % 256
  <2> HIDE DEF n, y
  <2>1. h \in Byte /\ l \in Byte
    BY <1>4, HalvesOfWord
  <2>2. y = 256 * h + l
    <3>1. y \in Int
      BY <1>4, WordInt
    <3> QED  BY <3>1, SMT
  <2> HIDE DEF h, l
  <2>3. n.y = 256 * h + l
    BY <2>2 DEF y
  <2> QED  BY <1>1, <1>5, <1>6, <2>1, <2>3, DriveCtrGives
<1> HIDE DEF drv
<1>9. disks'.images = disks.images /\ disks'.seldrv = drv
  BY <1>8 DEF Types, DiskStates
<1> QED  BY <1>1, <1>7, <1>9 DEF Chosen, fmsVars

LEMMA SwiServed == ASSUME Formatted, Types, Framed, Served, SwiCall PROVE Served'
<1>1. phase = "swi" /\ phase' = "tail" /\ UNCHANGED fmsVars
  BY DEF SwiCall, Getch, Putch, Kbhit, DriveCtr, Unknown, Answer
<1>2. call' = call /\ stage' = stage /\ saved' = saved /\ answered' = answered
  BY <1>1 DEF fmsVars
<1>3. CASE ~Serving
  <2>1. disks' = disks
    BY <1>3, OthersKeep
  <2> QED  BY <1>2, <1>3, <2>1 DEF Served, SameSizes, Serving, IsDisk
<1>4. CASE Serving
  <2>1. Loaded(saved)' /\ Running' = Running /\ (answered' => stage' = "transfer") /\ Serving'
    BY <1>2, <1>4 DEF Served, Loaded, Serving, IsDisk, Running
  <2>2. m'.pc = Base + (Starts[Running] + 9) /\ Running \in DiskOps
    BY <1>4, SwiServing
  <2>3. Past(m)' /\ m'.pc # Home
    <3>1. m'.pc = 62000 + (Starts[Running] + 9) /\ Starts[Running] \in 48 .. 96
      BY <2>2, DiskStarts, Numbers
    <3>2. Offset(m)' - Starts[Running] = 9 /\ m'.pc # Home
      BY <3>1, Numbers DEF Offset
    <3> QED  BY <2>1, <3>2 DEF Past
  <2>4. CASE stage = "select"
    <3>1. disks'.images = disks.images /\ Chosen'
      BY <1>4, <2>4, HostSelects
    <3>2. SameSizes'
      BY <3>1 DEF Served, SameSizes
    <3>3. Chooses'
      BY <1>2, <1>4, <2>3, <2>4, <3>1 DEF Served, Chooses
    <3> QED  BY <1>2, <2>1, <2>4, <3>2, <3>3 DEF Served
  <2>5. CASE stage = "transfer"
    <3> DEFINE s == call.sector
               images == disks'.images
    <3>1. /\ disks'.seldrv = disks.seldrv
          /\ m'.cc.z # 0 <=> s \in Existing
          /\ IF call.op = "write" /\ s \in Existing THEN Put1(images) ELSE Kept1(images)
          /\ call.op = "read" /\ s \in Existing =>
               \A i \in 0 .. SectorBytes - 1 : Read(m', Buffer + i) = Image(s)[Documented(s)][i]
      BY <1>4, <2>5, HostTransfers
    <3>2. Transfers /\ SameSizes
      BY <1>4, <2>5 DEF Served
    <3>3. \A d \in K!Drives : Len(images[d]) = Len(disks.images[d])
      <4>1. CASE Kept1(images)
        BY <4>1 DEF Kept1
      <4>2. CASE Put1(images)
        BY <4>2 DEF Put1, Image
      <4> QED  BY <3>1, <4>1, <4>2
    <3>4. SameSizes'
      BY <3>2, <3>3 DEF SameSizes
    <3>5. Chosen'
      BY <1>2, <3>1, <3>2 DEF Transfers, Chosen
    <3>6. Delivered'
      <4>1. call.op = "read" => images = disks.images
        BY <3>1 DEF Kept1
      <4> QED  BY <1>2, <3>1, <4>1 DEF Delivered, Image
    <3>7. answered
      BY <1>1, <3>2 DEF Transfers
    <3>8. D(saved)' = D(saved)
      BY <1>2 DEF D
    <3>9. Transfers'
      BY <1>2, <2>3, <3>2, <3>5, <3>6, <3>7, <3>8 DEF Transfers
    <3> QED  BY <1>2, <2>1, <2>5, <3>4, <3>9 DEF Served
  <2>6. stage \in {"select", "transfer"}
    BY <1>4, ServingRuns DEF Framed
  <2> QED  BY <2>4, <2>5, <2>6
<1> QED  BY <1>3, <1>4

-----------------------------------------------------------------------------
(* Every step is one of the sector disk's, or is not seen there.           *)

DiskStep == [Disk!Call \/ Disk!Read \/ Disk!Write \/ Disk!Refuse \/ Disk!Return
              \/ Disk!Commit \/ Disk!Reset]_(Disk!diskVars)

LEMMA SameDisk == ASSUME disks'.images = disks.images PROVE absDisk' = absDisk
  BY DEF absDisk, Image

\* A step that changes none of these is not seen.
LEMMA QuietStep ==
  ASSUME Resulted, Resulted', disks'.images = disks.images, call' = call, answered' <=> answered,
         answered => (phase' = "swi" <=> phase = "swi")
  PROVE  DiskStep
<1>1. absDisk' = absDisk
  BY SameDisk
<1>2. (Asked' <=> Asked) /\ (Asked => answered)
  BY DEF Asked, IsDisk
<1>3. absPending' = absPending
  BY <1>2 DEF absPending
<1>4. absCall' = absCall
  BY DEF absCall, IsDisk
<1>5. Outcome' = Outcome
  BY <1>1 DEF Outcome
<1>6. absResult' = absResult
  BY <1>2, <1>5 DEF Resulted
<1> QED  BY <1>1, <1>3, <1>4, <1>6 DEF DiskStep, Disk!diskVars

LEMMA CallCalls == ASSUME Inv, Resulted, Resulted', Call PROVE DiskStep
<1>1. PICK q \in Services : (Select(q) \/ Single(q)) /\ call' = q
  BY DEF Call
<1>2. stage = "none" /\ answered' = answered /\ call = None
  BY DEF Call, Inv, Framed, Caller
<1>3. ~answered
  BY <1>2 DEF Inv, Served
<1>4. disks' = disks
  BY <1>1 DEF Select, Single, Enter, Step, devices
<1>5. ~Asked /\ ~Asked'
  BY <1>2, <1>3 DEF Asked
<1>6. absDisk' = absDisk /\ absPending' = absPending /\ absResult = None /\ absResult' = absResult
  BY <1>4, <1>5, SameDisk DEF absPending, absResult
<1>7. absCall = None
  BY <1>2 DEF absCall
<1>8. CASE IsDisk(q)
  <2>1. absCall' = q
    BY <1>1, <1>8, NoneAssumption DEF absCall
  <2>2. q \in Disk!Requests
    <3>1. q.sector \in Sectors
      BY <1>8 DEF Sectors
    <3>2. CASE q.op = "read"
      <4>1. q = [op |-> "read", sector |-> q.sector, value |-> None]
        BY <3>2, RequestsAssumption
      <4> QED  BY <3>1, <4>1 DEF Disk!Requests
    <3>3. CASE q.op = "write"
      <4>1. q = [op |-> "write", sector |-> q.sector, value |-> q.value] /\ q.value \in Values
        BY <3>3, RequestsAssumption, ServicesAssumption DEF Values
      <4> QED  BY <3>1, <4>1 DEF Disk!Requests
    <3> QED  BY <1>8, <3>2, <3>3 DEF IsDisk
  <2>3. Disk!Call
    BY <1>6, <1>7, <2>1, <2>2 DEF Disk!Call
  <2> QED  BY <2>3 DEF DiskStep
<1>9. CASE ~IsDisk(q)
  <2>1. absCall' = absCall
    BY <1>1, <1>7, <1>9 DEF absCall
  <2> QED  BY <1>6, <2>1 DEF DiskStep, Disk!diskVars
<1> QED  BY <1>8, <1>9

\* The interrupt is where the disk does what it is asked.
LEMMA InstructionAsks == ASSUME Inv, Resulted, Resulted', Instruction PROVE DiskStep
<1>1. /\ phase = "run" /\ stage' = stage /\ call' = call /\ disks' = disks
      /\ answered' = (answered \/ (stage = "transfer" /\ phase' = "swi"))
  BY DEF Instruction, Step, devices
<1>2. Types /\ Framed /\ Served
  BY DEF Inv
<1>3. CASE Serving /\ stage = "transfer" /\ phase' = "swi"
  <2>1. PICK i \in {0, 2, 4, 6, 8, 9, 11} :
           /\ DiskAt(m, Running, i, saved)
           /\ i \in {0, 2, 4, 6} => phase' # "swi"
           /\ i \in {9, 11} => phase' # "swi"
    BY <1>2, <1>3, DiskInstruction
  <2>2. Running \in DiskOps /\ call \in Services /\ Running = call.op /\ call.op \in {"read", "write"}
    BY <1>2, <1>3, ServingRuns
  <2>3. i = 8 /\ i \in 0 .. 11 /\ i \notin {9, 11}
    BY <1>3, <2>1
  <2>4. ~Past(m)
    BY <2>1, <2>2, <2>3, PastPlace
  <2>5. ~answered
    BY <1>1, <1>2, <1>3, <2>4 DEF Served, Transfers
  <2>6. call # None /\ IsDisk(call)
    BY <2>2, NoneAssumption DEF IsDisk
  <2>7. ~Asked /\ Asked' /\ IsDisk(call)'
    BY <1>1, <1>3, <2>5, <2>6 DEF Asked, IsDisk
  <2>8. absDisk' = absDisk /\ absCall = call /\ absCall' = call
    BY <1>1, <2>6, SameDisk DEF absCall, IsDisk
  <2>9. absPending = None /\ absResult = None
    BY <2>7 DEF absPending, absResult
  <2>10. absResult' = Outcome /\ Outcome' = Outcome
    <3>1. Outcome' = Outcome
      BY <1>1, <2>8 DEF Outcome
    <3> QED  BY <2>7, <3>1 DEF Resulted
  <2>11. CASE call.sector \notin Existing
    <3>1. absPending' = None
      BY <1>1, <2>11 DEF absPending
    <3>2. absResult' = "refused"
      BY <2>10, <2>11 DEF Outcome
    <3>3. Disk!Refuse
      BY <2>6, <2>8, <2>9, <2>11, <3>1, <3>2 DEF Disk!Refuse
    <3> QED  BY <3>3 DEF DiskStep
  <2>12. CASE call.sector \in Existing /\ call.op = "write"
    <3>1. absPending' = [sector |-> call.sector, value |-> call.value]
      BY <1>1, <1>3, <2>7, <2>12 DEF absPending
    <3>2. absResult' = "ok"
      BY <2>10, <2>12 DEF Outcome
    <3>3. Disk!Write
      BY <2>6, <2>8, <2>9, <2>12, <3>1, <3>2 DEF Disk!Write
    <3> QED  BY <3>3 DEF DiskStep
  <2>13. CASE call.sector \in Existing /\ call.op = "read"
    <3>1. absPending' = None
      BY <1>1, <2>13 DEF absPending
    <3>2. absResult' = absDisk[call.sector]
      BY <2>10, <2>13 DEF Outcome
    <3>3. Disk!Read
      BY <2>6, <2>8, <2>9, <2>13, <3>1, <3>2 DEF Disk!Read
    <3> QED  BY <3>3 DEF DiskStep
  <2> QED  BY <2>2, <2>11, <2>12, <2>13
<1>4. CASE Serving /\ ~(stage = "transfer" /\ phase' = "swi")
  <2>1. (answered' <=> answered) /\ (answered => phase' # "swi")
    BY <1>1, <1>2, <1>4 DEF Served
  <2> QED  BY <1>1, <2>1, QuietStep
<1>5. CASE ~Serving
  <2>1. ~(call # None /\ IsDisk(call))
    BY <1>2, <1>5 DEF Framed, Caller, Serving
  <2>2. ~Asked /\ ~Asked' /\ absCall = None /\ absCall' = None
    BY <1>1, <2>1 DEF Asked, absCall, IsDisk
  <2>3. absDisk' = absDisk /\ absPending' = absPending /\ absResult' = absResult
    BY <1>1, <2>2, SameDisk DEF absPending, absResult
  <2> QED  BY <2>2, <2>3 DEF DiskStep, Disk!diskVars
<1> QED  BY <1>3, <1>4, <1>5

\* The host's part of a write is where the disk takes it.
LEMMA HostCommits == ASSUME Formatted, Inv, Resulted, Resulted', SwiCall PROVE DiskStep
<1>1. phase = "swi" /\ phase' = "tail" /\ UNCHANGED fmsVars
  BY DEF SwiCall, Getch, Putch, Kbhit, DriveCtr, Unknown, Answer
<1>2. call' = call /\ stage' = stage /\ answered' = answered /\ Types /\ Framed /\ Served
  BY <1>1 DEF fmsVars, Inv
<1>3. (Asked' <=> Asked) /\ absCall' = absCall /\ absPending' = None
  BY <1>1, <1>2 DEF Asked, IsDisk, absCall, absPending
<1>4. CASE ~Asked
  <2>1. disks'.images = disks.images
    <3>1. CASE ~Serving
      BY <1>2, <3>1, OthersKeep
    <3>2. CASE Serving
      <4>1. stage # "transfer"
        <5> SUFFICES ASSUME stage = "transfer" PROVE FALSE
          OBVIOUS
        <5>1. answered /\ call \in Services
          BY <1>1, <1>2, <3>2 DEF Served, Transfers, Framed, Caller, Serving
        <5> QED  BY <1>4, <3>2, <5>1, NoneAssumption DEF Asked, Serving
      <4>2. stage = "select"
        BY <1>2, <3>2, <4>1, ServingRuns
      <4> QED  BY <1>2, <3>2, <4>2, HostSelects
    <3> QED  BY <3>1, <3>2
  <2>2. absDisk' = absDisk /\ absPending = None /\ absResult = None /\ absResult' = None
    BY <1>3, <1>4, <2>1, SameDisk DEF absPending, absResult
  <2> QED  BY <1>3, <2>2 DEF DiskStep, Disk!diskVars
<1>5. CASE Asked
  <2>1. Serving /\ stage = "transfer" /\ call \in Services /\ call.op \in {"read", "write"}
    BY <1>2, <1>5, AskedTransfers
  <2>2. IF call.op = "write" /\ call.sector \in Existing THEN Put1(disks'.images) ELSE Kept1(disks'.images)
    BY <1>2, <2>1, HostTransfers
  <2>3. CASE ~(call.op = "write" /\ call.sector \in Existing)
    <3>1. disks'.images = disks.images
      BY <2>2, <2>3 DEF Kept1
    <3>2. absDisk' = absDisk
      BY <3>1, SameDisk
    <3>3. absPending = None
      BY <2>3 DEF absPending
    <3>4. Outcome' = Outcome
      BY <1>2, <3>2 DEF Outcome
    <3>5. absResult' = absResult
      BY <1>3, <3>4 DEF Resulted
    <3> QED  BY <1>3, <3>2, <3>3, <3>5 DEF DiskStep, Disk!diskVars
  <2>4. CASE call.op = "write" /\ call.sector \in Existing
    <3> DEFINE s == call.sector
               v == call.value
    <3>1. Put1(disks'.images) /\ v \in Values /\ s \in Existing
      BY <2>1, <2>2, <2>4, ServicesAssumption DEF Values
    <3>2. absPending = [sector |-> s, value |-> v]
      BY <1>1, <1>5, <2>4 DEF absPending
    <3>3. absPending # None
      <4>1. s \in Sectors
        BY <3>1 DEF Existing
      <4> QED  BY <3>1, <3>2, <4>1, NoneAssumption
    <3>4. \A q \in Existing : ValueOf(disks'.images[q[1]][Documented(q)])
                                = IF q = s THEN v ELSE ValueOf(Image(q)[Documented(q)])
      <4> SUFFICES ASSUME NEW q \in Existing
                   PROVE  ValueOf(disks'.images[q[1]][Documented(q)])
                            = IF q = s THEN v ELSE ValueOf(Image(q)[Documented(q)])
        OBVIOUS
      <4>1. CASE q = s
        <5>1. Holds(disks'.images[s[1]][Documented(s)], v)
          BY <3>1 DEF Put1
        <5> DEFINE block == disks'.images[s[1]][Documented(s)]
        <5> HIDE DEF block
        <5>2. ValueOf(block) = v
          BY <3>1, <5>1, ValueFound DEF block
        <5> QED  BY <4>1, <5>2 DEF block
      <4>2. CASE q # s /\ q[1] # s[1]
        BY <3>1, <4>2 DEF Put1, Image
      <4>3. CASE q # s /\ q[1] = s[1]
        <5>1. /\ q \in Geometry /\ s \in Geometry /\ Documented(q) \in 1 .. Len(Image(q))
          BY <1>2, <3>1, SectorThere DEF Served
        <5>2. Documented(q) # Documented(s)
          BY <4>3, <5>1, PlacesDiffer
        <5>3. Image(q) = Image(s)
          BY <4>3 DEF Image
        <5> DEFINE j == Documented(q)
        <5> HIDE DEF j
        <5>4. j \in 1 .. Len(Image(s)) /\ j # Documented(s)
          BY <5>1, <5>2, <5>3 DEF j
        <5>5. disks'.images[s[1]][j] = Image(s)[j]
          BY <3>1, <5>4 DEF Put1
        <5> QED  BY <4>3, <5>3, <5>5 DEF j
      <4> QED  BY <4>1, <4>2, <4>3
    <3>5. absDisk' = [absDisk EXCEPT ![s] = v]
      BY <3>1, <3>4 DEF absDisk, Image
    <3>6. absDisk' = [absDisk EXCEPT ![absPending.sector] = absPending.value]
      BY <3>2, <3>5
    <3>7. absResult = "ok" /\ absResult' = "ok"
      BY <1>2, <1>3, <1>5, <2>4 DEF Resulted, Outcome
    <3>8. Disk!Commit
      BY <1>3, <3>3, <3>6, <3>7 DEF Disk!Commit
    <3> QED  BY <3>8 DEF DiskStep
  <2> QED  BY <2>3, <2>4
<1> QED  BY <1>4, <1>5

LEMMA ReturnReturns == ASSUME Formatted, Inv, Resulted, Resulted', Return PROVE DiskStep
<1>1. phase = "run" /\ m.pc = Back /\ disks' = disks
  BY DEF Return, Step, devices
<1>2. Types /\ Framed /\ Served
  BY DEF Inv
<1>3. CASE stage = "select"
  <2>1. call' = call /\ answered' = answered /\ ~answered
    BY <1>2, <1>3 DEF Return, Served
  <2> QED  BY <1>1, <2>1, QuietStep
<1>4. CASE stage # "select"
  <2>1. call' = None /\ answered' = FALSE
    BY <1>4 DEF Return
  <2>2. ~Asked' /\ absCall' = None /\ absResult' = None /\ absPending' = None /\ absDisk' = absDisk
    BY <1>1, <2>1, SameDisk DEF Asked, absCall, absResult, absPending
  <2>3. absPending = None
    BY <1>1 DEF absPending
  <2>4. CASE call # None /\ IsDisk(call)
    <3>1. Serving /\ stage = "transfer"
      BY <1>2, <1>4, <2>4 DEF Framed, Caller, Serving
    <3>2. answered /\ call \in Services
      BY <1>1, <1>2, <3>1 DEF Served, Transfers, Past, Framed, Caller
    <3>3. Asked
      BY <2>4, <3>2 DEF Asked
    <3>4. absResult = Outcome
      BY <3>3 DEF Resulted
    <3>5. Outcome # None
      <4>1. CASE call.sector \notin Existing \/ call.op = "write"
        BY <4>1, NoneAssumption DEF Outcome
      <4>2. CASE call.sector \in Existing /\ call.op # "write"
        <5> DEFINE block == Image(call.sector)[Documented(call.sector)]
        <5>1. Outcome = ValueOf(block)
          BY <4>2 DEF Outcome, absDisk
        <5> HIDE DEF block
        <5>2. ValueOf(block) \in Values \cup {"mixed"}
          BY ValueNamed
        <5> QED  BY <5>1, <5>2, NoneAssumption
      <4> QED  BY <4>1, <4>2
    <3>6. Disk!Return
      BY <2>2, <2>3, <3>4, <3>5 DEF Disk!Return
    <3> QED  BY <3>6 DEF DiskStep
  <2>5. CASE ~(call # None /\ IsDisk(call))
    <3>1. absCall = None /\ absResult = None
      BY <2>5 DEF absCall, absResult, Asked
    <3> QED  BY <2>2, <2>3, <3>1 DEF DiskStep, Disk!diskVars
  <2> QED  BY <2>4, <2>5
<1> QED  BY <1>3, <1>4

LEMMA OthersQuiet ==
  ASSUME Inv, Resulted, Resulted', Transfer \/ TailEnds \/ LoopAgain \/ User \/ UNCHANGED vars
  PROVE  DiskStep
<1>1. CASE Transfer
  <2>1. disks' = disks /\ call' = call /\ answered' = answered /\ ~answered
    BY <1>1 DEF Transfer, Enter, Step, devices, Inv, Served
  <2> QED  BY <2>1, QuietStep
<1>2. CASE TailEnds
  <2>1. phase = "tail" /\ disks' = disks /\ UNCHANGED fmsVars
    BY <1>2 DEF TailEnds, devices
  <2>2. phase' # "swi"
    BY <1>2, ComesBack DEF TailEnds, GoesOn
  <2> QED  BY <2>1, <2>2, QuietStep DEF fmsVars
<1>3. CASE LoopAgain
  <2>1. disks' = disks /\ UNCHANGED fmsVars /\ phase = "loop" /\ phase' = "run"
    BY <1>3 DEF LoopAgain, devices
  <2> QED  BY <2>1, QuietStep DEF fmsVars
<1>4. CASE User
  <2>1. disks' = disks /\ UNCHANGED fmsVars
    BY <1>4 DEF User, Go, Next_n, StepOver, SetBreak, AtPrompt, TakenByPrompt, Key, Signal, devices
  <2>2. phase' = phase \/ (phase = "prompt" /\ phase' = "run")
    BY <1>4 DEF User, Go, Next_n, StepOver, SetBreak, AtPrompt, TakenByPrompt, Key, Signal, Begin, loopVars
  <2> QED  BY <2>1, <2>2, QuietStep DEF fmsVars
<1>5. CASE UNCHANGED vars
  <2>1. disks' = disks /\ UNCHANGED fmsVars /\ phase' = phase
    BY <1>5 DEF vars, devices, loopVars
  <2> QED  BY <2>1, QuietStep DEF fmsVars
<1> QED  BY <1>1, <1>2, <1>3, <1>4, <1>5

LEMMA StepDisk == ASSUME Formatted, Inv, Inv', [Next]_vars PROVE DiskStep
<1>1. Resulted
  BY ResultIs
<1>2. Resulted'
  BY ResultIsNext
<1> QED  BY <1>1, <1>2, CallCalls, InstructionAsks, HostCommits, ReturnReturns, OthersQuiet DEF Next, Machine, Rest

\* At first every sector has contents with a name.
LEMMA InitDisk == ASSUME Formatted, Init PROVE Disk!Init
<1>1. call = None /\ disks.images = Images
  BY DEF Init, K!Disks
<1>2. ~Asked
  BY <1>1 DEF Asked
<1>3. absPending = None /\ absCall = None /\ absResult = None
  BY <1>1, <1>2 DEF absPending, absCall, absResult
<1>4. \A s \in Existing : ValueOf(Image(s)[Documented(s)]) \in Values
  <2> SUFFICES ASSUME NEW s \in Existing PROVE ValueOf(Image(s)[Documented(s)]) \in Values
    OBVIOUS
  <2> DEFINE block == Images[s[1]][Documented(s)]
  <2>1. PICK v \in Values : Holds(block, v)
    BY DEF Formatted
  <2>2. Image(s)[Documented(s)] = block
    BY <1>1 DEF Image
  <2> HIDE DEF block
  <2>3. ValueOf(block) = v
    BY <2>1, ValueFound
  <2> QED  BY <2>2, <2>3
<1>5. absDisk \in [Existing -> Values]
  BY <1>4 DEF absDisk
<1> QED  BY <1>3, <1>5 DEF Disk!Init

LEMMA ServedStays == ASSUME Formatted, Inv, [Next]_vars PROVE Served'
<1>1. Types /\ Framed /\ Served
  BY DEF Inv
<1> QED  BY <1>1, CallServed, TransferServed, ReturnServed, InstructionServed, SwiServed, TailServed,
            LoopServed, UserServed, RestServed DEF Next, Machine, Rest

\* The drivers, the interrupt and the image files are the disk FMS relies on
\* (S_READ, S_WRITE and S_DRIVE of CONSOLE_SIM.ASM, drive_ctr, file_read and
\* file_write of flex9io.c), for every service, disk and key, and whenever the
\* user stops, steps, sends SIGINT or sets break points: a call answers with
\* what the sector holds, a write changes its sector and no other, and a drive
\* without an image refuses.  The images must be formatted - file_read does
\* not look at short reads - and no trace point stand where a noticed key
\* would take the program counter back over a stack instruction.
THEOREM SimIsSectorDisk == ASSUME TracesApart, Formatted PROVE Spec => DiskSpec
<1>1. Init => Served /\ Disk!Init
  BY InitServed, InitDisk
<1>2. Inv /\ [Next]_vars => Served'
  BY ServedStays
<1>3. Inv /\ Inv' /\ [Next]_vars => DiskStep
  BY StepDisk
<1>4. Spec => [](Types /\ Framed)
  BY TracesApart, FramedInvariant
<1>5. Types /\ Framed /\ Served <=> Inv
  BY DEF Inv
<1> QED  BY <1>1, <1>2, <1>3, <1>4, <1>5, PTL DEF Spec, DiskSpec, Disk!DiskSpec, DiskStep
=============================================================================
