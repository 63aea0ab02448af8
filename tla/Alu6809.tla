------------------------------ MODULE Alu6809 ------------------------------
(***************************************************************************)
(* The arithmetic of the 6809 simulator: the flag macros of calc6809.h,    *)
(* getcc and setcc of emu6809.c, and the value and flags each instruction  *)
(* of inst6809.c computes.  Where operands come from and where results go  *)
(* is in Cpu6809.                                                          *)
(*                                                                         *)
(* A byte is a number of 0..255 and a word one of 0..65535.  The eight     *)
(* condition flags are the ints ccc ... cce of the C code; each is 0 or 1, *)
(* but for h, which SET_H leaves 0 or 2.  A formula that exists twice, for *)
(* bytes and for words, takes the weight s of the sign bit.                *)
(***************************************************************************)
EXTENDS Integers

Byte     == 0 .. 255
ByteSign == 128
WordSign == 32768

CC == [c : 0 .. 1, v : 0 .. 1, z : 0 .. 1, n : 0 .. 1,
       i : 0 .. 1, h : 0 .. 2, f : 0 .. 1, e : 0 .. 1]

Flag(p) == IF p THEN 1 ELSE 0

\* Bit of weight w.  Negative numbers are reduced first, by Wrap.
Btst(a, w) == (a \div w) % 2

\* The C code keeps the difference in a wider unsigned word, of which the
\* flags look at the bits up to the borrow, of weight 2 * s.
Wrap(r, s) == r % (4 * s)

Odd4(p, q, r, t) == (p + q + r + t) % 2

-----------------------------------------------------------------------------
\* SET_NZ, SET_V with SET_C, SET_H.
SetNZ(cc, r, s) == [cc EXCEPT !.n = Btst(r, s), !.z = Flag(r % (2 * s) = 0)]

SetNZVC(cc, a, b, r, s) ==
  [SetNZ(cc, r, s) EXCEPT
     !.v = Odd4(Btst(a, s), Btst(b, s), Btst(r, s), Btst(r, 2 * s)),
     !.c = Btst(r, 2 * s)]

SetH(cc, a, b, r) == [cc EXCEPT !.h = 2 * Odd4(Btst(a, 16), Btst(b, 16), Btst(r, 16), 0)]

\* h stands two places to the left of its bit when SET_H has set it.
Getcc(cc) ==
  cc.c + 2 * cc.v + 4 * cc.z + 8 * cc.n + 16 * cc.i + 32 * (cc.h % 2)
    + 64 * Flag(cc.f = 1 \/ cc.h = 2) + 128 * cc.e

Setcc(i) ==
  [c |-> Btst(i, 1), v |-> Btst(i, 2), z |-> Btst(i, 4), n |-> Btst(i, 8),
   i |-> Btst(i, 16), h |-> Btst(i, 32), f |-> Btst(i, 64), e |-> Btst(i, 128)]

-----------------------------------------------------------------------------
\* The C operators & | ^ on bytes.
And8(a, b) ==
  LET both(w) == w * Btst(a, w) * Btst(b, w)
  IN  both(1) + both(2) + both(4) + both(8) + both(16) + both(32) + both(64) + both(128)
Or8(a, b)  == a + b - And8(a, b)
Xor8(a, b) == a + b - 2 * And8(a, b)

\* What an instruction yields: the value and the flags.
Gives(r, cc) == [r |-> r, cc |-> cc]

\* Loads, stores, tests and the logical instructions set N and Z and clear V.
Move(cc, r, s) == Gives(r, [SetNZ(cc, r, s) EXCEPT !.v = 0])

-----------------------------------------------------------------------------
\* Two operands.
\* Mutant: the carry is added after the flags have been set.
AdcLate(cc, a, v) ==
  LET r == a + v
  IN  Gives((r + cc.c) % 256, SetH(SetNZVC(cc, a, v, r, ByteSign), a, v, r))

Adc(cc, a, v) ==
  LET r == a + v + cc.c
  IN  Gives(r % 256, SetH(SetNZVC(cc, a, v, r, ByteSign), a, v, r))

Add(cc, a, v) ==
  LET r == a + v
  IN  Gives(r % 256, SetH(SetNZVC(cc, a, v, r, ByteSign), a, v, r))

Addd(cc, d, v) == Gives((d + v) % 65536, SetNZVC(cc, d, v, d + v, WordSign))

Sbc(cc, a, v) ==
  LET r == Wrap(a - v - cc.c, ByteSign)
  IN  Gives(r % 256, SetH(SetNZVC(cc, a, v, r, ByteSign), a, v, r))

Sub(cc, a, v) ==
  LET r == Wrap(a - v, ByteSign)
  IN  Gives(r % 256, SetH(SetNZVC(cc, a, v, r, ByteSign), a, v, r))

Subd(cc, d, v) ==
  LET r == Wrap(d - v, WordSign)
  IN  Gives(r % 65536, SetNZVC(cc, d, v, r, WordSign))

\* The compares keep the register.
Cmp8(cc, a, v)  == Gives(a, SetNZVC(cc, a, v, Wrap(a - v, ByteSign), ByteSign))
Cmp16(cc, d, v) == Gives(d, SetNZVC(cc, d, v, Wrap(d - v, WordSign), WordSign))

And(cc, a, v) == Move(cc, And8(a, v), ByteSign)
Or(cc, a, v)  == Move(cc, Or8(a, v), ByteSign)
Eor(cc, a, v) == Move(cc, Xor8(a, v), ByteSign)
Bit(cc, a, v) == Gives(a, Move(cc, And8(a, v), ByteSign).cc)

Andcc(cc, v) == Setcc(And8(Getcc(cc), v))
Orcc(cc, v)  == Setcc(Or8(Getcc(cc), v))
Cwai(cc, v)  == Setcc(Or8(And8(Getcc(cc), v), 128))

\* r = ra * rb: the carry is taken from b before it is replaced.
Mul(cc, a, b) ==
  LET r == a * b
  IN  Gives(r, [cc EXCEPT !.z = Flag(r = 0), !.c = Btst(b, 128)])

-----------------------------------------------------------------------------
\* One operand.
Asl(cc, a) ==
  LET r == (2 * a) % 256
      n == Btst(r, 128)
      c == Btst(a, 128)
  IN  Gives(r, [SetNZ(cc, r, ByteSign) EXCEPT !.c = c, !.v = (n + c) % 2])

Rol(cc, a) ==
  LET r == (2 * a + cc.c) % 256
      n == Btst(r, 128)
      c == Btst(a, 128)
  IN  Gives(r, [SetNZ(cc, r, ByteSign) EXCEPT !.c = c, !.v = (n + c) % 2])

Asr(cc, a) ==
  LET r == 128 * Btst(a, 128) + a \div 2
  IN  Gives(r, [SetNZ(cc, r, ByteSign) EXCEPT !.c = a % 2])

Lsr(cc, a) == Gives(a \div 2, [cc EXCEPT !.c = a % 2, !.z = Flag(a \div 2 = 0), !.n = 0])

Ror(cc, a) ==
  LET r == 128 * cc.c + a \div 2
  IN  Gives(r, [cc EXCEPT !.n = cc.c, !.c = a % 2, !.z = Flag(r = 0)])

Neg(cc, a) ==
  LET r == Wrap(0 - a, ByteSign)
  IN  Gives(r % 256, SetNZVC(cc, 0, a, r, ByteSign))

Com(cc, a) == Gives(255 - a, [Move(cc, 255 - a, ByteSign).cc EXCEPT !.c = 1])
Clr(cc, a) == Gives(0, [cc EXCEPT !.n = 0, !.v = 0, !.c = 0, !.z = 1])
Tst(cc, a) == Move(cc, a, ByteSign)

Dec(cc, a) ==
  LET r == (a - 1) % 256
  IN  Gives(r, [SetNZ(cc, r, ByteSign) EXCEPT !.v = Flag(a = 128)])

Inc(cc, a) ==
  LET r == (a + 1) % 256
  IN  Gives(r, [SetNZ(cc, r, ByteSign) EXCEPT !.v = Flag(a = 127)])

\* Each cause of an adjustment sets its bits of cf once (|=).  SET_C8
\* replaces the carry that was there.
Daa(cc, a) ==
  LET m    == 16 * (a \div 16)
      l    == a % 16
      low  == IF l > 9 \/ cc.h # 0 THEN 6 ELSE 0
      high == IF (m > 128 /\ l > 9) \/ m > 144 \/ cc.c = 1 THEN 96 ELSE 0
      t    == low + high + a
  IN  Gives(t % 256, [SetNZ(cc, t, ByteSign) EXCEPT !.c = Btst(t, 256), !.v = 0])

\* SEX gives all of D.
Sex(cc, b) == Gives((IF Btst(b, 128) = 1 THEN 65280 ELSE 0) + b, SetNZ(cc, b, ByteSign))

\* LEAX and LEAY set Z, LEAS and LEAU no flag.
LeaZ(cc, r) == [cc EXCEPT !.z = Flag(r = 0)]

-----------------------------------------------------------------------------
\* The conditions of the branches.
HS(cc) == cc.c = 0
LO(cc) == cc.c = 1
EQ(cc) == cc.z = 1
NE(cc) == cc.z = 0
GE(cc) == cc.n = cc.v
LT(cc) == cc.n # cc.v
\* Mutant: without the test of Z.
GTOrEqual(cc) == cc.n = cc.v
GT(cc) == cc.z = 0 /\ cc.n = cc.v
LE(cc) == cc.z = 1 \/ cc.n # cc.v
HI(cc) == cc.z = 0 /\ cc.c = 0
LS(cc) == cc.c = 1 \/ cc.z = 1
MI(cc) == cc.n = 1
PL(cc) == cc.n = 0
VC(cc) == cc.v = 0
VS(cc) == cc.v = 1
RA(cc) == TRUE
RN(cc) == FALSE

-----------------------------------------------------------------------------
\* What the branches are named for: two's complement numbers of sign weight
\* s, and the order of d and v after a compare of d with v left the flags cc.
SignedOf(a, s) == IF a >= s THEN a - (2 * s) ELSE a

Orders(cc, d, v, s) ==
  LET sd == SignedOf(d, s)
      sv == SignedOf(v, s)
  IN  /\ (EQ(cc) <=> d = v)    /\ (NE(cc) <=> d # v)
      /\ (HI(cc) <=> d > v)    /\ (LS(cc) <=> d <= v)
      /\ (HS(cc) <=> d >= v)   /\ (LO(cc) <=> d < v)
      /\ (GT(cc) <=> sd > sv)  /\ (LE(cc) <=> sd <= sv)
      /\ (GE(cc) <=> sd >= sv) /\ (LT(cc) <=> sd < sv)
=============================================================================
