------------------------------ MODULE AluProofs ------------------------------
(***************************************************************************)
(* What the flags of Alu6809 mean, for all operands and all flags there    *)
(* were before: the branches after a compare decide the order of the       *)
(* numbers, a sum with its carry is the sum, and pushed flags come back.   *)
(***************************************************************************)
EXTENDS SimData, TLAPS

WordRange == 0 .. 2 * WordSign - 1

\* The weight of the sign of a byte or of a word.
IsSign(s) == s = ByteSign \/ s = WordSign

\* The four flags that SET_NZ, SET_V and SET_C give.
LEMMA FlagsOf ==
  ASSUME NEW cc \in CC, NEW a, NEW b, NEW r, NEW s
  PROVE  /\ SetNZVC(cc, a, b, r, s).n = Btst(r, s)
         /\ SetNZVC(cc, a, b, r, s).z = Flag(r % (2 * s) = 0)
         /\ SetNZVC(cc, a, b, r, s).v = Odd4(Btst(a, s), Btst(b, s), Btst(r, s), Btst(r, 2 * s))
         /\ SetNZVC(cc, a, b, r, s).c = Btst(r, 2 * s)
  BY DEF SetNZVC, SetNZ, CC

\* The sign of a byte or a word.
LEMMA SignBit ==
  ASSUME NEW s, IsSign(s), NEW a \in Int, 0 <= a, a < 2 * s
  PROVE  Btst(a, s) = Flag(a >= s)
<1>1. CASE s = 128
  BY <1>1, SMT DEF Btst, Flag
<1>2. CASE s = 32768
  BY <1>2, SMT DEF Btst, Flag
<1>3. QED
  BY <1>1, <1>2 DEF IsSign, ByteSign, WordSign

\* Zero, borrow and sign of a difference x, as the macros see it: r is what
\* the wider unsigned word of the C code keeps of x.
LEMMA ByteDifference ==
  ASSUME NEW x \in Int, -256 < x, x < 256, NEW r, r = x % 512
  PROVE  /\ (r % 256 = 0) <=> x = 0
         /\ Btst(r, 256) = Flag(x < 0)
         /\ Btst(r, 128) = Flag(IF x >= 0 THEN x >= 128 ELSE x >= -128)
<1>1. CASE x >= 0
  <2>1. r = x
    BY <1>1, SMT
  <2>2. (x % 256 = 0) <=> x = 0
    BY <1>1, SMT
  <2>3. Btst(x, 256) = 0 /\ Btst(x, 128) = Flag(x >= 128)
    BY <1>1, SMT DEF Btst, Flag
  <2>4. QED
    BY <1>1, <2>1, <2>2, <2>3, SMT DEF Flag
<1>2. CASE x < 0
  <2> DEFINE y == x + 512
  <2>1. r = y
    BY <1>2, SMT
  <2>2. y \in Int /\ 256 < y /\ y < 512 /\ (y >= 384 <=> x >= -128)
    BY <1>2, SMT
  <2> HIDE DEF y
  <2>3. y % 256 # 0 /\ Btst(y, 256) = 1 /\ Btst(y, 128) = Flag(y >= 384)
    BY <2>2, SMT DEF Btst, Flag
  <2>4. QED
    BY <1>2, <2>1, <2>2, <2>3, SMT DEF Flag
<1>3. QED
  BY <1>1, <1>2, SMT

LEMMA WordDifference ==
  ASSUME NEW x \in Int, -65536 < x, x < 65536, NEW r, r = x % 131072
  PROVE  /\ (r % 65536 = 0) <=> x = 0
         /\ Btst(r, 65536) = Flag(x < 0)
         /\ Btst(r, 32768) = Flag(IF x >= 0 THEN x >= 32768 ELSE x >= -32768)
<1>1. CASE x >= 0
  <2>1. r = x
    BY <1>1, SMT
  <2>2. (x % 65536 = 0) <=> x = 0
    BY <1>1, SMT
  <2>3. Btst(x, 65536) = 0 /\ Btst(x, 32768) = Flag(x >= 32768)
    BY <1>1, SMT DEF Btst, Flag
  <2>4. QED
    BY <1>1, <2>1, <2>2, <2>3, SMT DEF Flag
<1>2. CASE x < 0
  <2> DEFINE y == x + 131072
  <2>1. r = y
    BY <1>2, SMT
  <2>2. y \in Int /\ 65536 < y /\ y < 131072 /\ (y >= 98304 <=> x >= -32768)
    BY <1>2, SMT
  <2> HIDE DEF y
  <2>3. y % 65536 # 0 /\ Btst(y, 65536) = 1 /\ Btst(y, 32768) = Flag(y >= 98304)
    BY <2>2, SMT DEF Btst, Flag
  <2>4. QED
    BY <1>2, <2>1, <2>2, <2>3, SMT DEF Flag
<1>3. QED
  BY <1>1, <1>2, SMT

LEMMA Difference ==
  ASSUME NEW s, IsSign(s), NEW x \in Int, -(2 * s) < x, x < 2 * s, NEW r, r = Wrap(x, s)
  PROVE  /\ (r % (2 * s) = 0) <=> x = 0
         /\ Btst(r, 2 * s) = Flag(x < 0)
         /\ Btst(r, s) = Flag(IF x >= 0 THEN x >= s ELSE x >= -s)
<1>1. CASE s = 128
  <2>1. 2 * s = 256 /\ -s = -128 /\ -256 < x /\ x < 256 /\ r = x % 512
    BY <1>1, SMT DEF Wrap
  <2>2. /\ (r % 256 = 0) <=> x = 0
        /\ Btst(r, 256) = Flag(x < 0)
        /\ Btst(r, 128) = Flag(IF x >= 0 THEN x >= 128 ELSE x >= -128)
    BY <2>1, ByteDifference
  <2>3. QED
    BY <1>1, <2>1, <2>2
<1>2. CASE s = 32768
  <2>1. 2 * s = 65536 /\ -s = -32768 /\ -65536 < x /\ x < 65536 /\ r = x % 131072
    BY <1>2, SMT DEF Wrap
  <2>2. /\ (r % 65536 = 0) <=> x = 0
        /\ Btst(r, 65536) = Flag(x < 0)
        /\ Btst(r, 32768) = Flag(IF x >= 0 THEN x >= 32768 ELSE x >= -32768)
    BY <2>1, WordDifference
  <2>3. QED
    BY <1>2, <2>1, <2>2
<1>3. QED
  BY <1>1, <1>2 DEF IsSign, ByteSign, WordSign

\* Flags with this meaning decide every order; s is the weight of the sign.
LEMMA Decide ==
  ASSUME NEW s \in Int, s > 0, NEW d \in Int, NEW v \in Int,
         0 <= d, d < 2 * s, 0 <= v, v < 2 * s,
         NEW cc, cc.z = Flag(d = v), cc.c = Flag(d < v),
         cc.n = Flag(IF d >= v THEN d - v >= s ELSE d - v >= -s),
         cc.v = Odd4(Flag(d >= s), Flag(v >= s), cc.n, cc.c)
  PROVE  Orders(cc, d, v, s)
<1>1. /\ cc.z = (IF d = v THEN 1 ELSE 0)
      /\ cc.c = (IF d < v THEN 1 ELSE 0)
  BY DEF Flag
<1>2. /\ EQ(cc) <=> d = v
      /\ NE(cc) <=> d # v
      /\ HI(cc) <=> d > v
      /\ LS(cc) <=> d <= v
      /\ HS(cc) <=> d >= v
      /\ LO(cc) <=> d < v
  BY <1>1, SMT DEF EQ, NE, HI, LS, HS, LO
<1>3. (cc.n = cc.v) <=> SignedOf(d, s) >= SignedOf(v, s)
  <2>1. CASE d >= s /\ v >= s
    BY <2>1, SMT DEF SignedOf, Flag, Odd4
  <2>2. CASE d >= s /\ v < s
    BY <2>2, SMT DEF SignedOf, Flag, Odd4
  <2>3. CASE d < s /\ v >= s
    BY <2>3, SMT DEF SignedOf, Flag, Odd4
  <2>4. CASE d < s /\ v < s
    BY <2>4, SMT DEF SignedOf, Flag, Odd4
  <2>5. QED
    BY <2>1, <2>2, <2>3, <2>4, SMT
<1>4. (SignedOf(d, s) = SignedOf(v, s)) <=> d = v
  BY SMT DEF SignedOf
<1>5. SignedOf(d, s) \in Int /\ SignedOf(v, s) \in Int
  BY SMT DEF SignedOf
<1>6. /\ GT(cc) <=> SignedOf(d, s) > SignedOf(v, s)
      /\ LE(cc) <=> SignedOf(d, s) <= SignedOf(v, s)
      /\ GE(cc) <=> SignedOf(d, s) >= SignedOf(v, s)
      /\ LT(cc) <=> SignedOf(d, s) < SignedOf(v, s)
  BY <1>1, <1>3, <1>4, <1>5, SMT DEF GT, LE, GE, LT
<1>7. QED
  BY <1>2, <1>6 DEF Orders

\* The flags after d - v.
LEMMA DifferenceOrders ==
  ASSUME NEW s, IsSign(s), NEW cc \in CC,
         NEW d \in 0 .. 2 * s - 1, NEW v \in 0 .. 2 * s - 1,
         NEW f, f = SetNZVC(cc, d, v, Wrap(d - v, s), s)
  PROVE  Orders(f, d, v, s)
<1> DEFINE x == d - v
           r == Wrap(x, s)
<1>1. s \in Int /\ s > 0
  BY SMT DEF IsSign, ByteSign, WordSign
<1>2. d \in Int /\ 0 <= d /\ d < 2 * s /\ v \in Int /\ 0 <= v /\ v < 2 * s
  BY <1>1, SMT
<1>3. /\ x \in Int /\ -(2 * s) < x /\ x < 2 * s
      /\ (x = 0 <=> d = v) /\ (x < 0 <=> d < v) /\ (x >= 0 <=> d >= v)
  BY <1>1, <1>2, SMT
<1>4. (x >= s <=> d - v >= s) /\ (x >= -s <=> d - v >= -s)
  OBVIOUS
<1>5. f = SetNZVC(cc, d, v, r, s) /\ r = Wrap(x, s)
  OBVIOUS
<1> HIDE DEF x, r
<1>6. /\ f.n = Btst(r, s)
      /\ f.z = Flag(r % (2 * s) = 0)
      /\ f.v = Odd4(Btst(d, s), Btst(v, s), Btst(r, s), Btst(r, 2 * s))
      /\ f.c = Btst(r, 2 * s)
  <2> DEFINE g == SetNZVC(cc, d, v, r, s)
  <2>1. /\ g.n = Btst(r, s)
        /\ g.z = Flag(r % (2 * s) = 0)
        /\ g.v = Odd4(Btst(d, s), Btst(v, s), Btst(r, s), Btst(r, 2 * s))
        /\ g.c = Btst(r, 2 * s)
    BY FlagsOf
  <2>2. f = g
    BY <1>5
  <2> HIDE DEF g
  <2>3. QED
    BY <2>1, <2>2
<1>7. /\ (r % (2 * s) = 0) <=> x = 0
      /\ Btst(r, 2 * s) = Flag(x < 0)
      /\ Btst(r, s) = Flag(IF x >= 0 THEN x >= s ELSE x >= -s)
  BY <1>3, <1>5, Difference, Zenon
<1>8. Btst(d, s) = Flag(d >= s) /\ Btst(v, s) = Flag(v >= s)
  BY <1>2, SignBit, Zenon
<1>9. f.z = Flag(d = v) /\ f.c = Flag(d < v)
  BY <1>3, <1>6, <1>7, Zenon DEF Flag
<1>10. f.n = Flag(IF d >= v THEN d - v >= s ELSE d - v >= -s)
  BY <1>3, <1>4, <1>6, <1>7, Zenon DEF Flag
<1>11. f.v = Odd4(Flag(d >= s), Flag(v >= s), f.n, f.c)
  BY <1>6, <1>8, Zenon
<1>12. QED
  BY <1>1, <1>2, <1>9, <1>10, <1>11, Decide, Zenon

\* SET_H comes after the other flags and leaves them alone.
LEMMA SetHKeeps ==
  ASSUME NEW cc \in CC, NEW a, NEW b, NEW r, NEW d, NEW v, NEW s, Orders(cc, d, v, s)
  PROVE  Orders(SetH(cc, a, b, r), d, v, s)
<1>1. /\ SetH(cc, a, b, r).z = cc.z /\ SetH(cc, a, b, r).c = cc.c
      /\ SetH(cc, a, b, r).n = cc.n /\ SetH(cc, a, b, r).v = cc.v
  BY DEF SetH, CC
<1>2. QED
  BY <1>1, Zenon DEF Orders, EQ, NE, HI, LS, HS, LO, GT, LE, GE, LT

\* The macros give flags.
LEMMA FlagsTyped ==
  ASSUME NEW cc \in CC, NEW a \in Byte, NEW v \in Byte
  PROVE  SetNZVC(cc, a, v, Wrap(a - v, ByteSign), ByteSign) \in CC
<1> DEFINE r == Wrap(a - v, ByteSign)
<1>1. r \in Int
  BY SMT DEF Byte, Wrap, ByteSign
<1> HIDE DEF r
<1>2. /\ Btst(r, ByteSign) \in 0 .. 1 /\ Btst(r, 2 * ByteSign) \in 0 .. 1
  BY <1>1, SMT DEF Btst, ByteSign
<1>3. Flag(r % (2 * ByteSign) = 0) \in 0 .. 1
  BY DEF Flag
<1>4. Btst(a, ByteSign) \in 0 .. 1 /\ Btst(v, ByteSign) \in 0 .. 1
  BY SMT DEF Byte, Btst, ByteSign
<1>5. Odd4(Btst(a, ByteSign), Btst(v, ByteSign), Btst(r, ByteSign), Btst(r, 2 * ByteSign)) \in 0 .. 1
  BY <1>2, <1>4, SMT DEF Odd4
<1>6. SetNZVC(cc, a, v, r, ByteSign) \in CC
  BY <1>2, <1>3, <1>5 DEF SetNZVC, SetNZ, CC
<1>7. QED
  BY <1>6 DEF r

-----------------------------------------------------------------------------
\* CMPA, CMPB, SUBA, SUBB: after a compare or a subtraction of bytes, whatever
\* the flags were, BHI, BLS, BHS and BLO decide the order of the operands as
\* numbers from 0, BGT, BLE, BGE and BLT as signed numbers, BEQ and BNE their
\* equality.
THEOREM CompareBytes ==
  ASSUME NEW cc \in CC, NEW a \in Byte, NEW v \in Byte
  PROVE  /\ Orders(Cmp8(cc, a, v).cc, a, v, ByteSign)
         /\ Orders(Sub(cc, a, v).cc, a, v, ByteSign)
<1>1. IsSign(ByteSign)
  BY DEF IsSign
<1>2. a \in 0 .. 2 * ByteSign - 1 /\ v \in 0 .. 2 * ByteSign - 1
  BY SMT DEF Byte, ByteSign
<1> DEFINE r == Wrap(a - v, ByteSign)
           f == SetNZVC(cc, a, v, r, ByteSign)
<1>3. Orders(f, a, v, ByteSign)
  BY <1>1, <1>2, DifferenceOrders, Zenon
<1>4. Cmp8(cc, a, v).cc = f
  BY Zenon DEF Cmp8, Gives
<1>5. Sub(cc, a, v).cc = SetH(f, a, v, r)
  BY Zenon DEF Sub, Gives
<1>6. f \in CC
  BY FlagsTyped
<1> HIDE DEF f, r
<1>7. Orders(SetH(f, a, v, r), a, v, ByteSign)
  BY <1>3, <1>6, SetHKeeps, Zenon
<1>8. QED
  BY <1>3, <1>4, <1>5, <1>7, Zenon

\* CMPD, CMPX, CMPY, CMPU, CMPS and SUBD: the same of words.  (The opcodes 11 AC
\* and 11 BC of CMPS are decoded as CMPU, emu6809.c:202.)
THEOREM CompareWords ==
  ASSUME NEW cc \in CC, NEW d \in WordRange, NEW v \in WordRange
  PROVE  /\ Orders(Cmp16(cc, d, v).cc, d, v, WordSign)
         /\ Orders(Subd(cc, d, v).cc, d, v, WordSign)
<1>1. IsSign(WordSign)
  BY DEF IsSign
<1>2. d \in 0 .. 2 * WordSign - 1 /\ v \in 0 .. 2 * WordSign - 1
  BY Zenon DEF WordRange
<1>3. Orders(SetNZVC(cc, d, v, Wrap(d - v, WordSign), WordSign), d, v, WordSign)
  BY <1>1, <1>2, DifferenceOrders, Zenon
<1> DEFINE f == SetNZVC(cc, d, v, Wrap(d - v, WordSign), WordSign)
<1>4. Cmp16(cc, d, v).cc = f
  BY Zenon DEF Cmp16, Gives
<1>5. Subd(cc, d, v).cc = f
  BY SMT DEF Subd, Gives
<1>6. QED
  BY <1>3, <1>4, <1>5, Zenon

-----------------------------------------------------------------------------
\* ADCA, ADCB: the result and the carry it leaves are together the sum of the
\* operands and the carry there was, so that a chain of ADCs adds long numbers.
THEOREM SumWithCarry ==
  ASSUME NEW cc \in CC, NEW a \in Byte, NEW v \in Byte
  PROVE  Adc(cc, a, v).r + 256 * Adc(cc, a, v).cc.c = a + v + cc.c
<1> DEFINE r == a + v + cc.c
           f == SetNZVC(cc, a, v, r, ByteSign)
<1>1. r \in Int /\ 0 <= r /\ r < 512
  BY SMT DEF Byte, CC
<1>2. Adc(cc, a, v).r = r % 256 /\ Adc(cc, a, v).cc = SetH(f, a, v, r)
  BY SMT DEF Adc, Gives
<1> HIDE DEF r
<1>3. f.c = Btst(r, 2 * ByteSign)
  BY FlagsOf
<1>4. SetH(f, a, v, r).c = f.c
  BY DEF SetH, SetNZVC, SetNZ, CC
<1>5. 2 * ByteSign = 256
  BY SMT DEF ByteSign
<1>6. (r % 256) + 256 * Btst(r, 256) = r
  BY <1>1, SMT DEF Btst
<1> HIDE DEF f
<1>7. Adc(cc, a, v).cc.c = Btst(r, 256)
  BY <1>2, <1>3, <1>4, <1>5
<1>8. QED
  BY <1>2, <1>6, <1>7 DEF r

\* A byte put together from bits, and its bits.
Bits8(c, v, z, n, i, h, f, e) ==
  c + 2 * v + 4 * z + 8 * n + 16 * i + 32 * h + 64 * f + 128 * e

BitsAre(b, c, v, z, n, i, h, f, e) ==
  /\ Btst(b, 1) = c  /\ Btst(b, 2) = v  /\ Btst(b, 4) = z  /\ Btst(b, 8) = n
  /\ Btst(b, 16) = i /\ Btst(b, 32) = h /\ Btst(b, 64) = f /\ Btst(b, 128) = e

IsBit(x) == x \in Int /\ 0 <= x /\ x <= 1

LEMMA BitsOf ==
  ASSUME NEW c, NEW v, NEW z, NEW n, NEW i, NEW h, NEW f, NEW e,
         IsBit(c), IsBit(v), IsBit(z), IsBit(n), IsBit(i), IsBit(h), IsBit(f), IsBit(e)
  PROVE  BitsAre(Bits8(c, v, z, n, i, h, f, e), c, v, z, n, i, h, f, e)
<1> DEFINE b == Bits8(c, v, z, n, i, h, f, e)
<1>1. b \div 1 = c + 2 * (v + 2 * z + 4 * n + 8 * i + 16 * h + 32 * f + 64 * e)
  BY SMT DEF Bits8, IsBit
<1>2. b \div 2 = v + 2 * (z + 2 * n + 4 * i + 8 * h + 16 * f + 32 * e)
  BY SMT DEF Bits8, IsBit
<1>3. b \div 4 = z + 2 * (n + 2 * i + 4 * h + 8 * f + 16 * e)
  BY SMT DEF Bits8, IsBit
<1>4. b \div 8 = n + 2 * (i + 2 * h + 4 * f + 8 * e)
  BY SMT DEF Bits8, IsBit
<1>5. b \div 16 = i + 2 * (h + 2 * f + 4 * e)
  BY SMT DEF Bits8, IsBit
<1>6. b \div 32 = h + 2 * (f + 2 * e)
  BY SMT DEF Bits8, IsBit
<1>7. b \div 64 = f + 2 * e
  BY SMT DEF Bits8, IsBit
<1>8. b \div 128 = e
  BY SMT DEF Bits8, IsBit
<1> HIDE DEF b
<1>9. Btst(b, 1) = c /\ Btst(b, 2) = v /\ Btst(b, 4) = z /\ Btst(b, 8) = n
  BY <1>1, <1>2, <1>3, <1>4, SMT DEF Btst, IsBit
<1>10. Btst(b, 16) = i /\ Btst(b, 32) = h /\ Btst(b, 64) = f /\ Btst(b, 128) = e
  BY <1>5, <1>6, <1>7, <1>8, SMT DEF Btst, IsBit
<1>11. QED
  BY <1>9, <1>10 DEF BitsAre, b

\* PSHS CC, the frame of SWI, RTI: flags that went through the byte come back,
\* unless SET_H has left its 2 in the half carry, which comes back as F.
THEOREM PushedFlags ==
  ASSUME NEW cc \in CC
  PROVE  Setcc(Getcc(cc)) =
           IF cc.h = 2
           THEN [c |-> cc.c, v |-> cc.v, z |-> cc.z, n |-> cc.n,
                 i |-> cc.i, h |-> 0, f |-> 1, e |-> cc.e]
           ELSE cc
<1> DEFINE h == cc.h % 2
           f == Flag(cc.f = 1 \/ cc.h = 2)
           b == Getcc(cc)
<1>1. /\ cc.c \in 0 .. 1 /\ cc.v \in 0 .. 1 /\ cc.z \in 0 .. 1 /\ cc.n \in 0 .. 1
      /\ cc.i \in 0 .. 1 /\ cc.e \in 0 .. 1 /\ cc.f \in 0 .. 1 /\ cc.h \in 0 .. 2
  BY DEF CC
<1>2. h \in 0 .. 1 /\ f \in 0 .. 1
  BY <1>1, SMT DEF Flag
<1>3. b = Bits8(cc.c, cc.v, cc.z, cc.n, cc.i, h, f, cc.e)
  BY DEF Getcc, Bits8
<1>4. IF cc.h = 2 THEN h = 0 /\ f = 1 ELSE h = cc.h /\ f = cc.f
  BY <1>1, SMT DEF Flag
<1> HIDE DEF h, f, b
<1>5. BitsAre(b, cc.c, cc.v, cc.z, cc.n, cc.i, h, f, cc.e)
  <2>1. /\ IsBit(cc.c) /\ IsBit(cc.v) /\ IsBit(cc.z) /\ IsBit(cc.n)
        /\ IsBit(cc.i) /\ IsBit(h) /\ IsBit(f) /\ IsBit(cc.e)
    BY <1>1, <1>2, SMT DEF IsBit
  <2>2. QED
    BY <1>3, <2>1, BitsOf, Zenon
<1>6. Setcc(b) = [c |-> cc.c, v |-> cc.v, z |-> cc.z, n |-> cc.n,
                  i |-> cc.i, h |-> h, f |-> f, e |-> cc.e]
  BY <1>5, Zenon DEF Setcc, BitsAre
<1>7. cc = [c |-> cc.c, v |-> cc.v, z |-> cc.z, n |-> cc.n,
            i |-> cc.i, h |-> cc.h, f |-> cc.f, e |-> cc.e]
  BY DEF CC
<1>8. QED
  BY <1>4, <1>6, <1>7 DEF b

-----------------------------------------------------------------------------
\* The numbers up to a bound.
LEMMA UpTo ==
  ASSUME NEW n \in Nat, NEW w \in Nat, w <= n
  PROVE  w \in 0 .. n
BY SMT

\* Two bytes of a word.
LEMMA WordOf ==
  ASSUME NEW h \in Byte, NEW l \in 0 .. 255
  PROVE  (256 * h) + l \in WordRange
<1> DEFINE w   == (256 * h) + l
           top == 2 * WordSign - 1
<1>1. h \in Nat /\ h <= 255 /\ l \in Nat /\ l <= 255
  BY SMT DEF Byte
<1>2. top = 65535
  BY SMT DEF WordSign
<1>3. w \in Nat /\ w <= 65535
  BY <1>1, SMTT(30)
<1> HIDE DEF w, top
<1>4. top \in Nat /\ w \in Nat /\ w <= top
  BY <1>2, <1>3, SMT
<1>5. w \in 0 .. top
  BY <1>4, UpTo
<1> QED  BY <1>5, Zenon DEF w, top, WordRange

\* The two theorems on compares, for every byte the variable walks through.
LEMMA ComparesAt ==
  ASSUME byte \in Byte
  PROVE  BranchesCompare
<1> DEFINE cc == Flags(1, 0, 1)
<1>1. cc \in CC
  BY DEF Flags, CC
<1>2. ASSUME NEW b \in Byte
      PROVE  /\ Orders(Cmp8(cc, byte, b).cc, byte, b, ByteSign)
             /\ Orders(Sub(cc, byte, b).cc, byte, b, ByteSign)
  BY <1>1, CompareBytes
<1>3. ASSUME NEW b \in Byte, NEW lo \in 0 .. 255, NEW lo2 \in 0 .. 255
      PROVE  Orders(Cmp16(cc, (256 * byte) + lo, (256 * b) + lo2).cc,
                    (256 * byte) + lo, (256 * b) + lo2, WordSign)
  <2>1. /\ (256 * byte) + lo \in WordRange
        /\ (256 * b) + lo2 \in WordRange
    BY WordOf
  <2> HIDE DEF cc
  <2> DEFINE d == (256 * byte) + lo
             v == (256 * b) + lo2
  <2>2. d \in WordRange /\ v \in WordRange
    BY <2>1
  <2> HIDE DEF d, v
  <2>3. Orders(Cmp16(cc, d, v).cc, d, v, WordSign)
    BY <1>1, <2>2, CompareWords
  <2> QED  BY <2>3 DEF d, v
<1>4. Samples \subseteq Byte /\ {0, 1, 255} \subseteq 0 .. 255
  BY SamplesAssumption
<1> DEFINE Ordered(b, lo, lo2) ==
             Orders(Cmp16(cc, (256 * byte) + lo, (256 * b) + lo2).cc,
                    (256 * byte) + lo, (256 * b) + lo2, WordSign)
<1>5. \A b \in Byte, lo \in 0 .. 255, lo2 \in 0 .. 255 : Ordered(b, lo, lo2)
  BY <1>3
<1> HIDE DEF Ordered
<1>6. \A b \in Samples, lo \in {0, 1, 255}, lo2 \in {0, 1, 255} : Ordered(b, lo, lo2)
  BY <1>4, <1>5, Zenon
<1> QED  BY <1>2, <1>6, Zenon DEF BranchesCompare, Ordered

\* A conditional branch after a compare or a subtraction is taken exactly when
\* the numbers stand in the order it is named for (calc6809.h, inst6809.c).
THEOREM BranchesFollowOrder == Spec => []BranchesCompare
<1>1. Init => byte \in Byte
  BY SMT DEF Init, Byte
<1>2. byte \in Byte /\ [Next]_byte => (byte \in Byte)'
  BY SMT DEF Next, Byte
<1> QED  BY <1>1, <1>2, ComparesAt, PTL DEF Spec
=============================================================================
