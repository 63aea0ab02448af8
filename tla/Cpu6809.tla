------------------------------ MODULE Cpu6809 ------------------------------
(***************************************************************************)
(* The processor of the simulator (emu6809.c, inst6809.c, int6809.c) over  *)
(* plain memory (memory.c without its device addresses).  A machine m is a *)
(* record: the registers under their names, cc as in Alu6809, the memory   *)
(* mem (a function on the bytes that were ever written, the others hold    *)
(* what memory_init left), and err, why the last instruction stopped.      *)
(*                                                                         *)
(* C leaves the order of evaluation open in rpc + get_i8() and in          *)
(* set_memw(GET_EAW, reg); the definitions have the order the makefile's   *)
(* compiler, gcc, gives: the program counter is read after the fetch, and  *)
(* a store uses the register as it was before an automatic increment.     *)
(* Cycle counts and the history of program counters are left out.          *)
(***************************************************************************)
EXTENDS Alu6809, Sequences, TLC

Word == {n \in Nat : n < 65536}
W(n) == n % 65536

Read(m, adr)  == IF adr \in DOMAIN m.mem THEN m.mem[adr] ELSE 255
ReadW(m, adr) == 256 * Read(m, adr) + Read(m, W(adr + 1))
Over(g, f) == [adr \in DOMAIN g \cup DOMAIN f |-> IF adr \in DOMAIN g THEN g[adr] ELSE f[adr]]
Write(m, adr, v)  == [m EXCEPT !.mem = Over([a \in {adr} |-> v], @)]
WriteW(m, adr, v) == Write(Write(m, adr, v \div 256), W(adr + 1), v % 256)

\* m6809_init over the memory of memory_init.
PowerOn(mem) ==
  [pc |-> 0, x |-> 0, y |-> 0, u |-> 0, s |-> 0, a |-> 0, b |-> 0, dp |-> 0,
   cc |-> Setcc(0), mem |-> mem, err |-> "none"]

Skip(m, n)  == [m EXCEPT !.pc = W(@ + n)]
Fail(m, e)  == [m EXCEPT !.err = e]
D(m)        == 256 * m.a + m.b
SetD(m, d)  == [m EXCEPT !.a = d \div 256, !.b = d % 256]
Reg16(m, R) == IF R = "d" THEN D(m) ELSE m[R]
Load16(m, R, v) == IF R = "d" THEN SetD(m, v) ELSE [m EXCEPT ![R] = v]

\* The byte the program counter stands at: get_i8, without the step.
Post(m) == Read(m, m.pc)

\* (tt_s16)(tt_s8)v, and the five bit offset of an index postbyte.
Ext8(v) == IF v >= 128 THEN v - 256 ELSE v
Ext5(v) == IF v % 32 >= 16 THEN (v % 32) - 32 ELSE v % 16

-----------------------------------------------------------------------------
\* The registers of TFR and EXG.
ExgNames == <<"d", "x", "y", "u", "s", "pc", "none", "none",
              "a", "b", "cc", "dp", "none", "none", "none", "none">>
ExgName(c) == ExgNames[c + 1]

Getexr(m, c) == CASE ExgName(c) = "none" -> 0
                  [] ExgName(c) = "cc"   -> Getcc(m.cc)
                  [] OTHER               -> Reg16(m, ExgName(c))

Setexr(m, c, r) ==
  CASE ExgName(c) = "none" -> Fail(m, "exgr")
    [] ExgName(c) = "cc"   -> [m EXCEPT !.cc = Setcc(r % 256)]
    [] c \in 0 .. 5        -> Load16(m, ExgName(c), r)
    [] OTHER               -> [m EXCEPT ![ExgName(c)] = r % 256]

\* getexr of an unknown register sets the error too.
Known(m, c) == IF ExgName(c) = "none" THEN Fail(m, "exgr") ELSE m

\* c1 and c2 are the low and the high half of the postbyte.
Exg(m, c1, c2) == Setexr(Setexr(m, c1, Getexr(m, c2)), c2, Getexr(m, c1))
Tfr(m, c1, c2) == Setexr(m, c1, Getexr(m, c2))

-----------------------------------------------------------------------------
Push(m, sp, R) ==
  IF R \in {"dp", "a", "b", "cc"}
  THEN LET t == W(m[sp] - 1)
       IN  Write([m EXCEPT ![sp] = t], t, IF R = "cc" THEN Getcc(m.cc) ELSE m[R])
  ELSE LET t == W(m[sp] - 2)
       IN  WriteW([m EXCEPT ![sp] = t], t, m[R])

Pull(m, sp, R) ==
  CASE R = "cc" -> [m EXCEPT !.cc = Setcc(Read(m, m[sp])), ![sp] = W(@ + 1)]
    [] R \in {"dp", "a", "b"} -> [m EXCEPT ![R] = Read(m, m[sp]), ![sp] = W(@ + 1)]
    [] OTHER -> [m EXCEPT ![R] = ReadW(m, m[sp]), ![sp] = W(@ + 2)]

\* do_psh and do_pul: a bit of the postbyte for each register; np is the other
\* stack pointer.
PushIf(m, sp, post, w, R) == IF Btst(post, w) = 1 THEN Push(m, sp, R) ELSE m
PullIf(m, sp, post, w, R) == IF Btst(post, w) = 1 THEN Pull(m, sp, R) ELSE m

Psh(m, sp, np, post) ==
  LET P(m1, w, R) == PushIf(m1, sp, post, w, R)
  IN  P(P(P(P(P(P(P(P(m, 128, "pc"), 64, np), 32, "y"), 16, "x"),
              8, "dp"), 4, "b"), 2, "a"), 1, "cc")

Pul(m, sp, np, post) ==
  LET P(m1, w, R) == PullIf(m1, sp, post, w, R)
  IN  P(P(P(P(P(P(P(P(m, 1, "cc"), 2, "a"), 4, "b"), 8, "dp"),
              16, "x"), 32, "y"), 64, np), 128, "pc")

-----------------------------------------------------------------------------
\* Effective addresses: the address and the machine after the fetches.
At(adr, m) == [adr |-> adr, m |-> m]

Imm(m, n) == At(m.pc, Skip(m, n))
Dir(m)    == At(256 * m.dp + Read(m, m.pc), Skip(m, 1))
Ext(m)    == At(ReadW(m, m.pc), Skip(m, 2))
Relb(m)   == At(W(m.pc + 1 + Ext8(Read(m, m.pc))), Skip(m, 1))
Relw(m)   == At(W(m.pc + 2 + ReadW(m, m.pc)), Skip(m, 2))

\* An index postbyte without its indirection bit; R is its register.
Indexed(R, v, m) ==
  LET k == v % 32
      Step(n) == [m EXCEPT ![R] = W(@ + n)]
  IN  IF v < 128 THEN At(W(m[R] + Ext5(v)), m)
      ELSE
      CASE k = 0           -> At(m[R], Step(1))
        [] k \in {1, 17}   -> At(m[R], Step(2))
        [] k = 2           -> At(W(m[R] - 1), Step(-1))
        [] k \in {3, 19}   -> At(W(m[R] - 2), Step(-2))
        [] k \in {4, 20}   -> At(m[R], m)
        [] k \in {5, 21}   -> At(W(m[R] + Ext8(m.b)), m)
        [] k \in {6, 22}   -> At(W(m[R] + Ext8(m.a)), m)
        [] k \in {8, 24}   -> At(W(m[R] + Ext8(Post(m))), Skip(m, 1))
        [] k \in {9, 25}   -> At(W(m[R] + ReadW(m, m.pc)), Skip(m, 2))
        [] k \in {11, 27}  -> At(W(m[R] + D(m)), m)
        [] k \in {12, 28}  -> Relb(m)
        [] k \in {13, 29}  -> Relw(m)
        [] k = 31          -> Ext(m)
        [] OTHER           -> At(0, Fail(m, "postbyte"))

Indirect(v, e) ==
  IF v >= 128 /\ Btst(v, 16) = 1 THEN At(ReadW(e.m, e.adr), e.m) ELSE e

Idx(m) ==
  LET v == Post(m)
  IN  Indirect(v, Indexed(<<"x", "y", "u", "s">>[1 + ((v \div 32) % 4)], v, Skip(m, 1)))

\* eaddrmodb and eaddrmodw: n is the size of the operand.
EA(m, mode, n) ==
  CASE mode = "imm" -> Imm(m, n)
    [] mode = "dir" -> Dir(m)
    [] mode = "idx" -> Idx(m)
    [] mode = "ext" -> Ext(m)
    [] mode = "relb" -> Relb(m)
    [] mode = "relw" -> Relw(m)
    [] OTHER         -> At(0, Fail(m, "addrmode"))

-----------------------------------------------------------------------------
\* The instruction tables fonc and amod.  An instruction is its function
\* without the register, the register, and the addressing mode; what only
\* differs in the register, or in the size of a relative address, has one name.
Ins(op, R, mode) == [op |-> op, R |-> R, mode |-> mode]
Null == Ins("null", "none", "none")

Column(seq, k) == seq[k + 1]
Unary == << "neg", "null", "null", "com", "lsr", "null", "ror", "asr",
            "asl", "rol", "dec", "null", "inc", "tst", "jmp", "clr" >>
Short == << "bra", "brn", "bhi", "bls", "bcc", "bcs", "bne", "beq",
            "bvc", "bvs", "bpl", "bmi", "bge", "blt", "bgt", "ble" >>
Row1  == << "pag2", "pag3", "nop", "syn", "null", "null", "bra", "bsr",
            "null", "daa", "orcc", "null", "andc", "sex", "exg", "tfr" >>
Row3  == << "lea", "lea", "lea", "lea", "pshs", "puls", "pshu", "pulu",
            "null", "rts", "abx", "rti", "cwai", "mul", "null", "swi" >>
Accu  == << "sub", "cmp", "sbc", "null", "and", "bit", "ld", "st",
            "eor", "adc", "or", "add", "null", "null", "null", "null" >>

\* The mode of the four columns of rows 8 to B and C to F.
Mode4(hi) == <<"imm", "dir", "idx", "ext">>[1 + (hi % 4)]

Page1(hi, lo) ==
  CASE hi = 0 -> Ins(Column(Unary, lo), "mem", "dir")
    [] hi = 1 -> Ins(Column(Row1, lo), "none",
                     IF lo \in {6, 7} THEN "relw" ELSE IF lo \in {10, 12} THEN "imm" ELSE "none")
    [] hi = 2 -> Ins(Column(Short, lo), "none", "relb")
    [] hi = 3 -> IF lo < 4 THEN Ins("lea", Column(<<"x", "y", "s", "u">>, lo), "idx")
                 ELSE Ins(Column(Row3, lo), "none", "none")
    [] hi \in {4, 5} -> IF lo = 14 THEN Null
                        ELSE Ins(Column(Unary, lo), IF hi = 4 THEN "a" ELSE "b", "none")
    [] hi = 6 -> Ins(Column(Unary, lo), "mem", "idx")
    [] hi = 7 -> Ins(Column(Unary, lo), "mem", "ext")
    [] OTHER ->
         CASE lo = 3  -> IF hi < 12 THEN Ins("subd", "d", Mode4(hi)) ELSE Ins("addd", "d", Mode4(hi))
           [] lo = 12 -> IF hi < 12 THEN Ins("cmp16", "x", Mode4(hi)) ELSE Ins("ld16", "d", Mode4(hi))
           [] lo = 13 /\ hi = 8 -> Ins("bsr", "none", "relb")
           [] lo = 13 /\ hi \in 9 .. 11 -> Ins("jsr", "none", Mode4(hi))
           [] lo = 13 /\ hi > 12 -> Ins("st16", "d", Mode4(hi))
           [] lo = 14 -> Ins("ld16", IF hi < 12 THEN "x" ELSE "u", Mode4(hi))
           [] lo = 15 /\ hi % 4 # 0 -> Ins("st16", IF hi < 12 THEN "x" ELSE "u", Mode4(hi))
           [] lo \notin 12 .. 15 \cup {3} /\ ~(lo = 7 /\ hi % 4 = 0) ->
                Ins(Column(Accu, lo), IF hi < 12 THEN "a" ELSE "b", Mode4(hi))
           [] OTHER -> Null

Page2(hi, lo) ==
  CASE hi = 2 /\ lo > 0 -> Ins(Column(Short, lo), "none", "relw")
    [] hi = 3 /\ lo = 15 -> Ins("swi2", "none", "none")
    [] hi \in 8 .. 11 /\ lo = 3  -> Ins("cmp16", "d", Mode4(hi))
    [] hi \in 8 .. 11 /\ lo = 12 -> Ins("cmp16", "y", Mode4(hi))
    [] hi \in 8 .. 11 /\ lo = 14 -> Ins("ld16", "y", Mode4(hi))
    [] hi \in 9 .. 11 /\ lo = 15 -> Ins("st16", "y", Mode4(hi))
    [] hi \in 12 .. 15 /\ lo = 14 -> Ins("ld16", "s", Mode4(hi))
    [] hi \in 13 .. 15 /\ lo = 15 -> Ins("st16", "s", Mode4(hi))
    [] OTHER -> Null

\* The last two rows of column 12 name cmpu where the first two name cmps.
Page3(hi, lo) ==
  CASE hi = 3 /\ lo = 15 -> Ins("swi3", "none", "none")
    [] hi \in 8 .. 11 /\ lo = 3  -> Ins("cmp16", "u", Mode4(hi))
    [] hi \in 8 .. 9  /\ lo = 12 -> Ins("cmp16", "s", Mode4(hi))
    [] hi \in 10 .. 11 /\ lo = 12 -> Ins("cmp16", "u", Mode4(hi))
    [] OTHER -> Null

Decode(page, r) ==
  CASE page = 1 -> Page1(r \div 16, r % 16)
    [] page = 2 -> Page2(r \div 16, r % 16)
    [] page = 3 -> Page3(r \div 16, r % 16)

-----------------------------------------------------------------------------
\* The instructions, on the machine after the opcode was fetched.
Binary(op, cc, a, v) ==
  CASE op = "sub" -> Sub(cc, a, v) [] op = "cmp" -> Cmp8(cc, a, v)
    [] op = "sbc" -> Sbc(cc, a, v) [] op = "and" -> And(cc, a, v)
    [] op = "bit" -> Bit(cc, a, v) [] op = "ld"  -> Move(cc, v, ByteSign)
    [] op = "eor" -> Eor(cc, a, v) [] op = "adc" -> Adc(cc, a, v)
    [] op = "or"  -> Or(cc, a, v)  [] op = "add" -> Add(cc, a, v)

Wide(op, cc, d, v) ==
  CASE op = "subd"  -> Subd(cc, d, v)  [] op = "addd" -> Addd(cc, d, v)
    [] op = "cmp16" -> Cmp16(cc, d, v) [] op = "ld16" -> Move(cc, v, WordSign)

OneByte(op, cc, t) ==
  CASE op = "neg" -> Neg(cc, t) [] op = "com" -> Com(cc, t) [] op = "lsr" -> Lsr(cc, t)
    [] op = "ror" -> Ror(cc, t) [] op = "asr" -> Asr(cc, t) [] op = "asl" -> Asl(cc, t)
    [] op = "rol" -> Rol(cc, t) [] op = "dec" -> Dec(cc, t) [] op = "inc" -> Inc(cc, t)
    [] op = "tst" -> Tst(cc, t) [] op = "clr" -> Clr(cc, t)

Conditions(cc) ==
  [bra |-> RA(cc), brn |-> RN(cc), bhi |-> HI(cc), bls |-> LS(cc), bcc |-> HS(cc), bcs |-> LO(cc),
   bne |-> NE(cc), beq |-> EQ(cc), bvc |-> VC(cc), bvs |-> VS(cc), bpl |-> PL(cc), bmi |-> MI(cc),
   bge |-> GE(cc), blt |-> LT(cc), bgt |-> GT(cc), ble |-> LE(cc)]

\* A value and flags, into the register R.
Into(m, R, g) == [m EXCEPT ![R] = g.r, !.cc = g.cc]

\* e is the effective address of the operand, and the machine behind it.
OnAccu(m, i, e) == Into(e.m, i.R, Binary(i.op, m.cc, m[i.R], Read(e.m, e.adr)))

IntoWide(m, R, g) == [Load16(m, R, g.r) EXCEPT !.cc = g.cc]
OnWide(m, i, e) == IntoWide(e.m, i.R, Wide(i.op, m.cc, Reg16(e.m, i.R), ReadW(e.m, e.adr)))

St(m, i, e)   == [Write(e.m, e.adr, m[i.R]) EXCEPT !.cc = Move(m.cc, m[i.R], ByteSign).cc]
St16(m, i, e) ==
  [WriteW(e.m, e.adr, Reg16(m, i.R)) EXCEPT !.cc = Move(m.cc, Reg16(m, i.R), WordSign).cc]

\* TST does not write its operand.
IntoByte(m, i, adr, g) ==
  IF i.op = "tst" THEN [m EXCEPT !.cc = g.cc] ELSE Write([m EXCEPT !.cc = g.cc], adr, g.r)
OnByte(m, i) == Into(m, i.R, OneByte(i.op, m.cc, m[i.R]))
OnMemory(m, i, e) == IntoByte(e.m, i, e.adr, OneByte(i.op, m.cc, Read(e.m, e.adr)))

Lea(i, e) ==
  [e.m EXCEPT ![i.R] = e.adr,
              !.cc = IF i.R \in {"x", "y"} THEN LeaZ(@, e.adr) ELSE @]

Branch(m, c, e) == IF Conditions(m.cc)[c] THEN [e.m EXCEPT !.pc = e.adr] ELSE e.m

Jmp(e) == [e.m EXCEPT !.pc = e.adr]
Jsr(e) == [Push(e.m, "s", "pc") EXCEPT !.pc = e.adr]

\* BSR and LBSR push the return address before they fetch the offset.
Pushed(m, pc)  == [WriteW(m, W(m.s - 2), pc) EXCEPT !.s = W(@ - 2)]
Bsr(m, mode)   ==
  Jmp(EA(Pushed(m, W(m.pc + IF mode = "relb" THEN 1 ELSE 2)), mode, 1))

Rts(m)    == Pull(m, "s", "pc")

RtiRest(m) == Pul(m, "s", "u", IF m.cc.e = 0 THEN 128 ELSE 254)
Rti(m)     == RtiRest(Pul(m, "s", "u", 1))

\* cce = 1 and all registers on the stack.
PushAll(m) == Psh([m EXCEPT !.cc.e = 1], "s", "u", 255)

Swi(m)  == Fail([PushAll(m) EXCEPT !.cc.i = 1, !.cc.f = 1], "swi")
Vectored(m, vector) == [m EXCEPT !.pc = ReadW(m, vector)]
Swi2(m) == Vectored(PushAll(m), 65524)
Swi3(m) == Vectored(PushAll(m), 65522)

Perform(m, i) ==
  LET op == i.op IN
  CASE op = "null" -> Fail(m, "opcode")
    [] op \in {"sub", "cmp", "sbc", "and", "bit", "ld", "eor", "adc", "or", "add"} ->
         OnAccu(m, i, EA(m, i.mode, 1))
    [] op \in {"subd", "addd", "cmp16", "ld16"} -> OnWide(m, i, EA(m, i.mode, 2))
    [] op = "st"    -> St(m, i, EA(m, i.mode, 1))
    [] op = "st16"  -> St16(m, i, EA(m, i.mode, 2))
    [] op = "lea"   -> Lea(i, EA(m, i.mode, 2))
    [] op = "jmp"   -> Jmp(EA(m, i.mode, 2))
    [] op = "jsr"   -> Jsr(EA(m, i.mode, 2))
    [] op = "bsr"   -> Bsr(m, i.mode)
    [] op = "rts"   -> Rts(m)
    [] op = "rti"   -> Rti(m)
    [] op = "swi"   -> Swi(m)
    [] op = "swi2"  -> Swi2(m)
    [] op = "swi3"  -> Swi3(m)
    [] op = "exg"   -> Exg(Known(Known(Skip(m, 1), Post(m) % 16), Post(m) \div 16),
                           Post(m) % 16, Post(m) \div 16)
    [] op = "tfr"   -> Tfr(Known(Skip(m, 1), Post(m) \div 16), Post(m) % 16, Post(m) \div 16)
    [] op = "pshs"  -> Psh(Skip(m, 1), "s", "u", Post(m))
    [] op = "pshu"  -> Psh(Skip(m, 1), "u", "s", Post(m))
    [] op = "puls"  -> Pul(Skip(m, 1), "s", "u", Post(m))
    [] op = "pulu"  -> Pul(Skip(m, 1), "u", "s", Post(m))
    [] op = "abx"   -> [m EXCEPT !.x = W(@ + m.b)]
    [] op = "andc"  -> [Skip(m, 1) EXCEPT !.cc = Andcc(@, Post(m))]
    [] op = "orcc"  -> [Skip(m, 1) EXCEPT !.cc = Orcc(@, Post(m))]
    [] op = "cwai"  -> [Skip(m, 1) EXCEPT !.cc = Cwai(@, Post(m))]
    [] op = "daa"   -> Into(m, "a", Daa(m.cc, m.a))
    [] op = "mul"   -> IntoWide(m, "d", Mul(m.cc, m.a, m.b))
    [] op = "sex"   -> IntoWide(m, "d", Sex(m.cc, m.b))
    [] op \in {"nop", "syn"} -> m
    [] op \in DOMAIN Conditions(m.cc) -> Branch(m, op, EA(m, i.mode, 1))
    [] OTHER        -> IF i.R = "mem" THEN OnMemory(m, i, EA(m, i.mode, 1)) ELSE OnByte(m, i)

\* The functions pag2 and pag3 fetch another opcode for their own tables.
Fetch(m, opcode) ==
  IF opcode \in {16, 17} THEN Perform(Skip(m, 1), Decode(opcode - 14, Post(m)))
  ELSE Perform(m, Decode(1, opcode))

\* m6809_execute.
Execute(m) == Fetch(Skip([m EXCEPT !.err = "none"], 1), Post(m))

-----------------------------------------------------------------------------
\* int6809.c.  Nothing in the simulator calls irq or firq.
Reset(m) == Vectored([m EXCEPT !.dp = 0, !.cc.f = 0, !.cc.i = 0], 65534)

Irq(m)  == IF m.cc.i = 1 THEN m ELSE Vectored([PushAll(m) EXCEPT !.cc.i = 1], 65528)

Firq(m) ==
  IF m.cc.f = 1 THEN m
  ELSE Vectored([Psh([m EXCEPT !.cc.e = 0], "s", "u", 129) EXCEPT !.cc.i = 1, !.cc.f = 1], 65526)
=============================================================================
