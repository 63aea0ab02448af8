------------------------------ MODULE FpgaAlu ------------------------------
(***************************************************************************)
(* The arithmetic and logic unit of the FPGA processor, process alu of     *)
(* cpu09p.vhd: two 16 bit operands left and right, the flags cc, and an    *)
(* operation (alu_ctrl) give a 16 bit output and new flags.  A byte        *)
(* operand comes with a zero high byte.  Each function below is one of the *)
(* process's case statements; an operation it does not name keeps the flag.*)
(***************************************************************************)
EXTENDS Integers

\* left(k), out_alu(k) ...: the bit of weight w, as a condition.
On(x, w) == (x \div w) % 2 = 1

LOCAL Level(p) == IF p THEN 1 ELSE 0

\* daa_reg: the adjustment that alu_daa adds.
DaaReg(cc, left) ==
  LET lo == left % 16
      hi == (left \div 16) % 16
      both == \/ cc.c = 1 /\ (cc.h = 1 \/ lo > 9)
              \/ cc.c = 0 /\ cc.h = 1 /\ hi > 9
              \/ cc.c = 0 /\ cc.h = 0 /\ lo > 9 /\ hi > 8
      high == \/ cc.c = 1
              \/ cc.h = 0 /\ lo <= 9 /\ hi > 9
      low  == cc.h = 1 \/ lo > 9
  IN  IF both THEN 102 ELSE IF high THEN 96 ELSE IF low THEN 6 ELSE 0

LOCAL CarryIn(op, cc, left) ==
  CASE op \in {"adc", "sbc", "rol8", "ror8"} -> cc.c
    [] op = "asr8"                           -> Level(On(left, 128))
    [] OTHER                                 -> 0

\* left and right, left or right, left xor right: bytes.
LOCAL AndBits(a, b) ==
  LET both(w) == IF On(a, w) /\ On(b, w) THEN w ELSE 0
  IN  both(1) + both(2) + both(4) + both(8) + both(16) + both(32) + both(64) + both(128)

OutAlu(op, cc, left, right) ==
  LET cin == CarryIn(op, cc, left)
  IN  CASE op \in {"add8", "inc", "add16", "adc"} -> (left + right + cin) % 65536
        [] op \in {"sub8", "dec", "sub16", "sbc"} -> (left - right - cin) % 65536
        [] op = "and"             -> AndBits(left, right)
        [] op = "ora"             -> left + right - AndBits(left, right)
        [] op = "eor"             -> left + right - 2 * AndBits(left, right)
        [] op \in {"asl8", "rol8"}         -> (2 * (left % 32768)) + cin
        [] op \in {"lsr8", "asr8", "ror8"} -> (128 * cin) + ((left % 256) \div 2)
        [] op = "neg"             -> (right - left) % 65536
        [] op = "com"             -> 65535 - left
        [] op \in {"clr", "ld8"}  -> right
        [] op = "daa"             -> (left + DaaReg(cc, left)) % 65536
        [] op = "sex"             -> (IF On(left, 128) THEN 65280 ELSE 0) + (left % 256)

LOCAL Majority(p, q, r) == (p /\ q) \/ (p /\ r) \/ (q /\ r)

\* The sign bit the operation looks at: bit 7, or bit 15 of a word operation.
LOCAL Sign(op) == IF op \in {"add16", "sub16"} THEN 32768 ELSE 128

CBit(op, cc, left, right) ==
  LET out == OutAlu(op, cc, left, right)
      L == On(left, Sign(op))   R == On(right, Sign(op))   O == On(out, Sign(op))
  IN  CASE op \in {"add8", "adc", "add16"}          -> Level(Majority(L, R, ~O))
        [] op \in {"sub8", "sbc", "sub16"}          -> Level(Majority(~L, R, O))
        [] op \in {"ror8", "lsr8", "asr8"}          -> Level(On(left, 1))
        [] op \in {"rol8", "asl8"}                  -> Level(On(left, 128))
        [] op = "com"                               -> 1
        [] op \in {"neg", "clr"}                    -> Level(out % 256 # 0)
        [] op = "daa" -> Level(DaaReg(cc, left) \div 16 = 6)
        [] OTHER                                    -> cc.c

ZBit(op, cc, left, right) ==
  Level(OutAlu(op, cc, left, right) % (IF op \in {"add16", "sub16"} THEN 65536 ELSE 256) = 0)

NBit(op, cc, left, right) == Level(On(OutAlu(op, cc, left, right), Sign(op)))

HBit(op, cc, left, right) ==
  IF op \in {"add8", "adc"}
  THEN Level(Majority(On(left, 8), On(right, 8), ~On(OutAlu(op, cc, left, right), 8)))
  ELSE cc.h

VBit(op, cc, left, right) ==
  LET O == On(OutAlu(op, cc, left, right), Sign(op))
      L == On(left, Sign(op))   R == On(right, Sign(op))
  IN  CASE op \in {"add8", "adc", "add16"} -> Level((L /\ R /\ ~O) \/ (~L /\ ~R /\ O))
        [] op \in {"sub8", "sbc", "sub16"} -> Level((L /\ ~R /\ ~O) \/ (~L /\ R /\ O))
        [] op = "inc"                      -> Level(left % 256 = 127)
        [] op \in {"dec", "neg"}           -> Level(left % 256 = 128)
        [] op \in {"rol8", "asl8"}         -> Level(On(left, 128) # On(left, 64))
        [] op = "daa"                      -> Level(L # (O # (cc.c = 1)))
        [] op \in {"and", "ora", "eor", "com", "clr", "ld8", "sex"} -> 0
        [] OTHER                           -> cc.v

\* The output and the flags of one operation.
Alu(op, cc, left, right) ==
  [out |-> OutAlu(op, cc, left, right),
   c |-> CBit(op, cc, left, right), v |-> VBit(op, cc, left, right),
   z |-> ZBit(op, cc, left, right), n |-> NBit(op, cc, left, right),
   h |-> HBit(op, cc, left, right)]
=============================================================================
