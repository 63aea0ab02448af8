------------------------------ MODULE SimText ------------------------------
(***************************************************************************)
(* Text files of the host under the simulator (flex9io.c): a program that  *)
(* puts out ^Y, a command letter, a file name and ^Z saves what it puts    *)
(* out next (S as it is, W from hex digits) or gets the file as keys       *)
(* (L as it is, R as hex digits), up to a ^Z.                              *)
(*                                                                         *)
(* A state t of the transfer is a record:                                  *)
(*   text    what txtbuf still has for the keyboard; <<>> is txtbufp = -1  *)
(*   oc      "off" (txtbufoc = -1), "name" (after ^Y) or "save"            *)
(*   obuf    what was put out since                                        *)
(*   cmd, sv, name   txtbufcmd, txtbufsv, txtfnb                           *)
(*   half    the digit kept in hwk, NoDigit when hdc = 0                      *)
(*   files   the host's files, by name                                     *)
(* The other start, ^T, is left out: it goes on writing to txtbuf after    *)
(* getch2bbf has freed it.                                                 *)
(***************************************************************************)
EXTENDS Integers, Sequences, SequencesExt, TLC

CtrlY == 25
CtrlZ == 26
LF    == 10
NoDigit == -1
LetterL == 76
LetterR == 82
LetterS == 83
LetterW == 87

NoText(files) ==
  [text |-> <<>>, oc |-> "off", obuf |-> <<>>, cmd |-> 32, sv |-> -1,
   name |-> <<>>, half |-> NoDigit, files |-> files]

-----------------------------------------------------------------------------
\* hasctbl.
Digit(n) == IF n < 10 THEN 48 + n ELSE 55 + n

\* hcnvtbl, of a digit; the signs between 9 and A count as 0.  Letters from
\* G to O would be looked up before the table and are not modelled.
DigitValue(k) ==
  LET c == IF k > 70 THEN k - 32 ELSE k
  IN  IF c >= 65 THEN c - 55 ELSE IF c <= 57 THEN c - 48 ELSE 0

HexText(bytes) == FlattenSeq([i \in DOMAIN bytes |-> <<Digit(bytes[i] \div 16), Digit(bytes[i] % 16)>>])

\* read_battxt(txtfnb, 0x1a, cmd): R adds a ^Z of its own.
ReadBattxt(t, cmd) ==
  IF t.name \notin DOMAIN t.files THEN t
  ELSE [t EXCEPT !.text = IF cmd = LetterR THEN HexText(t.files[t.name]) \o <<CtrlZ, CtrlZ>>
                          ELSE t.files[t.name] \o <<CtrlZ>>]

\* The text has been read: output goes to the terminal again.
Ended(t) == IF t.sv = 2 /\ t.text = <<>> THEN [t EXCEPT !.sv = -1, !.cmd = 32] ELSE t

\* Mutant: the second digit does not clear hdc.
TakenOnce(t, k) ==
  IF t.cmd # LetterW THEN [t EXCEPT !.obuf = Append(@, k)]
  ELSE IF k \notin 48 .. 102 THEN t
  ELSE IF t.half = NoDigit THEN [t EXCEPT !.half = DigitValue(k)]
  ELSE [t EXCEPT !.obuf = Append(@, (16 * t.half) + DigitValue(k))]

\* One character of the file, or of the name.
Taken(t, k) ==
  IF t.cmd # LetterW THEN [t EXCEPT !.obuf = Append(@, k)]
  ELSE IF k \notin 48 .. 102 THEN t
  ELSE IF t.half = NoDigit THEN [t EXCEPT !.half = DigitValue(k)]
  ELSE [t EXCEPT !.obuf = Append(@, (16 * t.half) + DigitValue(k)), !.half = NoDigit]

Commands == {LetterL, LetterR, LetterS, LetterW}
GivenUp(t) == [t EXCEPT !.text = <<>>, !.oc = "off", !.sv = 2]

\* ^Z after the name.
Named(t) ==
  IF t.obuf = <<>> THEN [GivenUp(t) EXCEPT !.cmd = 0]
  ELSE LET cmd == Head(t.obuf)
           t1  == [t EXCEPT !.cmd = cmd, !.name = Tail(t.obuf)]
       IN  IF cmd \in {LetterL, LetterR}
           THEN ReadBattxt([t1 EXCEPT !.oc = "off", !.sv = 2], cmd)
           ELSE [t1 EXCEPT !.oc = "save", !.text = <<>>, !.obuf = <<>>]

\* ^Z after the data.
Saved(t) == [t EXCEPT !.files = (t.name :> t.obuf) @@ @, !.oc = "off", !.sv = 2]

\* check_outch: the character goes to the terminal when sv is -1 afterwards.
CheckOutch(t0, k) ==
  LET t == Ended(t0)
      u == Taken(t, k)
  IN  CASE k = 0 -> t
        [] k # 0 /\ t.oc = "off" ->
             IF k = CtrlY
             THEN [t EXCEPT !.text = <<>>, !.oc = "name", !.obuf = <<>>, !.sv = 1, !.half = NoDigit]
             ELSE t
        [] k \notin {0, CtrlZ} /\ t.oc # "off" ->
             IF t.oc = "name" /\ Head(u.obuf) \notin Commands THEN GivenUp(u) ELSE u
        [] k = CtrlZ /\ t.oc = "name" -> Named(t)
        [] k = CtrlZ /\ t.oc = "save" -> Saved(t)

\* getch2bbf from txtbuf: a line feed after the key is passed over.
TextKey(t) == Head(t.text)
AfterKey(t) ==
  LET rest == Tail(t.text)
      left == IF rest # <<>> /\ Head(rest) = LF THEN Tail(rest) ELSE rest
  IN  [t EXCEPT !.text = left, !.cmd = IF left = <<>> THEN 32 ELSE @]
=============================================================================
