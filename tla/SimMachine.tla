----------------------------- MODULE SimMachine -----------------------------
(***************************************************************************)
(* The simulator at work: console.c runs the processor of Cpu6809, the     *)
(* processor runs the drivers FMS calls (CONSOLE_SIM.ASM, byte by byte),   *)
(* the drivers ask the host for keys, characters and sectors by software   *)
(* interrupt (m6809_swi_call in flex9io.c), and the user types, sets break *)
(* points, steps and sends SIGINT.                                         *)
(*                                                                         *)
(* FMS itself is one place of the memory, Home, where a JSR stands whose   *)
(* operand and registers FMS chooses, and a branch back to it.             *)
(*                                                                         *)
(* phase is where execute() is: "run" before an instruction, "swi" before  *)
(* the host's part of a call, "tail" after the inner loop, "loop" before   *)
(* the next round of the outer one; at "prompt" the console waits.         *)
(***************************************************************************)
EXTENDS Disassembler

CONSTANTS
  SectorBytes,
  None,
  Pattern,       \* the first byte of the contents of a sector, by name
  Images,        \* the disk images, of tuples of blocks
  Services,      \* what FMS calls for
  Keys,          \* what the user types
  BreakPlaces, BreakKinds,  \* what the b command is given
  MaxSteps,      \* the largest n of an n command
  MaxCalls, MaxKeys, MaxCommands, MaxSignals  \* bounds on a behaviour

K == INSTANCE SimDisk

\* ^T and ^F typed open dialogs that are not modelled.
ASSUME KeysAssumption == Keys \subseteq (3 .. 127) \ {6, 20}
ASSUME SizeAssumption    == SectorBytes \in Nat \ {0} /\ SectorBytes <= 256
Blocks == [0 .. SectorBytes - 1 -> Byte]
ASSUME ImagesAssumption  == Images \in [K!Drives -> Seq(Blocks)]
ASSUME PatternAssumption == \A v \in DOMAIN Pattern : Pattern[v] \in Byte
\* Contents are told apart by their first byte.
ASSUME ContentsAssumption == \A v, w \in DOMAIN Pattern : Pattern[v] = Pattern[w] => v = w
ASSUME ServicesAssumption ==
  \A q \in Services :
    \/ /\ q.op \in {"read", "write"} /\ \A i \in 1 .. 3 : q.sector[i] \in Byte
       /\ q.op = "write" => q.value \in DOMAIN Pattern
    \/ q.op = "outch" /\ q.char \in Byte
    \/ q.op = "chkrdy" /\ q.drive \in Byte
    \/ q.op \in {"inch", "inche", "inchek", "verify", "bad"}
ASSUME RequestsAssumption ==
  \A q \in Services :
    /\ q.op = "read" => q = [op |-> "read", sector |-> q.sector, value |-> None]
    /\ q.op = "write" => q = [op |-> "write", sector |-> q.sector, value |-> q.value]
\* 1 stops, 2 is a trace point, 3 stops; 4 is the bit of a step over.
ASSUME KindsAssumption == BreakKinds \subseteq 0 .. 3
ASSUME BoundsAssumption == {MaxSteps, MaxCalls, MaxKeys, MaxCommands, MaxSignals} \subseteq Nat

VARIABLES
  m,             \* the machine
  disks,         \* as in SimDisk
  waiting,       \* keys typed and not read
  phase, active, console_active, step, r, prepc, bkeyin, brkbuf, stepcnt,
  command,       \* the console's command that runs
  call, stage,   \* FMS' call, and which of its two JSRs: "select", "transfer"
  saved,         \* the registers when the driver was entered
  answered,      \* the host has been asked for the transfer
  typed, got,    \* the keys typed for FMS, and those the drivers handed to it
  done,          \* instructions executed since the command, up to 2
  calls, commands, signals

devices  == <<disks, waiting>>
loopVars == <<phase, active, console_active, step, r, prepc, bkeyin, brkbuf, stepcnt, command>>
fmsVars  == <<call, stage, saved, answered>>
history  == <<typed, got, done>>
bounds   == <<calls, commands, signals>>
vars     == <<m, devices, loopVars, fmsVars, history, bounds>>

-----------------------------------------------------------------------------
\* CONSOLE_SIM.ASM: the routines, one after the other from 62000 on.
INCH   == <<52, 4, 134, 3, 63, 31, 152, 53, 4, 57>>
INCHE  == <<52, 4, 134, 3, 63, 52, 4, 134, 4, 63, 53, 4, 31, 152, 53, 4, 57>>
INCHEK == <<52, 4, 134, 5, 63, 31, 152, 53, 4, 77, 57>>
OUTCH  == <<52, 6, 31, 137, 134, 4, 63, 53, 6, 57>>

\* Mutant: Y is not pushed; NOPs keep the length.
SUnpushed(n) == <<18, 18, 31, 2, 198, n, 134, 6, 63, 18, 18, 57>>

S(n) == <<52, 32, 31, 2, 198, n, 134, 6, 63, 53, 32, 57>>

\* A routine of a user's program with an opcode that is none.
BAD == <<1, 57>>

Base   == 62000
Entry  == [inch |-> Base, inche |-> Base + 10, inchek |-> Base + 27, outch |-> Base + 38,
           read |-> Base + 48, write |-> Base + 60, verify |-> Base + 72, drive |-> Base + 84,
           chkrdy |-> Base + 96, bad |-> Base + 108]
Driver == INCH \o INCHE \o INCHEK \o OUTCH \o S(0) \o S(1) \o S(2) \o S(4) \o S(5) \o BAD

Home   == 4096
Back   == Home + 3
Fcb    == 1024
Buffer == 1280
Stack  == 2048

Memory ==
  Over([i \in Base .. Base + Len(Driver) - 1 |-> Driver[i - Base + 1]],
       [i \in Home .. Home + 4 |-> <<189, 0, 0, 32, 251>>[i - Home + 1]])

IsDisk(q) == q.op \in {"read", "write"}

Init ==
  /\ m = [PowerOn(Memory) EXCEPT !.pc = Home, !.s = Stack, !.y = 4660, !.u = 22136, !.dp = 7]
  /\ disks = K!Disks(Images)
  /\ waiting = <<>>
  /\ phase = "prompt" /\ active = FALSE /\ console_active = TRUE
  /\ step = FALSE /\ r = 0 /\ prepc = 0 /\ bkeyin = 0
  /\ brkbuf = <<>> /\ stepcnt = 0
  /\ command = [kind |-> "none"]
  /\ call = None /\ stage = "none" /\ saved = None /\ answered = FALSE
  /\ typed = <<>> /\ got = <<>> /\ done = 0
  /\ calls = 0 /\ commands = 0 /\ signals = 0

\* brkbuf, of which only what is set is kept.
Brk(a) == IF a \in DOMAIN brkbuf THEN brkbuf[a] ELSE 0
WithBrk(a, v) ==
  LET others == [b \in DOMAIN brkbuf \ {a} |-> brkbuf[b]]
  IN  IF v = 0 THEN others ELSE Over([b \in {a} |-> v], others)

-----------------------------------------------------------------------------
\* The inner loop of execute(): one instruction, and whether another follows.
Step(m0) ==
  /\ m' = Execute(m0)
  /\ done' = IF done = 2 THEN 2 ELSE done + 1
  /\ CASE m'.err = "swi" ->
            phase' = "swi" /\ UNCHANGED <<active, step, r, prepc>>
       [] m'.err \notin {"none", "swi"} ->
            phase' = "tail" /\ active' = TRUE /\ r' = 1 /\ step' = FALSE /\ UNCHANGED prepc
       [] m'.err = "none" /\ ~active /\ Brk(m'.pc) = 0 /\ bkeyin = 0 ->
            prepc' = m'.pc /\ UNCHANGED <<phase, active, step, r>>
       [] OTHER ->
            phase' = "tail" /\ UNCHANGED <<active, step, r, prepc>>
  /\ UNCHANGED <<devices, console_active, bkeyin, brkbuf, stepcnt, command, typed, commands, signals>>

\* FMS has chosen the operand of the JSR at Home and the registers.
Enter(routine, m1) ==
  /\ Step(WriteW(m1, Home + 1, Entry[routine]))
  /\ saved' = m1

\* A sector's bytes, from the address on.
Copied(m1, adr, block) ==
  [m1 EXCEPT !.mem = Over([a \in {W(adr + i) : i \in 0 .. SectorBytes - 1} |-> block[W(a - adr)]], @)]

\* READSS and WRITSS select the drive first; X points to the FCB.
Select(q) ==
  LET m1 == Write([m EXCEPT !.x = Fcb], Fcb + 3, q.sector[1]) IN
  /\ IsDisk(q)
  /\ Enter("drive", IF q.op = "read" THEN m1
                  ELSE Copied(m1, Buffer, [i \in 0 .. SectorBytes - 1 |-> (Pattern[q.value] + i) % 256]))
  /\ stage' = "select"

Single(q) ==
  /\ ~IsDisk(q)
  /\ Enter(q.op, CASE q.op = "outch"  -> [m EXCEPT !.a = q.char]
                   [] q.op = "chkrdy" -> Write([m EXCEPT !.x = Fcb], Fcb + 3, q.drive)
                   [] OTHER           -> m)
  /\ stage' = "transfer"

Call ==
  /\ phase = "run" /\ m.pc = Home /\ stage = "none" /\ calls < MaxCalls
  /\ calls' = calls + 1
  /\ \E q \in Services : (Select(q) \/ Single(q)) /\ call' = q
  /\ UNCHANGED <<answered, got>>

\* GETCUR: track and sector in A and B, X points to the sector buffer.
Transfer ==
  /\ phase = "run" /\ m.pc = Home /\ stage = "select"
  /\ Enter(call.op, [m EXCEPT !.x = Buffer, !.a = call.sector[2], !.b = call.sector[3]])
  /\ stage' = "transfer"
  /\ UNCHANGED <<call, answered, got, calls>>

\* FMS goes on with registers and memory of its own.
Own(m0) == [PowerOn(Memory) EXCEPT !.pc = m0.pc, !.s = m0.s, !.y = m0.y, !.u = m0.u, !.dp = m0.dp]

\* The branch after the JSR: FMS has what it called for.
Return ==
  /\ phase = "run" /\ m.pc = Back
  /\ Step(IF stage = "select" THEN m ELSE Own(m))
  /\ IF stage = "select" THEN UNCHANGED <<call, stage, saved, answered, got>>
     ELSE /\ call' = None /\ stage' = "none" /\ answered' = FALSE /\ saved' = None
          /\ got' = IF call.op \in {"inch", "inche"} \/ (call.op = "inchek" /\ m.cc.z = 0)
                    THEN Append(got, m.a) ELSE got
  /\ UNCHANGED calls

Instruction ==
  /\ phase = "run" /\ m.pc \notin {Home, Back}
  /\ Step(m)
  /\ answered' = (answered \/ (stage = "transfer" /\ phase' = "swi"))
  /\ UNCHANGED <<call, stage, saved, got, calls>>

-----------------------------------------------------------------------------
\* m6809_swi_call.  The registers come back from the stack first.
Registers == Rti(m)

Answer(ret, key) == /\ r' = ret /\ active' = (ret = 1)
                    /\ bkeyin' = key
                    /\ phase' = "tail"

\* Mutant: the key goes into B before RTI restores it.
GetchEarly ==
  /\ m.a = 3 /\ waiting # <<>>
  /\ m' = Rti([m EXCEPT !.b = Head(waiting)])
  /\ waiting' = Tail(waiting)
  /\ Answer(0, IF Head(waiting) = 3 THEN 3 ELSE bkeyin)
  /\ UNCHANGED disks

\* GETCH waits for a key.  The console looks at ^C.
Getch ==
  /\ m.a = 3 /\ waiting # <<>>
  /\ m' = [Registers EXCEPT !.b = Head(waiting)]
  /\ waiting' = Tail(waiting)
  /\ Answer(0, IF Head(waiting) = 3 THEN 3 ELSE bkeyin)
  /\ UNCHANGED disks

\* PUTCH.  What becomes of the character, and of keys that come from a file,
\* is in SimText.
Putch ==
  /\ m.a = 4
  /\ m' = Registers
  /\ Answer(0, bkeyin)
  /\ UNCHANGED devices

\* Mutant: KBHIT only looks at the key.
KbhitKeeps ==
  LET kin == IF waiting = <<>> THEN 0 ELSE Head(waiting) IN
  /\ m.a = 5
  /\ m' = [Registers EXCEPT !.b = kin]
  /\ Answer(0, IF kin < 10 THEN kin ELSE bkeyin)
  /\ UNCHANGED devices

\* KBHIT takes the key it finds; a control key below line feed makes
\* execute() go back to the interrupt.
Kbhit ==
  LET kin == IF waiting = <<>> THEN 0 ELSE Head(waiting) IN
  /\ m.a = 5
  /\ m' = [Registers EXCEPT !.b = kin]
  /\ waiting' = IF waiting = <<>> THEN <<>> ELSE Tail(waiting)
  /\ Answer(0, IF kin < 10 THEN kin ELSE bkeyin)
  /\ UNCHANGED disks

\* drive_ctr, on the registers of the caller.  Y holds track and sector.
TrackSector(m1) == [m1 EXCEPT !.a = m1.y \div 256, !.b = m1.y % 256]
Fetched(m1) == [i \in 0 .. SectorBytes - 1 |-> Read(m1, W(m1.x + i))]
Ans(m1, ok) == [m1 EXCEPT !.cc = Setcc(IF ok THEN 4 ELSE 0)]

DriveCtr ==
  LET dcmd == Registers.b
      m1   == TrackSector(Registers)
      drv  == Read(m1, W(m1.x + 3))
      past == [m1 EXCEPT !.x = W(@ + SectorBytes)]
      k0   == K!FileRead(disks, m1.a, m1.b)
      k1   == K!FileWrite([disks EXCEPT !.buf = K!Filled(disks, Fetched(m1))], m1.a, m1.b)
  IN  /\ m.a = 6
      /\ CASE dcmd = 0 -> disks' = k0 /\ m' = Ans(Copied(past, m1.x, K!Half(k0)), K!Ready(disks))
           [] dcmd = 1 -> disks' = k1 /\ m' = Ans(past, K!Ready(disks))
           [] dcmd = 4 -> disks' = [disks EXCEPT !.seldrv = drv] /\ m' = Ans(m1, drv < 4)
           [] dcmd \in {5, 6} -> m' = Ans(m1, drv < 4) /\ UNCHANGED disks
           [] OTHER    -> m' = Ans(m1, TRUE) /\ UNCHANGED disks
      /\ Answer(0, bkeyin)
      /\ UNCHANGED waiting

\* The drivers use no other function, but an interrupt repeated behind a
\* trace point has the key in A.  (Functions 0, 1, 2, 254 and 255, which are
\* no key of the model, are left out.)
Unknown ==
  /\ m.a \notin 3 .. 6
  /\ m' = Registers
  /\ Answer(0, bkeyin)
  /\ UNCHANGED devices

SwiCall ==
  /\ phase = "swi"
  /\ Getch \/ Putch \/ Kbhit \/ DriveCtr \/ Unknown
  /\ UNCHANGED <<console_active, step, prepc, brkbuf, stepcnt, command, fmsVars, history, bounds>>

-----------------------------------------------------------------------------
\* Mutant: the outer loop forgets that the command steps.
BeginOnce(stepping) ==
  /\ active' = stepping /\ step' = FALSE
  /\ r' = 0 /\ prepc' = m'.pc /\ phase' = "run" /\ done' = 0

\* execute() starts: what its caller has put into activate_console is step.
Begin(stepping) ==
  /\ active' = stepping /\ step' = stepping
  /\ r' = 0 /\ prepc' = m'.pc /\ phase' = "run" /\ done' = 0

ToPrompt ==
  /\ phase' = "prompt" /\ active' = FALSE /\ console_active' = TRUE
  /\ command' = [kind |-> "none"]
  /\ r' = 0 /\ prepc' = 0 /\ step' = FALSE /\ done' = 0

\* dis6809 shows the next instruction and remembers its table size.
Listed == Dis6809(m', m'.pc).stepcnt

\* execute() returns ret to the command that called it.
Comes(ret, shown) ==
  LET again == command.kind = "n" /\ ret = 0 /\ command.left > 1 IN
  /\ stepcnt' = IF shown \/ (command.kind = "n" /\ ret = 0) THEN Listed ELSE stepcnt
  /\ brkbuf' = IF command.kind = "over" THEN WithBrk(command.badrin, Brk(command.badrin) % 4)
               ELSE brkbuf
  /\ IF again
     THEN /\ command' = [command EXCEPT !.left = @ - 1]
          /\ Begin(TRUE)
          /\ UNCHANGED console_active
     ELSE ToPrompt

GoesOn(shown) ==
  /\ phase' = "loop"
  /\ stepcnt' = IF shown THEN Listed ELSE stepcnt
  /\ UNCHANGED <<active, console_active, step, r, prepc, brkbuf, command, done>>

\* After the inner loop.  A trace point is shown and passed, with the key
\* still noticed; a break point and ^C stop; another key KBHIT has noticed
\* repeats the interrupt.
Traced == Brk(m.pc) = 2

\* Mutant: only keys stop the program.
NoticedKey == ~Traced /\ bkeyin # 0

Noticed == ~Traced /\ (Brk(m.pc) # 0 \/ bkeyin # 0)

TailEnds ==
  LET pc1  == IF Noticed /\ bkeyin # 0 THEN prepc ELSE m.pc
      stop == Noticed /\ (Brk(pc1) # 0 \/ bkeyin = 3)
  IN  /\ phase = "tail"
      /\ m' = [m EXCEPT !.pc = pc1]
      /\ bkeyin' = IF Noticed THEN 0 ELSE bkeyin
      /\ IF stop THEN Comes(1, TRUE)
         ELSE IF active THEN Comes(r, Traced) ELSE GoesOn(Traced)
      /\ UNCHANGED <<devices, fmsVars, typed, got, bounds>>

\* do again.  A SIGINT since the inner loop ended is forgotten here.
LoopAgain ==
  /\ phase = "loop"
  /\ active' = step /\ phase' = "run"
  /\ UNCHANGED <<m, devices, console_active, step, r, prepc, bkeyin, brkbuf, stepcnt, command,
                 fmsVars, history, bounds>>

-----------------------------------------------------------------------------
\* The console's commands.  Keys that were typed ahead are the beginning of
\* the next one; g alone lets SIGINT through.
AtPrompt ==
  /\ phase = "prompt" /\ waiting = <<>> /\ commands < MaxCommands
  /\ commands' = commands + 1
  /\ UNCHANGED <<m, devices, bkeyin, stepcnt, fmsVars, typed, got, calls, signals>>

Go ==
  /\ AtPrompt
  /\ command' = [kind |-> "g"] /\ console_active' = FALSE
  /\ Begin(FALSE)
  /\ UNCHANGED brkbuf

Next_n ==
  /\ AtPrompt
  /\ \E i \in 1 .. MaxSteps : command' = [kind |-> "n", left |-> i]
  /\ Begin(TRUE)
  /\ UNCHANGED <<console_active, brkbuf>>

StepOver ==
  LET badrin == W(m.pc + stepcnt) IN
  /\ AtPrompt
  /\ command' = [kind |-> "over", badrin |-> badrin]
  /\ brkbuf' = WithBrk(badrin, (Brk(badrin) % 4) + 4)
  /\ Begin(FALSE)
  /\ UNCHANGED console_active

SetBreak ==
  /\ AtPrompt
  /\ \E a \in BreakPlaces, kind \in BreakKinds : brkbuf' = WithBrk(a, kind)
  /\ UNCHANGED <<phase, active, console_active, step, r, prepc, command, done>>

TakenByPrompt ==
  /\ phase = "prompt" /\ waiting # <<>>
  /\ waiting' = <<>>
  /\ typed' = SubSeq(typed, 1, Len(typed) - Len(waiting))
  /\ UNCHANGED <<m, disks, loopVars, fmsVars, got, done, bounds>>

\* The user types.  Nothing looks at the keyboard but the interrupts, so it
\* is enough that keys come just before one.
Key ==
  /\ phase = "swi" /\ m.a \in {3, 5}
  /\ Len(typed) < MaxKeys
  /\ \E key \in Keys : typed' = Append(typed, key) /\ waiting' = Append(waiting, key)
  /\ UNCHANGED <<m, disks, loopVars, fmsVars, got, done, bounds>>

\* sigbrkhandler.
Signal ==
  /\ ~console_active /\ ~active /\ signals < MaxSignals
  /\ signals' = signals + 1
  /\ active' = TRUE
  /\ UNCHANGED <<m, devices, phase, console_active, step, r, prepc, bkeyin, brkbuf, stepcnt, command,
                 fmsVars, history, calls, commands>>

KeyNeeded == phase = "swi" /\ m.a = 3 /\ waiting = <<>>
Finished  == phase = "run" /\ m.pc = Home /\ stage = "none" /\ calls = MaxCalls

\* The user is away, or the bound is reached.
Resting == phase = "prompt" \/ KeyNeeded \/ Finished
Rest == Resting /\ UNCHANGED vars

Machine == Call \/ Transfer \/ Return \/ Instruction \/ SwiCall \/ TailEnds \/ LoopAgain
User    == Go \/ Next_n \/ StepOver \/ SetBreak \/ TakenByPrompt \/ Key \/ Signal

Next == Machine \/ User \/ Rest

\* The simulator is a process of the host: it goes on unless it waits for the
\* user.  This is WF_vars(Machine), Machine being enabled exactly when the
\* simulator does not rest; the user is never obliged to do anything.
Fairness == []<>Resting \/ []<><<Machine>>_vars
Spec == Init /\ [][Next]_vars /\ Fairness

-----------------------------------------------------------------------------
\* The registers and the bytes of the memory never leave the widths of their
\* C types, whatever an instruction, the host's part of a call or the console
\* puts into them.
Widths ==
  /\ \A R \in {"pc", "x", "y", "u", "s"} : m[R] \in Word
  /\ \A R \in {"a", "b", "dp"} : m[R] \in Byte
  /\ m.cc \in CC
  /\ \A adr \in DOMAIN m.mem : adr \in Word /\ m.mem[adr] \in Byte
  /\ prepc \in Word

\* The registers a driver keeps: CONSOLE_SIM.ASM pushes what it uses.
Kept(q) ==
  CASE IsDisk(q) \/ q.op \in {"verify", "chkrdy"} -> {"s", "u", "y", "dp"}
    [] q.op \in {"outch", "bad"} -> {"s", "u", "x", "y", "dp", "a", "b"}
    [] OTHER -> {"s", "u", "x", "y", "dp", "b"}

\* When a driver returns to FMS, the stack and the registers FMS counts on
\* are what they were, also when the interrupt was repeated for a key, the
\* user stopped the program in the driver, stepped through it and went on.
RegistersKept == m.pc = Back /\ call # None => \A R \in Kept(call) : m[R] = saved[R]

\* Between the calls, the keys FMS has been handed and those that wait are
\* the keys typed, in order, but for control keys below line feed.
KeysInOrder ==
  LET Big(s) == SelectSeq(s, LAMBDA key : key >= 10)
  IN  call = None => Big(typed) = Big(got \o waiting)

\* A driver that has been called returns, provided the user types what it
\* waits for, whatever is typed while it runs.
CallEnds == call # None ~> (call = None \/ KeyNeeded \/ phase = "prompt")

\* No instruction at a break point is executed but as the first of a command.
BreakpointStops ==
  [][Call \/ Transfer \/ Return \/ Instruction => Brk(m.pc) \in {0, 2} \/ done = 0]_vars

\* The command n executes one instruction; another only when the last was a
\* software interrupt (then the program goes on behind it) or is repeated.
StepIsOne ==
  [][(Call \/ Transfer \/ Return \/ Instruction) /\ command.kind = "n" =>
       done = 0 \/ 63 \in {Read(m, m.pc), Read(m, W(m.pc - 1))}]_vars

-----------------------------------------------------------------------------
\* The disk FMS relies on.  The documented place of a sector, by itself:
Documented(sector) == (36 * sector[2]) + sector[3]
Image(sector) == disks.images[sector[1]]
Sectors  == {q.sector : q \in {q \in Services : IsDisk(q)}}
Existing == {s \in Sectors : s[1] < 4 /\ Images[s[1]] # <<>> /\ Documented(s) <= Len(Images[s[1]])}
Values   == DOMAIN Pattern
ASSUME NoneAssumption ==
  /\ None \notin Services /\ None \notin Values \cup {"ok", "refused", "mixed"}
  /\ None \notin [sector : Sectors, value : Values]
Holds(block, v) == \A i \in 0 .. SectorBytes - 1 : block[i] = (Pattern[v] + i) % 256
ValueOf(block) == IF \E v \in Values : Holds(block, v)
                  THEN CHOOSE v \in Values : Holds(block, v) ELSE "mixed"

Asked == call # None /\ IsDisk(call) /\ answered
Arrived == m.pc = Back
Seen ==
  IF m.cc.z = 0 THEN "refused"
  ELSE IF call.op = "write" THEN "ok"
  ELSE ValueOf([i \in 0 .. SectorBytes - 1 |-> Read(m, Buffer + i)])

absDisk    == [s \in Existing |-> ValueOf(Image(s)[Documented(s)])]
absPending == IF Asked /\ phase = "swi" /\ call.op = "write" /\ call.sector \in Existing
              THEN [sector |-> call.sector, value |-> call.value] ELSE None
absResult  == IF ~Asked THEN None
              ELSE IF Arrived THEN Seen
              ELSE IF call.sector \notin Existing THEN "refused"
              ELSE IF call.op = "write" THEN "ok" ELSE absDisk[call.sector]
absCall    == IF call # None /\ IsDisk(call) THEN call ELSE None

Disk == INSTANCE SectorDisk
          WITH disk <- absDisk, pending <- absPending,
               call <- absCall, result <- absResult

\* The drivers, the interrupt and the image files together are the disk FMS
\* relies on: what a driver leaves in FMS' buffer and in the Z flag is what
\* the sector holds, a write changes its sector and no other, and a drive
\* without an image refuses.
DiskSpec == Disk!DiskSpec
=============================================================================
