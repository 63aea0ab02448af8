# FLEX 09: models, model checking and proofs

This directory describes the 6809 machines of this repository and their operating
system FLEX in TLA+. It says what the parts promise each other, lets TLC check
the promises on small instances, and lets TLAPS prove some of them for every
instance. `PROJECT.json` holds the machine-readable index: components, runs, the
source lines behind every definition, mutants, findings, hazards and theorems.

    tlc -workers 2 -config MCFms.cfg MCFms      # one run
    tlapm FmsProofs.tla                         # one proof module

## 1. The system

The repository builds one program, FLEX 09 (`flex09/`), for two machines: a
simulator in C (`sim6809/`) and an FPGA (`f6809/`). A monitor (`moni09/`) starts
FLEX on the FPGA, and small tools (`bin/`) convert hex files.

    programs, command interpreter (FLX29CCP)        queue handler (SPOOLER)
            |  FMS calls, EXCLS                            |  FMS calls
            v                                              v
    CMND / LOCK ---- scheduler: SWI3, timer, one lock (SPOOLER, DRIVERS)
            v
    FMS: files, directory, available sectors, random files (FLX29FMS)
            |  READSS / WRITSS: retries, verification (FLX29FMS)
            v
    disk driver: S_READ, S_WRITE, S_DRIVE, S_VERIFY
            |                                   |
    CONSOLE_FPGA -> sd_controller.vhd -> card   CONSOLE_SIM -> SWI -> flex9io.c -> file
            on the FPGA's 6809                       on the CPU of inst6809.c,
                                                     run by console.c

| Component | State it keeps | Operations | What is hard | What makes it correct |
|---|---|---|---|---|
| FMS files (`FLX29FMS.ASM`) | control blocks (FCB) and their list, SECMAP in memory; links, directory, system information record (SIR) on the disk | open for read, write, update, append; sequential read and write; close, EXCLS, delete, rename, directory growth | several disk writes per call with a power failure between them; a failing write in the middle of a call; two writers and DELETE sharing one chain of available sectors; pointers cached in memory | no sector has two owners; available sectors counted exactly; files end where their entry says; no open writer is forgotten |
| FMS transfers (same file) | ETRIES, STRIES, verify flag | READSS, WRITSS, RETRY | two nested counters shared with other routines; the drive fails, or verifies badly | bounded effort, full effort before an error, no success over a badly stored sector |
| Random files (same file) | file sector map on the disk, the map entry that grows in the FCB | WTNEXT and UPDFSM, CLOSE, OPNRD, POSIT, BKREC, NEXTS | map entries versus chain; POSIT counts in READSS's retry counter | the map names the chain; every record is found |
| Scheduler and lock (`SPOOLER.ASM`, `FLX29FMS.ASM`) | CP, ZCC34, the tasks' stacks, PR1, FMSBUSY, FCBSTR | yield (SWI3), timer interrupt, LOCK, UNLOCK, CMND, EXCLS | every interleaving of two tasks by instruction; the scheduler interrupted by itself | exclusion, own stack, own block, every call returns |
| Queue handler (`SPOOLER.ASM`) | ring of twelve entries, two pointers, count, flags | start, print a character, next copy, next entry, end | runs beside PRINT and QCHECK, which change the same bytes | order, number of copies, no job stranded |
| SD driver (`CONSOLE_FPGA.ASM`) | drive offsets, SECPOS, two half buffers | select, read, write, verify | 256-byte sectors in 512-byte blocks, so a write is read-modify-write; polls without a limit | a write changes its own sector only |
| SD controller (`sd_controller.vhd`) | state machine, address register, request bits, byte flags | host registers; initialise, read block, write block | two clocked processes and a handshake, a reset at any time | no byte lost or repeated, no request lost |
| Simulated CPU (`emu6809.c`, `inst6809.c`, `calc6809.h`, `int6809.c`) | registers, flags, memory | one function per instruction, tables of instructions and modes | flag formulas, tables of three pages, fetch order | computes what the FPGA's processor computes, since the same binaries run on both |
| Simulated devices (`flex9io.c`), terminal drivers (`CONSOLE_SIM.ASM`) | image files, FD1771 registers, key and text buffers | drive calls, port accesses, GETCH, PUTCH, KBHIT, text files by ^Y | an instruction is repeated when a key is noticed; counts reset by commands only; a protocol carried by single characters | a sector written is the sector read; keys arrive in order; registers are kept |
| Simulator's console (`console.c`, `dis6809.c`) | break points, step count, where the loop is | go, next, step over, break, SIGINT | break points, steps, signals, noticed keys and software interrupts meet in one loop | stops where it should, a step is one instruction |
| Loader and tools (`intel.c`, `mot2hex.c`, `bin2hexw.c`) | none across calls | convert, load | three programs that have to agree on a format | what is loaded is what the file says |
| UART (`bufferedUART.vhd`) and terminal driver | receive ring of 16, RTS, transmit byte | KEYIN, PUTCHR polls | the sender reacts late to RTS | no character overwritten unread |
| Clock, device interrupts, printer (`DRIVERS.ASM`) | time and date, chain of handlers | timer interrupt, ADDDEV, DELDEV, IHNDLR | handlers are linked and unlinked while interrupts come | the calendar advances rightly; a handler is called exactly while linked |
| Command interpreter, start-up (`FLX29CCP.ASM`, `INIT.ASM`) | line buffer, return address, date | warm start, parse, load, run | closes all files of the last program; an error in that | nothing a program wrote is lost |
| Monitor (`monitor.asm`) | registers of the interrupted program | boot, memory commands | order of copying memory and switching the ROM off | FLEX starts |

The components of the FPGA that are third-party or generated (memories, clock
generator, Extended BASIC), the board files, disk images and executables are
listed in `PROJECT.json` and not modelled. Of the FPGA's CPU core only the arithmetic
unit is modelled, as what the simulator's is compared with.

## 2. Plan

Most important behaviour first.

1. *done* `FmsRetry`: one sector transfer with its retries.
2. *done* `Fms`: the file management system; `FmsSafety`: what must hold of it;
   `FileStore`: the abstract store it implements; `FmsProofs`,
   `FmsLayoutProofs`, `FmsStoreProofs`.
3. *done* `Scheduler`: two tasks, the lock and the FMS call frame.
4. *done* `Spooler` composes the queue handler with `Scheduler`; `SpoolerProofs`
   for both.
5. *done* `SdController` and `SdAddress`, composed with the driver in `SdDriver`,
   which implements `SectorDisk`; `SdDriverProofs`.
6. *done* `Alu6809`, `Cpu6809`, `Disassembler`: the simulated processor, with `FpgaAlu` as
   the reference of its arithmetic; `HexFiles`, `SimText`, `SimDisk`: loaders and devices;
   `SimData` relates them; `AluProofs`.
7. *done* `SimMachine` composes processor, drivers, devices and console; it implements
   `SectorDisk` as the FPGA's driver does; `SimMachineProofs`.
8. *done* `RandomFiles` on top of `FmsRetry`; `RandomFilesProofs` for both.
9. *open* `Uart`, `Clock` and `IrqChain`, the boot of the monitor (section 7 says why they
   come last).

Of the properties of runs, what the provers could reach is proved; section 5 says what is not.

## 3. Modules and how they correspond to the code

### FmsRetry: READSS, WRITSS, RETRY

State: the counters ETRIES and STRIES, the verify flag, the place in the routine and
history (transfers made, what the sector holds). One action is one driver call with
the branch after it. The driver is external: it may answer with success, a soft
error or a hard error, with `BadWrites` also store a sector badly behind a report of
success, and with `Verifies` its VERIFY finds such a sector. `Verifies` = TRUE is the driver
`DRIVERS.ASM` describes. Both drivers of the repository are `Verifies` = FALSE: S_VERIFY is
CLRA and RTS (`CONSOLE_FPGA.ASM:146`), and the simulator always answers that all is well
(`flex9io.c:447`); section 6 says what follows. *Reliable* says that one or
the other holds, no bad writes or a VERIFY that finds them. `Borrow` is SWAP and POSIT, which use
ETRIES as a scratch byte between two transfers. FmsRetry has no run of its own: it is
proved for every caller, and checked inside `RandomFiles`.

### RandomFiles

`EXTENDS FmsRetry`: a program writes one random file and looks for records in it, and every
sector goes through READSS and WRITSS, one step per transfer, retry and restore. What a
call does between two transfers is one step; `place` names the transfer the call waits for.
State: the sectors on the disk (link, record number, map entries), the FCB with the
code's fields (FSA, FEA, FCS, FRN, FLR, SBC, FNK), the buffer, and POSIT's DATAPT and
running sum. The program writes records (WTNEXT, with the two sectors of the map first),
closes (last buffer, then WTFSM), opens (SETMAX, OPNR12), and calls POSIT, BKREC and
NEXTS with any record number, also outside the file. `Layouts` are the orders in which
the available sectors lie on the disk.

The program gives the file up (`abandoned`) when a transfer fails while it writes or the map
overflows: what CLOSE would then record is a question of the directory, and belongs to
`Fms`. `lost` is the exit of POSIT5 that leaves two bytes on the stack (section 6).

### Fms, FmsSafety, FileStore

State on the disk: the links of the data sectors, their contents (a tag, or
nothing when `Contents` is FALSE), the directory entries, the sectors the
directory grew by, and the avail pointers in the SIR. State in memory: SECMAP, the
FCBs, the list that starts at FCBBAS.

*One step is one disk write of the code*, with all the code does in memory up to the
next write. So CLOSE (last sector, entry, SIR), DELETE (link, entry, SIR) and the
growth of the directory (link, clear, SIR, entry) are several steps and the `call` variable says
where the code is. `Restart` is a power failure, or FLEX starting again: it leaves the disk
as it is at that moment and clears the memory. When it may come depends on the habit
`power`. With it, `Restart` stays out of *Window*: the steps between the first and the last write
of DELETE, of the directory's growth, between the entry and the avail pointers of CLOSE, and from
the first sector an append links to its file until its CLOSE. In the window the
disk alone is inconsistent, FLEX has nothing that repairs it, and what a restart there does
later is not followed. Without the habit (`fms_calls`) it may come
at every moment but one, when the new sector of the directory is linked and not cleared (what
is in it would be read as entries). TornOnlyInWindow says that the window is complete.
The SD driver may lose the last write even though the call has returned (section "SD
card"); this is the same as a failure before that write, because writes keep their order.

FMS calls do not overlap; that is what `Scheduler` shows. Records within a sector
change nothing until the sector is full, so WTNEXT appears as writing a
whole sector.

The code accepts any sequence of calls, and some sequences break it.
`Discipline` names the habits of the programs, each one a precondition in
`Caller...`:

- `busy`, `reopen`: a program does not open a block it has open (or is writing with);
- `share`: it does not open, rename or delete a file another block has open;
- `exhausted`: it does not create or delete while the last available sector is taken
  and that is not recorded yet;
- `append`: it does not append before a create or delete has loaded the avail map;
- `unread`: it does not write to a block whose last read has failed;
- `retry`: when its CLOSE has failed behind the data sector, it calls CLOSE again or leaves
  the block to EXCLS before any other call is made;
- `power`: the machine is not switched off in Window.

`fms_calls` keeps `reopen` only, and leaves out restarts as above; `fms_exhausted`
drops `exhausted` and shows what happens (section 6). Without `reopen` a failing open takes a
block off the list that an earlier call put there (OPNERR calls REMFCB), and EXCLS no longer finds it.

`FileStore` is what callers believe: files are sequences of records under
distinct names; a file appears empty, grows at the close of its writer, has single
records replaced, is renamed or removed. The refinement mapping `Stored` reads the
files from the disk alone, at every write.

**Errors.** `FaultAt` names the transfers that may fail; module `Fms` lists them with their names.
A transfer that fails ends its call, and what the code has already
changed in memory stays changed: a failed read leaves FCS at the sector and the old buffer with
the old link or the new one (`fsb` = "old"); CHKWT has cleared the mark of the buffer it could not
write; a failed open leaves its status; ASNNXT whose read fails leaves a block that names a
sector the map still has; a failed WRTDIR or PUTAVL in CLOSE leaves the block listed with the
directory sector or the SIR in its buffer (`fsb` = "dir" or "sir", `image`), which the next
CLOSE of the block writes back first (`CloseAgain`). In EXCLS an error of CLOSE is followed
by FMSINT, which forgets all blocks.

`fms_faults` has the errors behind which NoCrossLink and FilesEnd hold: `open` and `grow` (a new
entry, the link to a new directory sector), `read`, `update` (PUTRAN), `link` and
`rename`, and of CLOSE `empty`, `data`, `entry` and, when a program called it, `record`. Each of
the others breaks one of the properties, and `fms_calls`, which has them all, checks
HeldIsListed and CallReturns only:

| Error | What the code leaves | Violated |
|---|---|---|
| `assign`, ASNNXT's read (970) | CLOSE records a sector that is still available (section 6) | TornOnlyInWindow |
| `write`, WTNEXT's write (898) | the buffer has a link to a sector the file never got, and CLOSE writes it behind the end | FilesEnd |
| `append`, WTAPP's read (1576) | a block with status 19, at which EXCLS stops; FMSINT forgets another block that appends, whose links stay behind the recorded end | FilesEnd |
| `delete`, DELNAM in DELETE (1771) | a live file whose sectors the map has as available | NoCrossLink |
| `avail`, PUTAVL in DELETE (1773) or behind a new directory sector (1424) | a record that has the directory's sector as available, or ends in the middle of the chain | TornOnlyInWindow |
| `excls`, PUTAVL of a CLOSE in EXCLS (1537) | a file whose sectors the record has as available, and FMSINT has cleared the map that knew better | NoCrossLink |
| `entry` or `record` and a second error | CLOSE is repeated, and the directory sector or record in the buffer may be an old one | FilesEnd, NoCrossLink |
| any error of an appending program | the file was complete and has links behind its end when EXCLS or FMSINT forgets the block | FilesEnd |

Without `retry` another program's entry in the same directory sector, written between the
failed CLOSE and its repetition, would be overwritten by the old image (`DirSlots` of two or
more).

Deliberately left out of `Fms`: random files (RandomFiles), file attributes, the bytes of
a record (space compression), more than one drive, WTAPP of a file without sectors; and of the
errors those that come before a call has changed anything (the reads of the directory in
FNDNAM and of the SIR in GETAVL), an error at the new sector while the directory grows (970, 1412), and
a failed read in WRTDIR or PUTAVL of a CLOSE that is then repeated, which writes a buffer that
is not that sector's. Of a block that is not in the list only its status is modelled; what
GETIR copies into it before an open fails (FEER) is overwritten by the next open.

### Scheduler

Two tasks share the CPU: PR0 (programs and command interpreter) and PR1 (background).
The state is the machine's: CP and ZCC34 (whose turn the scheduler believes it is), the
interrupt mask, the tasks' stacks as sequences of frames, saved stack pointers, PR1,
FMSBUSY, FCBSTR, and per task the instruction it is at. *One step is one instruction
that touches shared state.* SWI3 does not mask interrupts (on the 6809 and in
`inst6809.c:812-817`), so the timer can interrupt the scheduler before its first
ORCC and enter it again. The call frame is CMND: test PR1, LOCK, set FCBSTR, the
routine, store the status, unlock. `Calls` says whether the foreground asks for
characters as well as commands; they return on different paths (CMND15, CMND8).

On the machines of this repository the interrupt input is tied off
(`Microcomputer.v:45`) or never called (`irq()` in the simulator). `DRIVERS.ASM` drives a
timer board that other builds have; `Timer` = TRUE is that build and includes every
behaviour of the others.

### Spooler

`EXTENDS Scheduler`: PR1 is the queue handler at $C75D. Added state: the ring with the
handler's and PRINT's pointers, the count, the flags ZC71C (line feed due), ZC71D
(kill), ZC71E (suspend), and history for the properties. PRINT and QCHECK are
commands whose sources are not in the repository; they are external actions built
from the bytes the handler reads and the comments on them.

### SD card: SdController, SdAddress, SdDriver, SectorDisk

`SdController` is the VHDL process: one action per state, where the states that shift
single bits are one step for a command or a byte, and the card's start-up is
one step. The Host operators are the bus cycles of the CPU. The
flags sd_read_flag/host_read_flag and sd_write_flag/host_write_flag form the byte
handshake; block_read, block_write and block_start_ack the request handshake.
Signals that cross from the bus to the controller's clock are taken to settle (no
metastability). The card is external and takes or gives a block as a whole.

`SdDriver` adds the 6809 side, a step per register access: LDSDADRS, the polls on
exact status values, the reading of a block, the replacing of one half, the writing.
A sector is `Half` bytes and a block two sectors, as in the code (256 and 512).
`SdAddress` is the byte arithmetic of LDSDADRS including its signed comparison and carries.
`Reset` is the button: it resets CPU and controller, not the card or memory.

`SectorDisk` is what FMS relies on: a call transfers one whole sector, sees
all writes before it and changes no other; a write may reach the card after its
call returned, but before any later call has an effect; a reset may lose it. The
refinement maps `disk` to the halves of the card's blocks and `pending` to the write the
card was asked for.

### Simulated CPU: Alu6809, FpgaAlu, Cpu6809, Disassembler

`Alu6809` is calc6809.h with the instructions that compute: from flags and operands to
result and flags, each formula as the macro has it (the SET_H that leaves a 2, the carry of
MUL and DAA included). `FpgaAlu` is the combinational process `alu` of `cpu09p.vhd`,
by control code; it is the reference because the same FLEX binaries run on both machines.
`Cpu6809` is the rest: a machine is a record of registers and memory, `Execute` one
call of m6809_execute, with the tables of emu6809.c as `Decode`, the addressing modes with
all index postbytes, PSH/PUL, EXG/TFR, the software interrupts, and the interrupts of
int6809.c, which nothing calls. Where C leaves the order of evaluation open the module has
the order gcc gives, and says so. While it was written, the model's `Execute` was compared
with the compiled C on every opcode and postbyte. `Disassembler` is the second set of tables,
by which the console steps over subroutines and lists memory.

### Loaders, text and disks: HexFiles, SimText, SimDisk, SimData

`HexFiles` has the records of mot2hex.c, bin2hexw.c and intel.c with their sums and
addresses; a byte stands for its two digits. `SimText` is the automaton of check_outch and
getch2bbf that saves and loads host files by the characters a program puts out.
`SimDisk` is file_read, file_write and the registers of the FD1771 (brkmemon), where a
sector is complete when a count of data bytes meets a limit exactly.
`SimData` relates each of these to its reference (see the run `sim_data`). Its one variable
walks through the bytes; the properties quantify over the other operands.

### SimMachine

The simulator at work. The memory holds the drivers of CONSOLE_SIM.ASM as bytes; `Cpu6809`
executes them; `phase` follows the loop of execute() in console.c ("run" an instruction,
"swi" the host's part of a call, "tail" where break points, noticed keys, SIGINT and the
end of a step are looked at, "prompt" the console). FMS is a JSR at one address whose
operand and registers it chooses: select the drive, then the transfer, as READSS does. The
user types keys, sends SIGINT, and gives the commands g, n and b. The two
instances of `SectorDisk` (here and in SdDriver) are the reason `Fms` needs no driver.

## 4. Runs

| Run | Instance | Shows |
|---|---|---|
| `fms_files` | 4 sectors, 1 entry per directory sector and up to 3 entries, 2 blocks, 2 names, 2 sectors per write; restarts, no disk errors | NoCrossLink, FreeExact, TornOnlyInWindow, FilesEnd, OneWriter, ReadsOwnFile |
| `fms_store` | 3 sectors, 2 blocks, contents told apart, update and append | StoreSpec: the disk implements `FileStore` at every write |
| `fms_faults` | 4 sectors, 2 blocks with all habits, no appends, 1 disk error of those `Recoverable` names: a read of a file, a new entry or directory link, PUTRAN, each write of CLOSE but PUTAVL in EXCLS, DELETE's link, RENAME | NoCrossLink and FilesEnd survive, also a repeated CLOSE and what EXCLS forgets after an error |
| `fms_calls` | 2 sectors, 1 block that appends, only the habit `reopen`, restarts in Window too, 1 disk error of any kind in `FaultAt` | HeldIsListed; CallReturns: CLOSE, EXCLS, DELETE, directory growth come to their end |
| `random` | tracks of 2 sectors, 2 entries in a sector of the map, counts up to 2, 5 records, 2 calls, 4 disk layouts, RTC = RSC = 2, any transfer may fail in any way or store badly for VERIFY to find | SoftErrorEffort, MapIsChain, PositFinds, OperationReturns |
| `spooler` | queue of 2, 3 jobs, up to 1 extra copy, 2 characters, kill and suspend; the foreground reads characters | OneInside, OwnBlock, OwnStack, QueueInOrder, CopiesExact, NoJobStranded, PaperIsText, and SchedSpec as a refinement |
| `spooler_fair` | queue of 2, 2 jobs of 1 character; commands only | BusyMeansInside, EveryCallReturns, EveryJobPrinted |
| `sd` | 3 calls and 1 reset at any moment; both halves of a block, a sector of another drive, a drive that is not there; sectors of 2 bytes | CallReturns, DiskSpec: `SectorDisk` is implemented |
| `sim_data` | every byte as operand or opcode | SameAlu, BranchesCompare, LengthsAgree, HexLoads, TextComesBack, PortsTransfer |
| `sim` | 2 driver calls, 2 keys, 3 commands, 1 SIGINT, n up to 2, one break place; an image of one track and one sector, drives without image | RegistersKept, KeysInOrder, DiskSpec, CallEnds, BreakpointStops, StepIsOne |
| `fms_exhausted` | `exhausted` dropped | violation, section 6 |
| `scheduler_hang` | foreground with characters and commands | violation, section 6 |

Why the bounds are enough.

- *FMS files.* Four sectors let two files of two sectors compete and the directory take
  one; one entry per directory sector makes it full with the first file, so it grows
  twice. Two blocks are a pair of writers, or a writer beside DELETE.
- *Random files.* The four layouts are a run longer than a count can tell, sectors that lie
  apart (more of them than the map has entries), runs and gaps on a disk that fills up,
  and a disk no larger than the map. Two entries in a sector make a file use both sectors
  of the map and overflow it; two sectors on a track put runs across tracks. Two
  calls are a POSIT and whatever depends on it (BKREC, NEXTS, another POSIT behind an error).
  The code has 84 entries, counts up to 255 and RTC = 5; what is assumed of them is
  RTC <= PerSector (MapAssumption), so that POSIT's counter never starts behind a sector's
  last entry.
- *Spooler.* A queue of two fills and wraps, and three jobs reuse a slot. A stack of frames
  never exceeds two (proved), so the scheduler's instances are complete for its kinds of
  calls.
- *SD.* Three calls are a write, a call on its neighbour and a reader of either; a reset may
  hit each. Sectors of two bytes have a first and a last byte that differ.
- *sim_data.* `byte` takes all 256 values, so byte operations are checked on all pairs of
  bytes; words on samples at the edges of both orders (BranchesFollowOrder proves the rest);
  instructions with a postbyte of every kind with the first and the last pointer register;
  files whose last record is short, full and just begun.
- *sim.* Two calls are a write and a read of one sector, or a key and a disk call; two keys
  are one noticed and one behind it; three commands set a break point, step or go on,
  and go on again; a signal may come at any step.

Named bounds: MaxSlots, MaxRecords, MaxFaults, MaxJobs, MaxCopies, MaxChars, MaxCalls,
MaxResets, MaxKeys, MaxCommands, MaxSignals, MaxSteps, Layouts. Deadlock checking is off for
`Fms` and `RandomFiles` only: at the bounds, or with the file given up, programs have
nothing left to ask.

Each property of a passing run has a mutant: a plausible slip in the code (a dropped
mask, a missing reset of a counter, the wrong half of a block) under which TLC finds
it violated. The mutated forms stand before the definition they replace, marked *Mutant*.

### Fairness

- `Fms`, `RandomFiles`: a call that has begun goes on (WF of the steps of a call).
  Programs need never call.
- `Scheduler`, `Spooler`: WF of the scheduler's own instructions; SF of the timer,
  because it can come only while interrupts are on, which they are again and again;
  SF of each task's next instruction, because a task makes many instructions
  in the 10 ms between two ticks but can be interrupted before each of them. The
  printer is ready again and again (SF of Out), and a PRINT that has added an entry goes on
  to look at PR1 (SF of StartPrinting). Nothing is assumed of QCHECK, of new calls of
  PRINT or of programs.
- `SdDriver`: WF of the CPU's next access and of the controller's clock, which both run on
  oscillators; the card answers. No fairness of calls or resets.
- `SimMachine`: the simulator is a process of the host and goes on unless it waits for the
  user: `[]<>Resting \/ []<><<Machine>>_vars`, which is WF of Machine with its
  enabledness written out. The user is never obliged to do anything.

## 5. Proofs

Proofs hold for every value of the constants under the named assumptions of the
modules (sizes are natural numbers, `Deleted` and `Never` are not names, and so on).

- **RandomFilesProofs**, first part. RetryTypeOK, RetryBounded and RetryEffort,
  for every caller of READSS and WRITSS. The invariant IInv strengthens the type invariant
  with *CountersTrack*: the number of transfers made is at most STRIES * RTC + ETRIES (one more while a transfer is judged), and
  equal to it as long as no seek error has cut a round short.
  Without it the bound is not inductive, because nothing else ties the
  transfers to the counters.
  Second part. RandomImplementsRetry (every step of a random file is a step of
  FmsRetry, POSIT's use of ETRIES a Borrow), hence RandomEffort. ScanStaysInMap: POSIT never
  looks behind a sector's last entry, and its test for 168 entries never holds; the
  invariant *ScanInv* says that a successful transfer leaves fewer than RTC soft errors in
  ETRIES and that POSIT has passed at most as many entries as it counts. LocateWalks: the
  division of POSIT6 reaches the sector that UPDFSM reaches by counting.
  Third part. MapNamesChain: MapIsChain for every size of track, map and count byte, every
  number of records, every order of the available sectors and every transfer that
  fails. MapIsChain speaks of closed files only; the invariant *MapInv* says how far the map has
  got while the file is written. There are p, the second sector of the map, T, the sectors
  of the records, d, the number of entries on the disk, and their sums b with *Writing*: the d
  entries name T up to b[d] (*Ledger*), the entry in the control block names the rest
  (*GrowingOK*), the links and record numbers on the disk are those of T (*ChainOK*), and the buffer
  holds what the next write needs (*BufferOK*). Of a file of which a transfer has failed
  for good nothing is claimed. ASNNXT appends to T, WTFSM raises d by one, CLOSE completes the map
  (*Finished*). The last step is that Run and FlattenSeq, which are recursive functions,
  compute T from such entries (RunIsCut, FlattenCuts, by a least counterexample).
  Fourth part. PositFindsRecord: PositFinds, by *PositInv*, which follows POSIT through a
  finished map: behind x entries its sum is b[x], smaller than the number of the record, and
  ETRIES counts the entries of this sector (*Scans*); so it cannot run out of entries,
  the entry it stops at names the record, and POSIT6 computes its sector (LocateNamed, by
  LocateWalks). That ETRIES begins at 0 is *CleanInv*: a transfer that reported nothing
  but success has not counted. What is on any other sector than the record's has not its number
  (*Unnumbered*), so a result "ok" is never another record, whatever ETRIES was.
  Both assume *Reliable*: a driver that stores a sector badly behind a report of success must
  have a VERIFY that finds it (with a driver that stores well, VERIFY may do nothing). *WriteTrusted*
  is what they need of it. Without it MapIsChain is false (section 6).
  Both assume *LayoutAssumption*, that the available sectors are different and have addresses on
  the disk; that the file management keeps them so is *Layout* of FmsLayoutProofs.
- **FmsProofs.** HeldAlwaysListed, OneWriterAlways, NamesStayUnique, for any number of
  sectors, blocks and names, and restarts at every moment `Restart` has. HeldAlwaysListed assumes
  the habit `reopen` and admits every error in `FaultAt`; the other two assume `share` as well, and no
  error at the entry of CLOSE, whose repetition may bring an old entry back. IInv is Types, ListInv and DirInv. ListInv adds to
  HeldIsListed where a block stands while a call is between two writes
  (*CallListed*) and that a listed writer has an entry or waits for the directory to grow (*Placed*). DirInv adds
  that the block's name is the entry's (*Located*), that never used entries are last, and the
  state of a directory extension or a DELETE in progress: UniqueNames alone is not
  inductive, since a growing directory gets the new entry several writes after the
  search that did not find its name.
- **FmsLayoutProofs.** OwnersApart, FilesEndEver, DiskConsistent, AvailExact
  and ReadersStay state NoCrossLink, FilesEnd, TornOnlyInWindow, FreeExact and
  ReadsOwnFile of every disk, directory, number of blocks and programs. These five speak of
  the sectors a chain of links leads through, and no inductive argument can start
  there: one write changes the chains of several files. The invariant *Layout* instead says
  that there *are* a sequence P of sectors (the pool), a number m and for each entry i a
  sequence Q[i] with which the state agrees: P holds the available sectors in order
  and, before them, the m that were taken from it since PUTAVL last recorded the map;
  Q[i] are the sectors of file i. No sector is in two of them unless it is a taken one, which
  is one of a file behind what its entry records (*TakenAt*); links lead forward in P and
  along Q[i]; SECMAP begins behind the m taken sectors and the record on the disk before them,
  which is why GETAVL must not read it again and why a restart, with m = 0, is
  harmless. Each action has a lemma that names P, m and Q behind the step: ASNNXT moves m
  and appends to a Q[i]; CLOSE drops the taken sectors from P when it records the
  map; DELETE appends a Q[i] to P; a restart cuts each Q[i] to the size in its entry
  and takes for P what the links lead through from the recorded first sector, which
  exists because they lead forward (WalkExists). The last part shows that `Chain` computes
  Q[i] and the rest of P. The counts are exact because P, Q and the directory
  partition the disk as long as no writer was cut off (*Exact*).

  These theorems, and the next, assume *Callers*: the habits `reopen`, `share`, `exhausted`,
  `unread` and `power`; no errors but `open`, `grow`, `read`, `update`, `empty`, `data`, `link` and
  `rename`; and, if programs append, the habit `append` and none of `update`, `empty` and `data`.
  The table of errors in section 3 says what each of the others breaks. `entry` and `record`, which
  `fms_faults` has once, are not in it, since nothing bounds the number of errors in a
  theorem. `fms_files` satisfies Callers with appends. What is proved harmless, for any number of
  them and with EXCLS at any moment, are the errors Callers admits and the restarts outside
  Window; of a restart in Window nothing is claimed.
- **FmsStoreProofs.** StoreImplemented states StoreSpec: under Callers and without
  failing reads every step, a single write or a restart outside Window, is one step of `FileStore` or none. Layout says where the sectors of a
  file are; *Recs* adds what is in them that the entry does not tell yet. A block that writes
  has frn records behind those of the entry (*HasWritten*): they are in its sectors but
  for the last, which is in the buffer until CLOSE has written it. A block that updates holds
  record frn of the file, changed if PUTRAN is still to write it (*HasRead*). That is why
  the write of the entry in CLOSE is Extend and every write before and after it is none,
  and why PUTRAN's write is Replace. Each action has a lemma that proves Recs behind the
  step and names the store's step: for an entry that keeps its name and whose sectors
  another block's write cannot touch, because Layout keeps them apart, Content
  is as before (*FilesKept*, *OneBlockRecords*); for the entry written, StoreCreates,
  StoreDrops, StoreMoves, StoreReplaces and StoreExtends say which step it is.
  A failing read is excluded because of what the program then believes: FRN has gone on, but the
  link in the buffer may be the old one, so that the next read gets the same sector again and PUTRAN
  changes another record than FRN counts. ReadersStay holds all the same.
- **SpoolerProofs**, first part, of `Scheduler`. TypesAlways, NeverTogether, BlockIsCallers, StackIsOwn,
  StacksStayShort; and LockIsFree, LockIsGivenBack for a foreground without character
  calls (with them the statements are false, section 6). The argument: the task that
  holds the lock, or has skipped it, is *Undisturbed* (on the CPU with interrupts
  masked); the foreground skips it only while PR1 = 0, when there is nobody
  else. A task that is not running is *Parked*: its stack pointer lies in its own block
  and its stack has the frame it resumes with.
  Second part, of `Spooler`. SpoolerImplementsScheduler (every step of the spooler is a step of
  the scheduler or leaves it alone, so the theorems above hold of it too) and
  JobsHaveHandler: the invariant *HandlerPlace* says that between its test of the
  count and the clearing of PR1 the handler cannot be interrupted. JobsInOrder and
  CopiesCounted, for any queue, jobs and copies: *QueueInv* adds that the file being
  read is the current entry's (*Current*) and that the entries behind it have all their
  copies to come (*Untouched*); the order has to be kept while the pointer has moved and
  the count has not, and while PRINT adds an entry in between. PaperAsText, for files of
  any length: *PaperInv* says at each place of the handler which part of the file is on
  paper and which on its way there, and that ZC71C tells whether the last character read
  was a carriage return; it rests on what FlattenSeq does with one more member
  (FlattenAppend, by the least length for which its recursive function would fail).
- **AluProofs.** CompareBytes and CompareWords: after CMP and SUB of any two numbers, with any
  flags before, every conditional branch is taken exactly when the numbers stand in the
  order it is named for; BranchesFollowOrder is the run's property from them.
  SumWithCarry: ADC with its carry is the sum. PushedFlags: a pushed condition code comes
  back as it was, except that a half carry comes back as F (section 6).
- **SdDriverProofs.** AddressIsSum: the byte-wise sum of LDSDADRS, with its carries, is
  2048 * drive + 18 * track + (sector - 1) div 2 for every drive, track and sector but 0.
  SectorsApart: no two sectors of the documented geometry (80 tracks of 36 sectors)
  share a half of a block. BootAreaFree: none of them is in the boot area.
  SdIsSectorDisk: `SdDriver` implements `SectorDisk`, for sectors of any size, any set of
  sectors of that geometry, both kinds of card, any number of calls, and a reset at any
  point. It assumes *Documented*: a card without errors, no call before the card is
  identified (the two are refuted otherwise, section 6), and a card large enough. The
  invariant has to relate the two clocked processes at every place both can be at:
  *Requested* says when a request bit can be set, and that an acknowledgement left behind
  by a reset only keeps the driver waiting; *Reading* and *Writing* say that the driver's
  count and the controller's counter add up to the block while the flags differ or agree,
  and that the CRC bytes find the driver past its loop; *Placed*, that the controller works
  on the address its command took, while the registers may hold the next call's;
  *Streaming*, *Arriving* and *Gathered*, which part of which sector is on the line and in
  the buffers; *Whole*, that no sector is torn. That a write changes one sector rests on
  SectorsApart.

- **SimMachineProofs.** ExecuteTyped: every instruction of the processor, for any opcode,
  registers and memory, maps machines to machines, where a machine has registers, flags
  and bytes of the widths of their C types. The model computes with numbers, so each place where
  C would cut one off had to be put into it; the proof goes through arithmetic, stack,
  exchange, addressing and every column of the tables, and is what shows that none was
  forgotten (one had been: the address of a sector's copy, `set_memb(rx++, ...)`). WidthsKept
  is Widths for the whole simulator; BreakpointsStop is BreakpointStops, by the invariant *Passed*:
  where the loop goes round again no break point stands.
  RegistersStay is RegistersKept and StepsOne is StepIsOne, by *Framed*: *Frame* says for
  each place of each driver what has been pushed and which registers hold what, *Caller*
  what FMS has asked for, *Notice* from where prepc can be that a noticed key returns to. What
  an instruction of a driver does is not assumed: it is derived from Execute, from
  the bytes in memory, which nothing between overwrites. *Stepping* then says how the inner
  loop can be left under n.
  SimIsSectorDisk is DiskSpec: the abstract disk takes a read, a write or a refusal at the
  SWI of the transfer, a write at the host's part of it, and its call returns where FMS goes
  on behind the JSR; every other step of processor, loop and user is not seen there. It rests
  on *Served*: the drive is the one selected, the buffer holds what FMS put there, Y names the
  sector, `answered` says on which side of the interrupt the driver is, and behind it flag and
  buffer are those of the sector. Of the image files the lemmas show that a block's place is
  36 t + s - 1 and that no other sector has it (PlacesDiffer), that reading leaves all images
  as they are (ReadFile), and that writing changes this one block and no length (WriteFile).
  It assumes *Formatted*: every sector FMS asks for is one of 36 on its track and either in its
  image or on a drive without one, and the images hold contents that have a name. Without it
  the refinement fails for the reason section 6 gives: file_read does not look at short reads,
  so a sector behind the end is answered with what the buffer held before, and file_write
  makes the image longer.
  (ContentsAssumption, RequestsAssumption and NoneAssumption only say that the names of
  contents, requests and results can be told apart.)
  All three assume *TracesApart*, and RegistersKept and StepIsOne need it: KBHIT and GETCH,
  when they notice a key, take the program counter back to prepc, where the inner loop last
  looked, and a trace point is passed without a look. So with a trace point behind a stack instruction of a
  driver (Base + 15, and pairs two bytes apart such as Base + 32 and Base + 34) the key
  makes the program pull or push once more (section 6). The condition names just these
  places; break points may stand anywhere, and trace points anywhere outside the drivers.

Proved and not in a run, because the proof says all of it: Widths, NamesStayUnique, RetryTypeOK,
RetryBounded, RandomImplementsRetry, ScanStaysInMap, LocateWalks, TypesAlways,
StacksStayShort, LockIsFree, and the theorems on addresses and sums.

Only model-checked: KeysInOrder of `sim` and, but for BranchesCompare, the properties of
`sim_data`. KeysInOrder and `sim_data` rest on recursive definitions
(SelectSeq, the conversions), which the provers do not expand. Out of reach of the
prover: all liveness (CallReturns, EveryCallReturns, EveryJobPrinted, OperationReturns,
CallEnds), and induction over data.

## 6. Where code and documentation disagree

1. `fms_exhausted` (`FLX29FMS.ASM:1195`): GETAVL takes an exhausted map for one never
   read and reloads pointers from the disk that are older than the sectors handed
   out since: two files get one sector.
2. `scheduler_hang` (`FLX29FMS.ASM:256`): CMND decides by PR1 twice, whether to lock and
   whether to unlock. If the background ends in between, a character call returns with
   the lock set, and EXCLS waits for ever.

Found by a variant of a run that is not kept:

- WTAPP does not load the avail map; the close after a first append writes the empty map to
  the disk (`FLX29FMS.ASM:1567`; `Discipline <- AppendingFirst` violates FreeExact).
- SDWRITE reads the block before it replaces a half and cannot tell an error token from
  data; after a read error the neighbour sector is overwritten and the call reports success
  (`CONSOLE_FPGA.ASM:338`; `CardErrors = {"read"}` violates DiskSpec).
- POSIT misses a record that exists when a sector of the map was read at a second try:
  READSS leaves the soft errors in ETRIES, where POSIT goes on counting
  (`FLX29FMS.ASM:1905`; PositFinds without its exception `retried` is violated).

- ASNNXT "assigns the next available record" (`FLX29FMS.ASM:930-933`), but when its read fails
  (970) the block names the record (953-961) and the map still begins with it (977). CLOSE then
  succeeds and records it in the entry, and in the SIR as the first available sector; a later
  create takes it from a closed file (`FaultAt <- Assigning` in `fms_faults` violates TornOnlyInWindow).
- "VERIFY: Verify last sector written", says `DRIVERS.ASM:74`; neither driver does (`CONSOLE_FPGA.ASM:146`,
  `flex9io.c:447`). With the verify flag set a badly stored sector is reported as written
  (`Verifies = FALSE` in `random` violates MapIsChain).
- A PUTAVL that fails in EXCLS leaves a file whose sectors the SIR has as available, and a DELNAM
  that fails in DELETE a file whose sectors the map has (1537, 1771; `FaultAt` of `{"excls"}` or
  `{"delete"}` violates NoCrossLink).

Met while modelling, in the other parts of FLEX: EXCLS stops at the first block CLOSE
refuses (a refused append leaves one), and the command interpreter then forgets the others
(`FLX29FMS.ASM:225`, `FLX29CCP.ASM:245`). POSIT5 leaves two bytes on the stack when the second
sector of the map cannot be read (1937). OPNR12 counts the sectors of the map in FRN, so
record numbers are two too high until the first POSIT (1311). UPDFSM fails behind the last
entry of the map when the FCB and the link already name a sector that stays available
(1812). A reset in the one clock after a request is accepted leaves block_start_ack set and
the controller deaf, which CallReturns of `sd` names as its exception AckStuck. An SD call
before the card is identified would load a byte address on a block-addressed card
(`EarlyCalls`, assumed not to happen). The UART's RTS rises with nine characters waiting,
and the ring takes six more, not the eight of its comment (`bufferedUART.vhd:113`).
Months end two days early (`DRIVERS.ASM:311`).

Met while modelling the simulator:

- *CPU.* SET_H leaves a 2, so getcc puts a half carry where F is (`calc6809.h:40`,
  PushedFlags). DAA forgets the carry of the sum (`inst6809.c:313`); MUL's carry is bit 7
  of the old B (527), the FPGA's bit 7 of the product; SEX leaves V, SBC and SUB set H.
  Page 3 has CMPU for 11 AC and 11 BC where the disassembler and the FPGA have CMPS
  (`emu6809.c:202`). CWAI and SYNC do not wait. SameAlu leaves out what this list names.
- *Devices* (`flex9io.c`). Every command to the FD1771 takes a typed key away (57). KBHIT
  consumes the key it notices, and a control key below line feed repeats the interrupt
  and is lost; KeysInOrder excepts these keys. file_read does not look at short reads; a
  drive without image is reported ready by S_CHKRDY; data-port writes count without a
  command (383); R writes one byte past its buffer (174); ^T writes to a freed buffer.
- *Console* (`console.c`). n on a software interrupt executes the next instruction too, which
  StepIsOne excepts; a SIGINT during a software interrupt or a step is lost (57, 89, 402);
  the length used to step over a JSR lacks the bytes of an index postbyte (396). A trace
  point is passed without prepc being set, so that a key noticed there repeats more than
  the interrupt: `BreakPlaces` of Base + 15, or of Base + 32 and Base + 34, violates
  RegistersKept.
- *Loaders.* intel.c stores the bytes of a record before it looks at the sum, and
  mot2hex.c drops what follows a record beyond the end of memory.

## 7. Not modelled

- *UART and terminal driver*: whether a character is lost depends on how late the sender
  stops, which the repository does not say. The ring alone has no property that would not
  be its definition.
- *Clock and interrupt chain*: no timer interrupt comes on either machine of the repository;
  the part of the interrupt that switches tasks is in Scheduler.
- *Monitor, start-up*: one straight sequence without failure paths or state across calls;
  its SD driver is the one of CONSOLE_FPGA.ASM.
- *Command parsing, LOAD, CONSOLE.ASM, the console's commands that show and change memory
  and registers, the listings*: sequential text handling.
- *Random files*: the bytes GETRAN and PUTRAN move (the writing of a changed buffer is in
  `Fms`), appending to a random file, and the CLOSE of one
  whose writing failed.
- *FMS*: attributes, several drives, space compression, and the errors and restarts section 3 leaves
  out: reads before a call has changed anything, errors at a new directory sector, a failed read in the
  WRTDIR or PUTAVL of a CLOSE that is repeated, a restart while the new directory sector is not
  cleared.
- *Simulator*: the ACIA's polls, command files, the dialogs of ^T and ^F, and the key every
  port command takes for its message.
- *Third-party and generated parts*: see section 1.
